---------------------------- MODULE ServerProofs ----------------------------
(***************************************************************************)
(* Proofs about Server, for every number of connections, descriptors and   *)
(* workers and every size: the types, who owns a connection, its           *)
(* descriptor and its timer, and, for one worker or one request on each    *)
(* connection, the way of events and answers.                              *)
(***************************************************************************)
EXTENDS Server, Integers, FiniteSetTheorems, TLAPS

(***************************************************************************)
(* Types.                                                                  *)
(***************************************************************************)

\* What a response takes in the write buffer is a number, and one more
\* response does not take less.
LEMMA TotalType ==
  ASSUME NEW c \in Conns, made \in [Conns -> Nat]
  PROVE  Total(c) \in Nat
BY SizesAssumption DEF Total

\* A write appends numbered units to the wire.
LEMMA UnitsType ==
  ASSUME NEW a \in Nat, NEW n \in Nat, NEW s \in Seq(Nat)
  PROVE  s \o Units(a, n) \in Seq(Nat)
<1>1. Units(a, n) \in Seq(Nat)
  BY DEF Units
<1> QED BY <1>1

\* Letting go of a reference keeps the types of what it changes.
LEMMA LetGoType ==
  ASSUME NEW t \in Threads, NEW c \in Conns \cup {None}, NEW u, NEW q, NEW tk,
         NEW h, NEW l \in MainPcs \cup WorkerPcs,
         t = Main => l \in MainPcs, t # Main => l \in WorkerPcs,
         TypeOK, LetGo(t, c, u, q, tk, h, l)
  PROVE  /\ pc' \in [Threads -> MainPcs \cup WorkerPcs]
         /\ pc'[Main] \in MainPcs /\ \A w \in Workers : pc'[w] \in WorkerPcs
         /\ obj' \in [Conns -> {"unborn", "backlog", "live", "dying", "dead"}]
         /\ dying' \in [Threads -> Conns \cup {None}]
<1>1. "remove" \in MainPcs \cap WorkerPcs
  BY DEF MainPcs, WorkerPcs, Destructor
<1>2. PICK m \in {l, "remove"} : pc' = [pc EXCEPT ![t] = m]
  BY DEF LetGo, Goto
<1>3. /\ pc' \in [Threads -> MainPcs \cup WorkerPcs]
      /\ pc'[Main] \in MainPcs /\ \A w \in Workers : pc'[w] \in WorkerPcs
  BY <1>1, <1>2, NamesAssumption DEF TypeOK, Threads
<1>4. obj' \in [Conns -> {"unborn", "backlog", "live", "dying", "dead"}]
  <2>1. obj \in [Conns -> {"unborn", "backlog", "live", "dying", "dead"}]
    BY DEF TypeOK
  <2>2. obj' = obj \/ obj' = [obj EXCEPT ![c] = "dying"]
    BY DEF LetGo
  <2> QED BY <2>1, <2>2
<1>5. dying' \in [Threads -> Conns \cup {None}]
  <2>1. dying \in [Threads -> Conns \cup {None}]
    BY DEF TypeOK
  <2>2. dying' = dying \/ dying' = [dying EXCEPT ![t] = c]
    BY DEF LetGo
  <2> QED BY <2>1, <2>2
<1> QED BY <1>3, <1>4, <1>5

\* The places of threads, so that a thread may be sent to any of its own.
LEMMA GotoType ==
  ASSUME NEW t \in Threads, NEW l \in MainPcs \cup WorkerPcs,
         t = Main => l \in MainPcs, t # Main => l \in WorkerPcs,
         TypeOK, Goto(t, l)
  PROVE  /\ pc' \in [Threads -> MainPcs \cup WorkerPcs]
         /\ pc'[Main] \in MainPcs /\ \A w \in Workers : pc'[w] \in WorkerPcs
BY NamesAssumption DEF TypeOK, Goto, Threads

\* Every step keeps the types.
LEMMA TypeStep == TypeOK /\ OwnInv /\ [Next]_vars => TypeOK'
<1> SUFFICES ASSUME TypeOK, OwnInv, [Next]_vars PROVE TypeOK'
  OBVIOUS
<1> USE DEF threadVars, poolVars, loopVars, mainVars, connVars, mapVars, dataVars
<1>t. Main \in Threads /\ \A w \in Workers : w \in Threads /\ w # Main
  BY NamesAssumption DEF Threads
<1>m. ASSUME NEW l \in MainPcs, Goto(Main, l)
      PROVE  /\ pc' \in [Threads -> MainPcs \cup WorkerPcs]
             /\ pc'[Main] \in MainPcs /\ \A w \in Workers : pc'[w] \in WorkerPcs
  BY <1>m, <1>t, GotoType
<1>w. ASSUME NEW w \in Workers, NEW l \in WorkerPcs, Goto(w, l)
      PROVE  /\ pc' \in [Threads -> MainPcs \cup WorkerPcs]
             /\ pc'[Main] \in MainPcs /\ \A v \in Workers : pc'[v] \in WorkerPcs
  BY <1>w, <1>t, GotoType
<1>l. /\ {"tick", "callback", "poll", "block", "revents", "dispatch", "lookup",
          "enqueue", "release", "accept", "remove", "cancel", "closefd"} \subseteq MainPcs
      /\ {"idle", "events", "adjust", "read", "parse", "spin", "view", "write",
          "retrieve", "left", "more", "done", "close", "out", "err",
          "remove", "cancel", "closefd"} \subseteq WorkerPcs
  BY DEF MainPcs, WorkerPcs, Destructor
<1>1. CASE Tick
  <2>1. PICK f \in due : fired' = timer[f] /\ timer' = [timer EXCEPT ![f] = None] /\ due' = due \ {f}
    BY <1>1 DEF Tick
  <2>2. fired' \in Conns \cup {None} /\ timer' \in [Fds -> Conns \cup {None}] /\ due' \subseteq Fds
    BY <2>1 DEF TypeOK
  <2> QED BY <1>1, <2>2, <1>m, <1>l DEF Tick, TypeOK
<1>2. CASE Callback
  <2>1. fired \in Conns /\ fdOf[fired] \in Fds
    BY <1>2 DEF Callback, OwnInv, FiredInv, TypeOK
  <2>2. users[fdOf[fired]] \in Conns \cup {None}
    BY <2>1 DEF TypeOK
  <2>3. users' \in [Fds -> Conns \cup {None}]
    BY <1>2 DEF Callback, TimeoutErase, TypeOK
  <2>4. /\ pc' \in [Threads -> MainPcs \cup WorkerPcs]
        /\ pc'[Main] \in MainPcs /\ \A w \in Workers : pc'[w] \in WorkerPcs
        /\ obj' \in [Conns -> {"unborn", "backlog", "live", "dying", "dead"}]
        /\ dying' \in [Threads -> Conns \cup {None}]
    BY <1>2, <2>2, <1>t, <1>l, LetGoType DEF Callback
  <2> QED BY <1>2, <2>3, <2>4 DEF Callback, TypeOK
<1>3. CASE NextTick
  BY <1>3, <1>m, <1>l DEF NextTick, TypeOK
<1>4. CASE Poll
  <2>1. \A c \in Conns : Report(c) \subseteq Events
    BY DEF Report, Ready, Events
  <2>2. armed' \in [Conns -> SUBSET Events]
    BY <1>4 DEF Poll, Disarmed, TypeOK
  <2>3. events' \in [Conns -> SUBSET Events]
    BY <1>4, <2>1 DEF Poll
  <2>4. batch' \subseteq Conns \cup {Listen}
    BY <1>4 DEF Poll
  <2> QED BY <1>4, <2>2, <2>3, <2>4, <1>m, <1>l DEF Poll, TypeOK
<1>28. ASSUME NEW c \in Conns, SetRevents(c) PROVE TypeOK'
  <2>1. /\ revents' \in [Conns -> SUBSET Events] /\ events' \in [Conns -> SUBSET Events]
        /\ batch' \subseteq Conns \cup {Listen}
    <3>1. /\ events \in [Conns -> SUBSET Events] /\ revents \in [Conns -> SUBSET Events]
          /\ batch \subseteq Conns \cup {Listen} /\ events[c] \in SUBSET Events
      BY DEF TypeOK
    <3>2. revents' = revents \/ revents' = [revents EXCEPT ![c] = events[c]]
      BY <1>28 DEF SetRevents
    <3>3. events' = events \/ events' = [events EXCEPT ![c] = {}]
      BY <1>28 DEF SetRevents
    <3>4. batch' = batch \/ batch' = batch \cup {c}
      BY <1>28 DEF SetRevents
    <3> QED BY <3>1, <3>2, <3>3, <3>4
  <2>2. fault' \in {"none", "assert", "race", "dangling", "sigpipe", "terminate"}
    BY <1>28 DEF SetRevents, Crash, TypeOK
  <2> QED BY <1>28, <2>1, <2>2 DEF SetRevents, TypeOK
<1>29. CASE PollDone
  BY <1>29, <1>m, <1>l DEF PollDone, TypeOK
<1>5. CASE PollTimeout
  BY <1>5, <1>m, <1>l DEF PollTimeout, TypeOK
<1>6. CASE Dispatch
  BY <1>6, <1>m, <1>l DEF Dispatch, Crash, TypeOK
<1>7. CASE BatchDone
  BY <1>7, <1>m, <1>l DEF BatchDone, TypeOK
<1>8. CASE Lookup
  <2>1. cur # None /\ cur \in Conns /\ fdOf[cur] \in Fds
    BY <1>8 DEF Lookup, OwnInv, ChannelInv, TypeOK
  <2>2. hold' \in Conns \cup {None} /\ cur' \in Conns \cup {None}
    BY <1>8, <2>1 DEF Lookup, TypeOK
  <2>3. /\ pc' \in [Threads -> MainPcs \cup WorkerPcs]
        /\ pc'[Main] \in MainPcs /\ \A w \in Workers : pc'[w] \in WorkerPcs
    BY <1>8, <1>m, <1>l DEF Lookup
  <2> QED BY <1>8, <2>2, <2>3 DEF Lookup, TypeOK
<1>30. CASE Enqueue
  <2>1. queue' \in Seq(Conns \cup {None})
    <3>1. queue \in Seq(Conns \cup {None}) /\ hold \in Conns \cup {None}
      BY DEF TypeOK
    <3>2. queue' = queue \/ queue' = Append(queue, hold)
      BY <1>30 DEF Enqueue
    <3> QED BY <3>1, <3>2
  <2>2. fault' \in {"none", "assert", "race", "dangling", "sigpipe", "terminate"}
    BY <1>30 DEF Enqueue, Crash, TypeOK
  <2>3. /\ pc' \in [Threads -> MainPcs \cup WorkerPcs]
        /\ pc'[Main] \in MainPcs /\ \A w \in Workers : pc'[w] \in WorkerPcs
    BY <1>30, <1>m, <1>l DEF Enqueue, TypeOK
  <2> QED BY <1>30, <2>1, <2>2, <2>3 DEF Enqueue, TypeOK
<1>31. CASE Release
  <2>1. hold \in Conns \cup {None}
    BY DEF TypeOK
  <2>2. /\ pc' \in [Threads -> MainPcs \cup WorkerPcs]
        /\ pc'[Main] \in MainPcs /\ \A w \in Workers : pc'[w] \in WorkerPcs
        /\ obj' \in [Conns -> {"unborn", "backlog", "live", "dying", "dead"}]
        /\ dying' \in [Threads -> Conns \cup {None}]
    BY <1>31, <2>1, <1>t, <1>l, LetGoType DEF Release
  <2>3. hold' \in Conns \cup {None}
    BY <1>31, <2>2, <1>t DEF Release
  <2> QED BY <1>31, <2>2, <2>3 DEF Release, TypeOK
<1>9. CASE Accept
  <2>1. PICK c \in Conns, f \in FreeFds :
          /\ obj' = [obj EXCEPT ![c] = "live"]
          /\ fdOf' = [fdOf EXCEPT ![c] = f]
          /\ armed' = [armed EXCEPT ![c] = {"IN"}]
          /\ timer' = [timer EXCEPT ![f] = c]
          /\ due' = due \ {f}
          /\ users' = [users EXCEPT ![f] = c]
    BY <1>9 DEF Accept, AddTimer
  <2>2. f \in Fds
    BY DEF FreeFds
  <2>3. obj' \in [Conns -> {"unborn", "backlog", "live", "dying", "dead"}]
    BY <2>1 DEF TypeOK
  <2>4. fdOf' \in [Conns -> Fds \cup {None}]
    BY <2>1, <2>2 DEF TypeOK
  <2>5. armed' \in [Conns -> SUBSET Events]
    BY <2>1 DEF TypeOK, Events
  <2>6. /\ timer' \in [Fds -> Conns \cup {None}] /\ due' \subseteq Fds
        /\ users' \in [Fds -> Conns \cup {None}]
    BY <2>1 DEF TypeOK
  <2> QED BY <1>9, <2>3, <2>4, <2>5, <2>6 DEF Accept, TypeOK
<1>10. CASE AcceptStop
  BY <1>10, <1>m, <1>l DEF AcceptStop, TypeOK
<1>11. ASSUME NEW t \in Threads, RemoveChannel(t) PROVE TypeOK'
  <2>1. armed' \in [Conns -> SUBSET Events]
    BY <1>11 DEF RemoveChannel, TypeOK
  <2> QED BY <1>11, <2>1, <1>m, <1>w, <1>l DEF RemoveChannel, TypeOK, Threads
<1>12. ASSUME NEW t \in Threads, Cancel(t) PROVE TypeOK'
  <2>1. timer' \in [Fds -> Conns \cup {None}] /\ due' \subseteq Fds
    BY <1>12 DEF Cancel, CancelTimer, TypeOK
  <2>2. /\ pc' \in [Threads -> MainPcs \cup WorkerPcs]
        /\ pc'[Main] \in MainPcs /\ \A w \in Workers : pc'[w] \in WorkerPcs
    BY <1>12, <1>m, <1>w, <1>l DEF Cancel, Threads
  <2> QED BY <1>12, <2>1, <2>2 DEF Cancel, TypeOK
<1>13. ASSUME NEW t \in Threads, CloseFd(t) PROVE TypeOK'
  <2>1. obj' \in [Conns -> {"unborn", "backlog", "live", "dying", "dead"}]
    BY <1>13 DEF CloseFd, TypeOK
  <2>2. dying' \in [Threads -> Conns \cup {None}]
    BY <1>13 DEF CloseFd, TypeOK
  <2>3. /\ pc' \in [Threads -> MainPcs \cup WorkerPcs]
        /\ pc'[Main] \in MainPcs /\ \A w \in Workers : pc'[w] \in WorkerPcs
    BY <1>13, <1>m, <1>w, <1>l, <1>t DEF CloseFd, Threads
  <2>4. hold' \in Conns \cup {None}
    BY <1>13 DEF CloseFd, TypeOK
  <2> QED BY <1>13, <2>1, <2>2, <2>3, <2>4 DEF CloseFd, TypeOK
<1>14. ASSUME NEW w \in Workers, Dequeue(w) PROVE TypeOK'
  <2>1. Head(queue) \in Conns \cup {None} /\ Tail(queue) \in Seq(Conns \cup {None})
    BY <1>14 DEF Dequeue, TypeOK
  <2>2. task' \in [Workers -> Conns \cup {None}] /\ queue' \in Seq(Conns \cup {None})
    BY <1>14, <2>1 DEF Dequeue, TypeOK
  <2>3. /\ pc' \in [Threads -> MainPcs \cup WorkerPcs]
        /\ pc'[Main] \in MainPcs /\ \A v \in Workers : pc'[v] \in WorkerPcs
        /\ obj' \in [Conns -> {"unborn", "backlog", "live", "dying", "dead"}]
        /\ dying' \in [Threads -> Conns \cup {None}]
    <3>1. task[w] \in Conns \cup {None}
      BY DEF TypeOK
    <3>2. LetGo(w, task[w], users, Tail(queue), [task EXCEPT ![w] = Head(queue)], hold, "events")
      BY <1>14 DEF Dequeue
    <3> QED BY <3>1, <3>2, <1>t, <1>l, LetGoType
  <2> QED BY <1>14, <2>2, <2>3 DEF Dequeue, TypeOK
<1>15. ASSUME NEW w \in Workers, HandleEvents(w) PROVE TypeOK'
  BY <1>15, <1>w, <1>l DEF HandleEvents, TypeOK
<1>16. ASSUME NEW w \in Workers, Adjust(w) PROVE TypeOK'
  BY <1>16, <1>w, <1>l DEF Adjust, TypeOK
<1>17. ASSUME NEW w \in Workers, Read(w) PROVE TypeOK'
  BY <1>17, <1>w, <1>l DEF Read, TypeOK
<1>k. ASSUME NEW w \in Workers, pc[w] \in {"parse", "view", "write", "retrieve", "left", "more", "done", "close"}
      PROVE  task[w] \in Conns
  BY <1>k DEF OwnInv, TaskInv, TypeOK, Destructor
<1>u. \A c \in Conns : Unsent(c) \in Nat
  <2> SUFFICES ASSUME NEW c \in Conns PROVE Unsent(c) \in Nat
    OBVIOUS
  <2>1. Total(c) \in Nat /\ gone[c] \in Nat /\ gone[c] <= Total(c)
    BY TotalType DEF OwnInv, BufferInv, TypeOK
  <2> QED BY <2>1 DEF Unsent
<1>18. ASSUME NEW w \in Workers, Parse(w) PROVE TypeOK'
  <2>1. made' \in [Conns -> Nat]
    <3>1. made' = made \/ made' = [made EXCEPT ![task[w]] = @ + 1]
      BY <1>18 DEF Parse, Answer
    <3>2. made \in [Conns -> Nat] /\ task[w] \in Conns
      BY <1>18, <1>k DEF Parse, Answer, TypeOK
    <3>3. made[task[w]] + 1 \in Nat
      BY <3>2
    <3> QED BY <3>1, <3>2, <3>3
  <2>4. ret' \in [Workers -> {"idle", "out", "err"}]
    BY <1>18 DEF Parse, Answer, TypeOK
  <2>2. fault' \in {"none", "assert", "race", "dangling", "sigpipe", "terminate"}
    BY <1>18 DEF Parse, Answer, Crash, TypeOK
  <2>3. /\ pc' \in [Threads -> MainPcs \cup WorkerPcs]
        /\ pc'[Main] \in MainPcs /\ \A v \in Workers : pc'[v] \in WorkerPcs
    BY <1>18, <1>w, <1>l DEF Parse, Answer
  <2> QED BY <1>18, <2>1, <2>2, <2>3, <2>4 DEF Parse, Answer, TypeOK
<1>19. ASSUME NEW w \in Workers, View(w) PROVE TypeOK'
  <2>1. task[w] \in Conns /\ Unsent(task[w]) \in Nat
    BY <1>19, <1>k, <1>u DEF View
  <2>2. io' \in [Workers -> [from : Nat, n : Nat]]
    <3>1. gone[task[w]] \in Nat /\ io \in [Workers -> [from : Nat, n : Nat]]
      BY <2>1 DEF TypeOK
    <3>2. io' = io \/ io' = [io EXCEPT ![w] = [from |-> gone[task[w]], n |-> Unsent(task[w])]]
      BY <1>19 DEF View
    <3>3. [from |-> gone[task[w]], n |-> Unsent(task[w])] \in [from : Nat, n : Nat]
      BY <3>1, <2>1
    <3> DEFINE r == [from |-> gone[task[w]], n |-> Unsent(task[w])]
               R == [from : Nat, n : Nat]
    <3>4. r \in R /\ io \in [Workers -> R] /\ (io' = io \/ io' = [io EXCEPT ![w] = r])
      BY <3>1, <3>2, <3>3
    <3> HIDE DEF r, R
    <3>5. io' \in [Workers -> R]
      BY <3>4
    <3> QED BY <3>5 DEF R
  <2>3. /\ pc' \in [Threads -> MainPcs \cup WorkerPcs]
        /\ pc'[Main] \in MainPcs /\ \A v \in Workers : pc'[v] \in WorkerPcs
    BY <1>19, <1>w, <1>l DEF View, TypeOK
  <2> QED BY <1>19, <2>2, <2>3 DEF View, TypeOK
<1>20. ASSUME NEW w \in Workers, Write(w) PROVE TypeOK'
  <2> DEFINE n == Least(io[w].n, Room(task[w]))
  <2>1. task[w] \in Conns
    BY <1>20, <1>k DEF Write
  <2>2. Room(task[w]) \in Int
    BY <2>1, SizesAssumption DEF Room, TypeOK
  <2>3. io[w] \in [from : Nat, n : Nat]
    BY DEF TypeOK
  <2>4. Room(task[w]) > 0 => n \in Nat
    BY <2>2, <2>3 DEF Least
  <2>5. wire' \in [Conns -> Seq(Nat)] /\ io' \in [Workers -> [from : Nat, n : Nat]]
    <3>1. CASE wire' = wire /\ io' = io
      BY <3>1 DEF TypeOK
    <3>2. CASE /\ Room(task[w]) > 0 /\ io' = [io EXCEPT ![w].n = n]
               /\ wire' = [wire EXCEPT ![task[w]] = @ \o Units(io[w].from, n)]
      <4> HIDE DEF n
      <4>1. wire[task[w]] \o Units(io[w].from, n) \in Seq(Nat)
        BY <3>2, <2>1, <2>3, <2>4, UnitsType DEF TypeOK
      <4>2. wire' \in [Conns -> Seq(Nat)]
        BY <4>1, <3>2 DEF TypeOK
      <4>3. io' \in [Workers -> [from : Nat, n : Nat]]
        BY <3>2, <2>4, <2>3 DEF TypeOK
      <4> QED BY <4>2, <4>3
    <3> QED BY <3>1, <3>2, <1>20 DEF Write
  <2>6. fault' \in {"none", "assert", "race", "dangling", "sigpipe", "terminate"}
    BY <1>20 DEF Write, Crash, TypeOK
  <2>7. /\ pc' \in [Threads -> MainPcs \cup WorkerPcs]
        /\ pc'[Main] \in MainPcs /\ \A v \in Workers : pc'[v] \in WorkerPcs
    <3>1. ret[w] \in {"idle", "out", "err"}
      BY DEF TypeOK
    <3>2. \/ pc' = pc
          \/ Goto(w, "close") \/ Goto(w, ret[w]) \/ Goto(w, "retrieve")
      BY <1>20 DEF Write
    <3>3. CASE pc' = pc
      BY <3>3 DEF TypeOK
    <3> QED BY <3>1, <3>2, <3>3, <1>w, <1>l
  <2> QED BY <1>20, <2>5, <2>6, <2>7 DEF Write, TypeOK
<1>21. ASSUME NEW w \in Workers, Retrieve(w) PROVE TypeOK'
  <2>1. task[w] \in Conns /\ io[w].n \in Nat
    BY <1>21, <1>k DEF Retrieve, TypeOK
  <2>2. gone' \in [Conns -> Nat]
    <3>1. gone' = gone \/ gone' = [gone EXCEPT ![task[w]] = @ + io[w].n]
      BY <1>21 DEF Retrieve, Retrieved
    <3>2. gone \in [Conns -> Nat]
      BY DEF TypeOK
    <3>3. gone[task[w]] + io[w].n \in Nat
      BY <2>1, <3>2
    <3> QED BY <3>1, <3>2, <3>3, <2>1
  <2>3. fault' \in {"none", "assert", "race", "dangling", "sigpipe", "terminate"}
    BY <1>21 DEF Retrieve, Crash, TypeOK
  <2>4. /\ pc' \in [Threads -> MainPcs \cup WorkerPcs]
        /\ pc'[Main] \in MainPcs /\ \A v \in Workers : pc'[v] \in WorkerPcs
    BY <1>21, <1>w, <1>l DEF Retrieve, TypeOK
  <2> QED BY <1>21, <2>2, <2>3, <2>4 DEF Retrieve, TypeOK
<1>32. ASSUME NEW w \in Workers, Left(w) PROVE TypeOK'
  <2>1. task[w] \in Conns
    BY <1>32, <1>k DEF Left
  <2>2. Wanted(task[w]) \in SUBSET Events
    BY <2>1 DEF Wanted, Events, TypeOK
  <2>3. wants' \in [Conns -> SUBSET Events]
    BY <1>32, <2>2 DEF Left, TypeOK
  <2>4. /\ pc' \in [Threads -> MainPcs \cup WorkerPcs]
        /\ pc'[Main] \in MainPcs /\ \A v \in Workers : pc'[v] \in WorkerPcs
    BY <1>32, <1>w, <1>l DEF Left
  <2> QED BY <1>32, <2>3, <2>4 DEF Left, TypeOK
<1>33. ASSUME NEW w \in Workers, Modify(w) PROVE TypeOK'
  <2>1. task[w] \in Conns /\ ret[w] \in {"idle", "out", "err"}
    BY <1>33, <1>k DEF Modify, TypeOK
  <2>2. Rearm(w) \in SUBSET Events
    BY <2>1 DEF Rearm, TypeOK
  <2>3. armed' \in [Conns -> SUBSET Events]
    BY <1>33, <2>2 DEF Modify, TypeOK
  <2>4. /\ pc' \in [Threads -> MainPcs \cup WorkerPcs]
        /\ pc'[Main] \in MainPcs /\ \A v \in Workers : pc'[v] \in WorkerPcs
    <3>1. Goto(w, "close") \/ Goto(w, ret[w])
      BY <1>33 DEF Modify, AfterWrite
    <3> QED BY <3>1, <2>1, <1>w, <1>l
  <2> QED BY <1>33, <2>3, <2>4 DEF Modify, TypeOK
<1>22. ASSUME NEW w \in Workers, Close(w) PROVE TypeOK'
  <2>1. ret[w] \in WorkerPcs
    BY <1>l DEF TypeOK
  <2>2. /\ pc' \in [Threads -> MainPcs \cup WorkerPcs]
        /\ pc'[Main] \in MainPcs /\ \A v \in Workers : pc'[v] \in WorkerPcs
    BY <1>22, <2>1, <1>w DEF Close
  <2>3. users' \in [Fds -> Conns \cup {None}]
    BY <1>22 DEF Close, TypeOK
  <2>4. fault' \in {"none", "assert", "race", "dangling", "sigpipe", "terminate"}
    BY <1>22 DEF Close, Crash, TypeOK
  <2> QED BY <1>22, <2>2, <2>3, <2>4 DEF Close, TypeOK
<1>23. ASSUME NEW w \in Workers, CheckOut(w) PROVE TypeOK'
  BY <1>23, <1>w, <1>l DEF CheckOut, TypeOK
<1>24. ASSUME NEW w \in Workers, CheckErr(w) PROVE TypeOK'
  BY <1>24, <1>w, <1>l DEF CheckErr, TypeOK
<1>25. ASSUME NEW c \in Conns, Connect(c) \/ Send(c) \/ Drain(c) \/ Hangup(c)
       PROVE  TypeOK'
  <2>1. CASE Connect(c)
    BY <2>1 DEF Connect, TypeOK
  <2>2. CASE Send(c)
    <3>0. sent \in [Conns -> Nat]
      BY DEF TypeOK
    <3>1. sent[c] + 1 \in Nat
      BY <3>0
    <3>2. sent' \in [Conns -> Nat]
      BY <2>2, <3>0, <3>1 DEF Send
    <3> QED BY <2>2, <3>2 DEF Send, TypeOK
  <2>3. CASE Drain(c)
    <3>0. drained \in [Conns -> Nat]
      BY DEF TypeOK
    <3>1. drained[c] + 1 \in Nat
      BY <3>0
    <3>2. drained' \in [Conns -> Nat]
      BY <2>3, <3>0, <3>1 DEF Drain
    <3> QED BY <2>3, <3>2 DEF Drain, TypeOK
  <2>4. CASE Hangup(c)
    BY <2>4 DEF Hangup, TypeOK
  <2> QED BY <1>25, <2>1, <2>2, <2>3, <2>4
<1>26. ASSUME NEW f \in Fds, Expire(f) PROVE TypeOK'
  BY <1>26 DEF Expire, TypeOK
<1>27. CASE UNCHANGED vars
  BY <1>27 DEF vars, TypeOK
<1> QED
  BY <1>1, <1>2, <1>3, <1>4, <1>5, <1>6, <1>7, <1>8, <1>9, <1>10, <1>11, <1>12,
     <1>13, <1>14, <1>15, <1>16, <1>17, <1>18, <1>19, <1>20, <1>21, <1>22, <1>23,
     <1>24, <1>25, <1>26, <1>27, <1>28, <1>29, <1>30, <1>31, <1>32, <1>33, <1>t
  DEF Next, MainStep, WorkerStep, Environment, Destroy

(***************************************************************************)
(* Who owns a connection, its descriptor and its timer.                    *)
(***************************************************************************)

\* A step that moves no reference, no timer and no descriptor: every step of
\* a handler, of epoll and of a client.
LEMMA QuietStep ==
  ASSUME TypeOK, OwnInv, TypeOK', BufferInv',
         UNCHANGED <<fdOf, users, timer, dying, fired, queue, task, hold>>,
         \A c \in Conns : obj'[c] = obj[c] \/ {obj[c], obj'[c]} \subseteq {"unborn", "backlog"},
         \A f \in due' : timer[f] # None,
         \A c \in Conns : armed'[c] # {} \/ events'[c] # {} \/ c \in batch' => fdOf[c] # None,
         pc'[Main] = "lookup" => cur' # None /\ fdOf[cur'] # None,
         pc[Main] \in {"enqueue", "release"} => pc'[Main] \in {"enqueue", "release"},
         \A t \in Threads : pc'[t] \in Destructor <=> pc[t] \in Destructor,
         \A t \in Threads : pc'[t] = "closefd" => pc[t] = "closefd",
         pc'[Main] = "callback" <=> pc[Main] = "callback",
         \A w \in Workers : pc'[w] \notin {"idle", "events"} \cup Destructor => task[w] # None
  PROVE  OwnInv'
<1>a. \A f \in Fds : users[f] \in Conns \cup {None} /\ timer[f] \in Conns \cup {None}
  BY DEF TypeOK
<1>b. \A t \in Threads : dying[t] \in Conns \cup {None}
  BY DEF TypeOK
<1>c. \A w \in Workers : task[w] \in Conns \cup {None}
  BY DEF TypeOK
<1>d. \A i \in 1 .. Len(queue) : queue[i] \in Conns \cup {None}
  BY DEF TypeOK
<1>o. \A c \in Conns : obj[c] \in {"live", "dying"} => obj'[c] = obj[c]
  OBVIOUS
<1>1. FdInv'
  BY DEF FdInv, OwnInv, Open
<1>2. TimerInv'
  <2>1. ASSUME NEW f \in Fds, timer[f] # None
        PROVE  /\ obj'[timer[f]] \in {"live", "dying"} /\ fdOf[timer[f]] = f
               /\ \A t \in Threads : pc'[t] = "closefd" => dying[t] # timer[f]
    BY <2>1, <1>a, <1>o DEF TimerInv, OwnInv, Open
  <2> QED BY <2>1 DEF TimerInv, Open
<1>3. UsersInv'
  <2>1. ASSUME NEW f \in Fds, users[f] # None
        PROVE  /\ obj'[users[f]] = "live" /\ fdOf[users[f]] = f
               /\ timer[f] = users[f] \/ fired = users[f]
    BY <2>1, <1>a, <1>o DEF UsersInv, OwnInv
  <2> QED BY <2>1 DEF UsersInv
<1>4. FiredInv'
  BY DEF FiredInv, OwnInv
<1>5. DyingInv'
  <2>1. \A t \in Threads : dying[t] # None => obj'[dying[t]] = "dying"
    BY <1>b, <1>o DEF DyingInv, OwnInv
  <2> QED BY <2>1 DEF DyingInv, OwnInv
<1>6. TaskInv'
  <2>1. \A w \in Workers : task[w] # None => obj'[task[w]] = "live"
    BY <1>c, <1>o DEF TaskInv, TasksAreLive, OwnInv
  <2>2. \A i \in 1 .. Len(queue) : queue[i] # None => obj'[queue[i]] = "live"
    BY <1>d, <1>o DEF TaskInv, TasksAreLive, OwnInv
  <2> QED BY <2>1, <2>2 DEF TaskInv, TasksAreLive
<1>7. ChannelInv'
  BY DEF ChannelInv
<1>8. HoldInv'
  <2> SUFFICES ASSUME hold # None
               PROVE  \/ pc'[Main] \in {"enqueue", "release"} /\ obj'[hold] = "live"
                      \/ pc'[Main] \in Destructor /\ dying[Main] = hold
    BY DEF HoldInv
  <2>1. hold \in Conns /\ Main \in Threads
    BY DEF TypeOK, Threads
  <2> QED BY <2>1, <1>o DEF OwnInv, HoldInv
<1> QED BY <1>1, <1>2, <1>3, <1>4, <1>5, <1>6, <1>7, <1>8 DEF OwnInv

\* A response more makes the total larger.
LEMMA TotalGrows ==
  \A k \in Nat : /\ k * RespLen \in Nat /\ (k + 1) * RespLen \in Nat
                 /\ k * RespLen <= (k + 1) * RespLen
BY SizesAssumption

\* The write buffer never gives out more than it took in: only Parse appends
\* and only Retrieve removes, after the assertion of Buffer::Retrieve.
LEMMA BufferStep == TypeOK /\ OwnInv /\ [Next]_vars => BufferInv'
<1> SUFFICES ASSUME TypeOK, OwnInv, [Next]_vars PROVE BufferInv'
  OBVIOUS
<1> USE DEF threadVars, poolVars, loopVars, mainVars, connVars, mapVars, dataVars
<1>0. \A c \in Conns : gone[c] \in Nat /\ made[c] \in Nat /\ gone[c] <= made[c] * RespLen
  BY DEF OwnInv, BufferInv, TypeOK, Total
<1>1. CASE UNCHANGED <<made, gone>>
  BY <1>0, <1>1 DEF BufferInv, Total
<1>2. ASSUME NEW w \in Workers, Parse(w) PROVE BufferInv'
  <2>1. gone' = gone /\ \A c \in Conns : made'[c] \in {made[c], made[c] + 1}
    BY <1>2 DEF Parse, Answer, TypeOK
  <2> SUFFICES ASSUME NEW c \in Conns PROVE gone[c] <= made'[c] * RespLen
    BY <2>1 DEF BufferInv, Total
  <2>2. CASE made'[c] = made[c]
    BY <2>2, <1>0
  <2>3. CASE made'[c] = made[c] + 1
    <3> DEFINE a == made[c] * RespLen  b == (made[c] + 1) * RespLen
    <3>1. a \in Nat /\ b \in Nat /\ a <= b
      BY <1>0, TotalGrows
    <3>2. gone[c] \in Nat /\ gone[c] <= a
      BY <1>0
    <3> HIDE DEF a, b
    <3>3. gone[c] <= b
      BY <3>1, <3>2
    <3> QED BY <3>3, <2>3 DEF b
  <2> QED BY <2>1, <2>2, <2>3
<1>3. ASSUME NEW w \in Workers, Retrieve(w) PROVE BufferInv'
  <2> DEFINE d == task[w]
  <2>1. d \in Conns /\ io[w].n \in Nat
    BY <1>3 DEF Retrieve, OwnInv, TaskInv, TypeOK, Destructor
  <2>2. made' = made
    BY <1>3 DEF Retrieve
  <2>3. CASE io[w].n > Unsent(d)
    BY <2>3, <1>3, <1>1 DEF Retrieve
  <2>4. CASE ~(io[w].n > Unsent(d))
    <3>1. gone' = [gone EXCEPT ![d] = @ + io[w].n]
      BY <2>4, <1>3 DEF Retrieve, Retrieved
    <3>2. Total(d) \in Nat /\ gone[d] \in Nat
      BY <2>1, TotalType DEF TypeOK
    <3>3. gone[d] + io[w].n <= Total(d)
      BY <2>1, <2>4, <3>2 DEF Unsent
    <3>4. \A c \in Conns : gone'[c] = IF c = d THEN gone[d] + io[w].n ELSE gone[c]
      BY <3>1, <2>1 DEF TypeOK
    <3> HIDE DEF d
    <3>5. \A c \in Conns : Total(c)' = Total(c)
      BY <2>2 DEF Total
    <3>6. \A c \in Conns : gone[c] <= Total(c)
      BY DEF OwnInv, BufferInv
    <3> QED BY <3>3, <3>4, <3>5, <3>6 DEF BufferInv
  <2> QED BY <2>3, <2>4
<1>4. ASSUME NEW t \in Threads, Destroy(t) PROVE UNCHANGED <<made, gone>>
  BY <1>4 DEF Destroy, RemoveChannel, Cancel, CloseFd
<1>5. ASSUME MainStep PROVE UNCHANGED <<made, gone>>
  BY <1>4, <1>5 DEF MainStep, Tick, Callback, NextTick, Poll, PollTimeout, SetRevents,
     PollDone, Dispatch, BatchDone, Lookup, Enqueue, Release, Accept, AcceptStop, Threads
<1>6. ASSUME NEW w \in Workers, WorkerStep(w), ~Parse(w), ~Retrieve(w)
      PROVE  UNCHANGED <<made, gone>>
  BY <1>4, <1>6 DEF WorkerStep, Dequeue, HandleEvents, Adjust, Read, View, Write,
     Left, Modify, Close, CheckOut, CheckErr, Threads
<1>7. ASSUME Environment PROVE UNCHANGED <<made, gone>>
  BY <1>7 DEF Environment, Connect, Send, Drain, Hangup, Expire
<1>8. CASE UNCHANGED vars
  BY <1>8, <1>1 DEF vars
<1> QED BY <1>1, <1>2, <1>3, <1>5, <1>6, <1>7, <1>8 DEF Next

\* The steps that move no reference are quiet.
LEMMA HandlerStep ==
  ASSUME TypeOK, OwnInv, TypeOK', BufferInv', NEW w \in Workers,
         \/ HandleEvents(w) \/ Adjust(w) \/ Read(w) \/ Parse(w) \/ View(w)
         \/ Write(w) \/ Retrieve(w) \/ Left(w) \/ Modify(w) \/ CheckOut(w) \/ CheckErr(w)
  PROVE  OwnInv'
<1> USE DEF threadVars, poolVars, loopVars, mainVars, connVars, mapVars, dataVars
<1>t. Main \in Threads /\ w \in Threads /\ w # Main
  BY NamesAssumption DEF Threads
<1>p. pc \in [Threads -> MainPcs \cup WorkerPcs] /\ ret[w] \in {"idle", "out", "err"}
  BY DEF TypeOK
<1>1. PICK l : /\ pc' = pc \/ pc' = [pc EXCEPT ![w] = l]
               /\ l \in {"idle", "adjust", "read", "parse", "spin", "view", "write",
                         "retrieve", "left", "more", "done", "close", "out", "err"}
  BY <1>p DEF HandleEvents, Adjust, Read, Parse, Answer, View, Write, Retrieve, Left, Modify, CheckOut,
     CheckErr, Goto, AfterWrite
<1>2. pc[w] \notin {"idle", "remove", "cancel", "closefd"}
  BY DEF HandleEvents, Adjust, Read, Parse, Answer, View, Write, Retrieve, Left, Modify, CheckOut, CheckErr
<1>3. \A t \in Threads : t # w => pc'[t] = pc[t]
  BY <1>1, <1>p
<1>4. pc'[w] = pc[w] \/ pc'[w] = l
  BY <1>1, <1>p, <1>t
<1>5. task[w] # None \/ (pc[w] = "events" /\ pc'[w] = "idle")
  <2>1. CASE pc[w] = "events"
    BY <2>1, <1>p, <1>t DEF HandleEvents, Adjust, Read, Parse, Answer, View, Write, Retrieve, Left, Modify,
       CheckOut, CheckErr, Goto
  <2>2. CASE pc[w] # "events"
    BY <2>2, <1>2 DEF OwnInv, TaskInv, Destructor
  <2> QED BY <2>1, <2>2
<1>6. UNCHANGED <<obj, fdOf, users, timer, dying, fired, queue, task, events, batch, cur, hold>>
  BY DEF HandleEvents, Adjust, Read, Parse, Answer, View, Write, Retrieve, Left, Modify, CheckOut, CheckErr
<1>7. \A f \in due' : timer[f] # None
  <2>1. due' \subseteq due
    BY DEF HandleEvents, Adjust, Read, Parse, Answer, View, Write, Retrieve, Left, Modify, CheckOut, CheckErr
  <2> QED BY <2>1 DEF OwnInv, TimerInv
<1>8. \A c \in Conns : armed'[c] # {} \/ events'[c] # {} \/ c \in batch' => fdOf[c] # None
  <2>1. armed' = armed \/ \E e : armed' = [armed EXCEPT ![task[w]] = e]
    BY DEF HandleEvents, Adjust, Read, Parse, Answer, View, Write, Retrieve, Left, Modify, CheckOut, CheckErr
  <2>2. \A c \in Conns : c # task[w] => armed'[c] = armed[c]
    BY <2>1 DEF TypeOK
  <2>3. task[w] \in Conns => fdOf[task[w]] # None
    BY NamesAssumption DEF OwnInv, TaskInv, TasksAreLive, FdInv
  <2> QED BY <1>6, <2>2, <2>3 DEF OwnInv, ChannelInv
<1>9. \A t \in Threads : pc'[t] \in Destructor <=> pc[t] \in Destructor
  BY <1>1, <1>2, <1>3, <1>4 DEF Destructor
<1>10. \A t \in Threads : pc'[t] = "closefd" => pc[t] = "closefd"
  BY <1>1, <1>3, <1>4
<1>11. pc'[Main] = pc[Main]
  BY <1>3, <1>t
<1>12. \A v \in Workers : pc'[v] \notin {"idle", "events"} \cup Destructor => task[v] # None
  <2>1. \A v \in Workers : v # w => pc'[v] = pc[v]
    BY <1>3 DEF Threads
  <2> QED BY <2>1, <1>5 DEF OwnInv, TaskInv
<1>13. pc'[Main] = "lookup" => cur' # None /\ fdOf[cur'] # None
  BY <1>6, <1>11 DEF OwnInv, ChannelInv
<1>14. /\ \A c \in Conns : obj'[c] = obj[c] \/ {obj[c], obj'[c]} \subseteq {"unborn", "backlog"}
       /\ UNCHANGED <<fdOf, users, timer, dying, fired, queue, task, hold>>
       /\ pc[Main] \in {"enqueue", "release"} => pc'[Main] \in {"enqueue", "release"}
       /\ pc'[Main] = "callback" <=> pc[Main] = "callback"
  BY <1>6, <1>11
<1> QED BY <1>7, <1>8, <1>9, <1>10, <1>12, <1>13, <1>14, QuietStep

\* So are the steps of the main loop between two of its calls ...
LEMMA LoopStep ==
  ASSUME TypeOK, OwnInv, TypeOK', BufferInv',
         \/ NextTick \/ Poll \/ PollTimeout \/ PollDone \/ (\E c \in Conns : SetRevents(c))
         \/ Dispatch \/ BatchDone \/ AcceptStop
  PROVE  OwnInv'
<1> USE DEF threadVars, poolVars, loopVars, mainVars, connVars, mapVars, dataVars
<1>p. pc \in [Threads -> MainPcs \cup WorkerPcs] /\ Main \in Threads
  BY DEF TypeOK, Threads
<1>1. PICK l : /\ pc' = pc \/ pc' = [pc EXCEPT ![Main] = l]
               /\ l \in {"tick", "poll", "block", "revents", "dispatch", "lookup", "accept"}
  BY DEF NextTick, Poll, PollTimeout, PollDone, SetRevents, Dispatch, BatchDone, AcceptStop, Goto
<1>2. pc[Main] \notin {"callback", "enqueue", "release", "remove", "cancel", "closefd"}
  BY DEF NextTick, Poll, PollTimeout, PollDone, SetRevents, Dispatch, BatchDone, AcceptStop
<1>3. \A t \in Threads : t # Main => pc'[t] = pc[t]
  BY <1>1, <1>p
<1>4. pc'[Main] = pc[Main] \/ pc'[Main] = l
  BY <1>1, <1>p
<1>5. UNCHANGED <<obj, fdOf, users, timer, due, dying, fired, queue, task, hold>>
  BY DEF NextTick, Poll, PollTimeout, PollDone, SetRevents, Dispatch, BatchDone, AcceptStop
<1>6. \A c \in Conns : armed'[c] # {} \/ events'[c] # {} \/ c \in batch' => fdOf[c] # None
  <2>1. CASE Poll
    <3>1. \A c \in Conns : Report(c) # {} => armed[c] # {}
      BY DEF Report
    <3>2. \A c \in Conns : armed'[c] # {} => armed[c] # {}
      BY <2>1 DEF Poll, Disarmed, TypeOK
    <3>3. \A c \in Conns : c \notin batch'
      BY <2>1, NamesAssumption DEF Poll
    <3>4. \A c \in Conns : events'[c] = Report(c)
      BY <2>1 DEF Poll
    <3> QED BY <3>1, <3>2, <3>3, <3>4 DEF OwnInv, ChannelInv
  <2>2. ASSUME NEW d \in Conns, SetRevents(d)
        PROVE  \A c \in Conns : armed'[c] # {} \/ events'[c] # {} \/ c \in batch' => fdOf[c] # None
    <3>1. \A c \in Conns : /\ events'[c] # {} => events[c] # {}
                           /\ c \in batch' => c \in batch \/ events[c] # {}
      <4>1. events \in [Conns -> SUBSET Events] /\ events[d] # {}
        BY <2>2 DEF SetRevents, TypeOK
      <4>2. events' = events \/ events' = [events EXCEPT ![d] = {}]
        BY <2>2 DEF SetRevents
      <4>3. batch' = batch \/ batch' = batch \cup {d}
        BY <2>2 DEF SetRevents
      <4> QED BY <4>1, <4>2, <4>3
    <3>2. armed' = armed
      BY <2>2 DEF SetRevents
    <3> QED BY <3>1, <3>2 DEF OwnInv, ChannelInv
  <2>3. CASE ~Poll /\ ~\E c \in Conns : SetRevents(c)
    <3>1. armed' = armed /\ batch' \subseteq batch /\ events' = events
      BY <2>3 DEF NextTick, PollTimeout, PollDone, Dispatch, BatchDone, AcceptStop
    <3> QED BY <3>1 DEF OwnInv, ChannelInv
  <2> QED BY <2>1, <2>2, <2>3
<1>7. pc'[Main] = "lookup" => cur' # None /\ fdOf[cur'] # None
  <2>1. CASE Dispatch
    <3> SUFFICES ASSUME pc'[Main] = "lookup" PROVE cur' # None /\ fdOf[cur'] # None
      OBVIOUS
    <3>1. PICK x \in batch : x # Listen /\ cur' = x
      BY <2>1, <1>p DEF Dispatch, Goto
    <3>2. x \in Conns
      BY <3>1 DEF TypeOK
    <3> QED BY <3>1, <3>2, NamesAssumption DEF OwnInv, ChannelInv
  <2>2. CASE ~Dispatch
    <3>1. pc'[Main] # "lookup"
      BY <2>2, <1>p DEF NextTick, Poll, PollTimeout, PollDone, SetRevents, BatchDone,
         AcceptStop, Goto
    <3> QED BY <3>1
  <2> QED BY <2>1, <2>2
<1>8. \A t \in Threads : pc'[t] \in Destructor <=> pc[t] \in Destructor
  BY <1>1, <1>2, <1>3, <1>4 DEF Destructor
<1>9. /\ \A t \in Threads : pc'[t] = "closefd" => pc[t] = "closefd"
      /\ pc'[Main] = "callback" <=> pc[Main] = "callback"
  BY <1>1, <1>2, <1>3, <1>4
<1>10. \A w \in Workers : pc'[w] \notin {"idle", "events"} \cup Destructor => task[w] # None
  <2>1. \A w \in Workers : pc'[w] = pc[w]
    BY <1>3, NamesAssumption DEF Threads
  <2> QED BY <2>1 DEF OwnInv, TaskInv
<1>11. /\ \A f \in due' : timer[f] # None
       /\ \A c \in Conns : obj'[c] = obj[c] \/ {obj[c], obj'[c]} \subseteq {"unborn", "backlog"}
       /\ UNCHANGED <<fdOf, users, timer, dying, fired, queue, task, hold>>
  BY <1>5 DEF OwnInv, TimerInv
<1> QED BY <1>2, <1>6, <1>7, <1>8, <1>9, <1>10, <1>11, QuietStep

\* ... and the steps of the clients and of time.
LEMMA ClientStep ==
  ASSUME TypeOK, OwnInv, TypeOK', BufferInv', Environment
  PROVE  OwnInv'
<1> USE DEF threadVars, poolVars, loopVars, mainVars, connVars, mapVars, dataVars
<1>1. UNCHANGED <<pc, fdOf, users, timer, dying, fired, queue, task, armed, events, batch, cur, hold>>
  BY DEF Environment, Connect, Send, Drain, Hangup, Expire
<1>2. \A f \in due' : timer[f] # None
  BY DEF Environment, Connect, Send, Drain, Hangup, Expire, OwnInv, TimerInv
<1>3. \A c \in Conns : obj'[c] = obj[c] \/ {obj[c], obj'[c]} \subseteq {"unborn", "backlog"}
  <2>1. obj' = obj \/ \E c \in Conns : obj[c] = "unborn" /\ obj' = [obj EXCEPT ![c] = "backlog"]
    BY DEF Environment, Connect, Send, Drain, Hangup, Expire
  <2>2. obj \in [Conns -> {"unborn", "backlog", "live", "dying", "dead"}]
    BY DEF TypeOK
  <2> QED BY <2>1, <2>2
<1>4. \A c \in Conns : armed'[c] # {} \/ events'[c] # {} \/ c \in batch' => fdOf[c] # None
  BY <1>1 DEF OwnInv, ChannelInv
<1>5. \A w \in Workers : pc'[w] \notin {"idle", "events"} \cup Destructor => task[w] # None
  BY <1>1 DEF OwnInv, TaskInv
<1>6. pc'[Main] = "lookup" => cur' # None /\ fdOf[cur'] # None
  BY <1>1 DEF OwnInv, ChannelInv
<1> QED BY <1>1, <1>2, <1>3, <1>4, <1>5, <1>6, QuietStep

\* ~HttpConn starts by leaving epoll: nothing it owns changes hands.
LEMMA RemoveStep ==
  ASSUME TypeOK, OwnInv, TypeOK', BufferInv', NEW t \in Threads, RemoveChannel(t)
  PROVE  OwnInv'
<1> USE DEF threadVars, poolVars, loopVars, mainVars, connVars, mapVars, dataVars
<1>1. pc'[t] = "cancel" /\ \A s \in Threads : s # t => pc'[s] = pc[s]
  BY DEF RemoveChannel, Goto, TypeOK
<1>2. /\ UNCHANGED <<fdOf, users, timer, due, dying, fired, queue, task, events, batch, cur, hold, obj>>
      /\ pc[t] = "remove"
  BY DEF RemoveChannel
<1>3. \A c \in Conns : armed'[c] # {} \/ events'[c] # {} \/ c \in batch' => fdOf[c] # None
  <2>1. \A c \in Conns : armed'[c] # {} => armed[c] # {}
    BY DEF RemoveChannel, TypeOK
  <2> QED BY <1>2, <2>1 DEF OwnInv, ChannelInv
<1>4. \A s \in Threads : pc'[s] \in Destructor <=> pc[s] \in Destructor
  BY <1>1, <1>2 DEF Destructor
<1>5. /\ \A s \in Threads : pc'[s] = "closefd" => pc[s] = "closefd"
      /\ pc'[Main] = "callback" <=> pc[Main] = "callback"
      /\ pc'[Main] = "lookup" => pc[Main] = "lookup"
      /\ pc[Main] \in {"enqueue", "release"} => pc'[Main] \in {"enqueue", "release"}
  BY <1>1, <1>2 DEF Threads
<1>6. \A w \in Workers : pc'[w] \notin {"idle", "events"} \cup Destructor => task[w] # None
  BY <1>1, <1>4 DEF OwnInv, TaskInv, Threads, Destructor
<1>7. /\ \A f \in due' : timer[f] # None
      /\ \A c \in Conns : obj'[c] = obj[c] \/ {obj[c], obj'[c]} \subseteq {"unborn", "backlog"}
      /\ UNCHANGED <<fdOf, users, timer, dying, fired, queue, task, hold>>
      /\ pc'[Main] = "lookup" => cur' # None /\ fdOf[cur'] # None
  BY <1>2, <1>5 DEF OwnInv, TimerInv, ChannelInv
<1> QED BY <1>3, <1>4, <1>5, <1>6, <1>7, QuietStep

(***************************************************************************)
(* The steps that move a reference, a timer or a descriptor.               *)
(***************************************************************************)

\* tick() takes the timer of a connection that users_ holds or that its
\* destructor has not reached yet.
LEMMA TickStep ==
  ASSUME TypeOK, OwnInv, TypeOK', BufferInv', Tick
  PROVE  OwnInv'
<1> USE DEF threadVars, poolVars, loopVars, mainVars, connVars, mapVars, dataVars
<1>1. PICK f \in due : fired' = timer[f] /\ timer' = [timer EXCEPT ![f] = None] /\ due' = due \ {f}
  BY DEF Tick
<1>2. /\ UNCHANGED <<obj, fdOf, users, dying, queue, task, events, batch, cur, hold, armed>>
      /\ pc[Main] = "tick" /\ pc'[Main] = "callback"
      /\ \A t \in Threads : t # Main => pc'[t] = pc[t]
  BY DEF Tick, Goto, TypeOK, Threads
<1>3. /\ f \in Fds /\ timer[f] \in Conns /\ Open(timer[f]) /\ fdOf[timer[f]] = f
      /\ timer'[f] = None /\ \A g \in Fds : g # f => timer'[g] = timer[g]
      /\ fired = None
  BY <1>1, <1>2 DEF TypeOK, OwnInv, TimerInv, FiredInv
<1>4. FdInv'
  BY <1>2 DEF OwnInv, FdInv, Open
<1>5. TimerInv'
  BY <1>1, <1>2, <1>3 DEF OwnInv, TimerInv, Open, Threads
<1>6. UsersInv'
  BY <1>1, <1>2, <1>3 DEF OwnInv, UsersInv
<1>7. FiredInv'
  <2>1. users[f] \in {None, timer[f]}
    BY <1>3 DEF OwnInv, UsersInv
  <2>2. fired' # None /\ fdOf[fired'] = f
    BY <1>1, <1>3, NamesAssumption
  <2>3. f # None
    BY <1>3, NamesAssumption
  <2> QED BY <1>1, <1>2, <2>1, <2>2, <2>3 DEF FiredInv
<1>8. DyingInv'
  BY <1>2 DEF OwnInv, DyingInv, Destructor, Threads
<1>9. TaskInv'
  BY <1>2, NamesAssumption DEF OwnInv, TaskInv, TasksAreLive, Threads
<1>10. ChannelInv'
  BY <1>2 DEF OwnInv, ChannelInv
<1>11. HoldInv'
  BY <1>2 DEF OwnInv, HoldInv, Destructor
<1> QED BY <1>4, <1>5, <1>6, <1>7, <1>8, <1>9, <1>10, <1>11 DEF OwnInv

\* A lookup that captures a live connection, or nothing.
LEMMA LookupStep ==
  ASSUME TypeOK, OwnInv, TypeOK', BufferInv', Lookup
  PROVE  OwnInv'
<1> USE DEF threadVars, poolVars, loopVars, mainVars, connVars, mapVars, dataVars
<1>1. /\ UNCHANGED <<obj, fdOf, users, timer, due, dying, fired, queue, task, events, batch, armed>>
      /\ pc[Main] = "lookup" /\ pc'[Main] = "enqueue"
      /\ \A t \in Threads : t # Main => pc'[t] = pc[t]
      /\ hold' = users[fdOf[cur]]
  BY DEF Lookup, Goto, TypeOK, Threads
<1>2. cur \in Conns /\ fdOf[cur] \in Fds
  BY <1>1 DEF OwnInv, ChannelInv, TypeOK
<1>3. hold' # None => obj[hold'] = "live"
  BY <1>1, <1>2 DEF OwnInv, UsersInv
<1>4. FdInv' /\ UsersInv'
  BY <1>1 DEF OwnInv, FdInv, UsersInv, Open
<1>5. TimerInv'
  BY <1>1 DEF OwnInv, TimerInv, Open, Threads
<1>6. FiredInv'
  BY <1>1 DEF OwnInv, FiredInv
<1>7. DyingInv'
  BY <1>1 DEF OwnInv, DyingInv, Destructor, Threads
<1>8. TaskInv'
  BY <1>1, NamesAssumption DEF OwnInv, TaskInv, TasksAreLive, Threads
<1>9. ChannelInv'
  BY <1>1 DEF OwnInv, ChannelInv
<1>10. HoldInv'
  BY <1>1, <1>3 DEF HoldInv
<1> QED BY <1>4, <1>5, <1>6, <1>7, <1>8, <1>9, <1>10 DEF OwnInv

\* The task takes a reference of its own to what the lookup found.
LEMMA EnqueueStep ==
  ASSUME TypeOK, OwnInv, TypeOK', BufferInv', Enqueue
  PROVE  OwnInv'
<1> USE DEF threadVars, poolVars, loopVars, mainVars, connVars, mapVars, dataVars
<1>1. /\ UNCHANGED <<obj, fdOf, users, timer, due, dying, fired, task, events, batch, cur, hold, armed>>
      /\ pc[Main] = "enqueue" /\ pc'[Main] \in {"enqueue", "release"}
      /\ \A t \in Threads : t # Main => pc'[t] = pc[t]
  BY DEF Enqueue, Goto, TypeOK, Threads
<1>2. hold # None => obj[hold] = "live"
  BY <1>1 DEF OwnInv, HoldInv, Destructor
<1>4. FdInv' /\ UsersInv'
  BY <1>1 DEF OwnInv, FdInv, UsersInv, Open
<1>5. TimerInv'
  BY <1>1 DEF OwnInv, TimerInv, Open, Threads
<1>6. FiredInv'
  BY <1>1 DEF OwnInv, FiredInv
<1>7. DyingInv'
  BY <1>1 DEF OwnInv, DyingInv, Destructor, Threads
<1>8. \A i \in 1 .. Len(queue') : queue'[i] # None => obj[queue'[i]] = "live"
  <2>1. queue \in Seq(Conns \cup {None}) /\ hold \in Conns \cup {None}
    BY DEF TypeOK
  <2>2. \A i \in 1 .. Len(queue) : queue[i] # None => obj[queue[i]] = "live"
    BY DEF OwnInv, TaskInv, TasksAreLive
  <2>3. queue' = queue \/ queue' = Append(queue, hold)
    BY DEF Enqueue
  <2> QED BY <1>2, <2>1, <2>2, <2>3
<1>9. TaskInv'
  BY <1>1, <1>8, NamesAssumption DEF OwnInv, TaskInv, TasksAreLive, Threads
<1>10. ChannelInv'
  BY <1>1 DEF OwnInv, ChannelInv
<1>11. HoldInv'
  BY <1>1, <1>2 DEF HoldInv
<1> QED BY <1>4, <1>5, <1>6, <1>7, <1>9, <1>10, <1>11 DEF OwnInv

\* HandleClose erases the entry of its own descriptor.
LEMMA CloseStep ==
  ASSUME TypeOK, OwnInv, TypeOK', BufferInv', NEW w \in Workers, Close(w)
  PROVE  OwnInv'
<1> USE DEF threadVars, poolVars, loopVars, mainVars, connVars, mapVars, dataVars
<1>1. /\ UNCHANGED <<obj, fdOf, timer, due, dying, fired, queue, task, events, batch, cur, hold, armed>>
      /\ pc[w] = "close" /\ pc'[w] \in {"idle", "out", "err"}
      /\ \A t \in Threads : t # w => pc'[t] = pc[t]
      /\ w \in Threads /\ w # Main
  BY NamesAssumption DEF Close, Goto, TypeOK, Threads
<1>2. \A f \in Fds : users'[f] \in {None, users[f]}
  BY DEF Close, TypeOK
<1>3. FdInv'
  BY <1>1 DEF OwnInv, FdInv, Open
<1>4. TimerInv'
  BY <1>1 DEF OwnInv, TimerInv, Open
<1>5. UsersInv'
  BY <1>1, <1>2 DEF OwnInv, UsersInv
<1>6. FiredInv'
  <2>1. fired # None => fdOf[fired] \in Fds /\ users[fdOf[fired]] \in {None, fired}
    BY DEF OwnInv, FiredInv, TypeOK
  <2>2. pc'[Main] = pc[Main]
    BY <1>1 DEF Threads
  <2> QED BY <1>1, <1>2, <2>1, <2>2 DEF OwnInv, FiredInv
<1>7. DyingInv'
  BY <1>1 DEF OwnInv, DyingInv, Destructor
<1>8. TaskInv'
  BY <1>1 DEF OwnInv, TaskInv, TasksAreLive, Threads, Destructor
<1>9. ChannelInv'
  BY <1>1 DEF OwnInv, ChannelInv, Threads
<1>10. HoldInv'
  BY <1>1 DEF OwnInv, HoldInv, Threads
<1> QED BY <1>3, <1>4, <1>5, <1>6, <1>7, <1>8, <1>9, <1>10 DEF OwnInv

\* Whatever a worker or the queue holds is a live connection.
LEMMA HeldLive ==
  ASSUME TypeOK, OwnInv
  PROVE  /\ \A w \in Workers : task[w] # None => task[w] \in Conns /\ obj[task[w]] = "live"
         /\ \A i \in 1 .. Len(queue) :
              queue[i] # None => queue[i] \in Conns /\ obj[queue[i]] = "live"
<1>1. \A w \in Workers : task[w] \in Conns \cup {None}
  BY DEF TypeOK
<1>2. \A i \in 1 .. Len(queue) : queue[i] \in Conns \cup {None}
  BY DEF TypeOK
<1> QED BY <1>1, <1>2 DEF OwnInv, TaskInv, TasksAreLive

\* A new connection gets a descriptor no open connection has.
LEMMA AcceptStep ==
  ASSUME TypeOK, OwnInv, TypeOK', BufferInv', Accept
  PROVE  OwnInv'
<1> USE DEF threadVars, poolVars, loopVars, mainVars, connVars, mapVars, dataVars
<1>1. PICK c \in Conns, f \in FreeFds :
        /\ obj[c] = "backlog" /\ obj' = [obj EXCEPT ![c] = "live"]
        /\ fdOf' = [fdOf EXCEPT ![c] = f]
        /\ armed' = [armed EXCEPT ![c] = {"IN"}]
        /\ timer' = [timer EXCEPT ![f] = c]
        /\ due' = due \ {f}
        /\ users' = [users EXCEPT ![f] = c]
  BY DEF Accept, AddTimer
<1>2. /\ UNCHANGED <<pc, dying, queue, task, events, batch, cur, hold, fired>>
      /\ pc[Main] = "accept" /\ fired = None /\ hold = None
  BY DEF Accept, AcceptTurn, OwnInv, FiredInv, HoldInv, Destructor
<1>3. f \in Fds /\ f # None /\ c # None /\ \A d \in Conns : Open(d) => fdOf[d] # f
  BY NamesAssumption DEF FreeFds
<1>4. /\ obj'[c] = "live" /\ fdOf'[c] = f /\ timer'[f] = c /\ users'[f] = c
      /\ \A d \in Conns : d # c => obj'[d] = obj[d] /\ fdOf'[d] = fdOf[d] /\ armed'[d] = armed[d]
      /\ \A g \in Fds : g # f => timer'[g] = timer[g] /\ users'[g] = users[g]
  BY <1>1, <1>3 DEF TypeOK
<1>5. \A g \in Fds : timer[g] \in Conns \cup {None} /\ users[g] \in Conns \cup {None}
  BY DEF TypeOK
<1>6. FdInv'
  BY <1>1, <1>3, <1>4 DEF OwnInv, FdInv, Open
<1>7. TimerInv'
  <2>1. ASSUME NEW g \in Fds, timer'[g] # None
        PROVE  /\ obj'[timer'[g]] \in {"live", "dying"} /\ fdOf'[timer'[g]] = g
               /\ \A t \in Threads : pc[t] = "closefd" => dying[t] # timer'[g]
    <3>1. CASE g = f
      BY <3>1, <1>1, <1>4 DEF OwnInv, DyingInv, Destructor
    <3>2. CASE g # f
      BY <3>2, <2>1, <1>1, <1>4, <1>5 DEF OwnInv, TimerInv, Open
    <3> QED BY <3>1, <3>2
  <2>2. \A g \in due' : timer'[g] # None
    BY <1>1, <1>4 DEF OwnInv, TimerInv, TypeOK
  <2> QED BY <2>1, <2>2, <1>2 DEF TimerInv, Open
<1>8. UsersInv'
  <2>1. ASSUME NEW g \in Fds, users'[g] # None
        PROVE  /\ obj'[users'[g]] = "live" /\ fdOf'[users'[g]] = g
               /\ timer'[g] = users'[g] \/ fired = users'[g]
    <3>1. CASE g = f
      BY <3>1, <1>4
    <3>2. CASE g # f
      BY <3>2, <2>1, <1>1, <1>4, <1>5 DEF OwnInv, UsersInv
    <3> QED BY <3>1, <3>2
  <2> QED BY <2>1, <1>2 DEF UsersInv
<1>9. FiredInv'
  BY <1>2 DEF FiredInv
<1>10. DyingInv'
  <2>1. \A t \in Threads : dying[t] \in Conns \cup {None}
    BY DEF TypeOK
  <2> QED BY <1>1, <1>2, <1>4, <2>1 DEF OwnInv, DyingInv
<1>11. TaskInv'
  <2>1. \A w \in Workers : task[w] # None => task[w] \in Conns /\ obj[task[w]] = "live"
    BY HeldLive
  <2>2. \A i \in 1 .. Len(queue) : queue[i] # None => queue[i] \in Conns /\ obj[queue[i]] = "live"
    BY HeldLive
  <2>3. \A d \in Conns : obj[d] = "live" => obj'[d] = "live"
    BY <1>4
  <2> QED BY <1>2, <2>1, <2>2, <2>3 DEF OwnInv, TaskInv, TasksAreLive
<1>12. ChannelInv'
  <2>1. \A d \in Conns : armed'[d] # {} \/ events[d] # {} \/ d \in batch => fdOf'[d] # None
    BY <1>3, <1>4 DEF OwnInv, ChannelInv
  <2> QED BY <2>1, <1>2 DEF ChannelInv
<1>13. HoldInv'
  BY <1>2 DEF HoldInv
<1> QED BY <1>6, <1>7, <1>8, <1>9, <1>10, <1>11, <1>12, <1>13 DEF OwnInv

\* The destructor cancels the timer of its own descriptor, if it still has one.
LEMMA CancelStep ==
  ASSUME TypeOK, OwnInv, TypeOK', BufferInv', NEW t \in Threads, Cancel(t)
  PROVE  OwnInv'
<1> USE DEF threadVars, poolVars, loopVars, mainVars, connVars, mapVars, dataVars
<1> DEFINE d == dying[t]  f == fdOf[dying[t]]
<1>1. /\ UNCHANGED <<obj, fdOf, users, dying, fired, queue, task, events, batch, cur, hold, armed>>
      /\ pc[t] = "cancel" /\ pc'[t] = "closefd"
      /\ \A s \in Threads : s # t => pc'[s] = pc[s]
      /\ timer' = [timer EXCEPT ![f] = None] /\ due' = due \ {f}
  BY DEF Cancel, CancelTimer, Goto, TypeOK
<1>2. d \in Conns /\ obj[d] = "dying" /\ f \in Fds
  BY <1>1 DEF OwnInv, DyingInv, FdInv, Destructor, TypeOK
<1>3. /\ timer'[f] = None /\ \A g \in Fds : g # f => timer'[g] = timer[g]
      /\ \A g \in Fds : timer[g] \in Conns \cup {None} /\ users[g] \in Conns \cup {None}
  BY <1>1, <1>2 DEF TypeOK
<1>4. FdInv'
  BY <1>1 DEF OwnInv, FdInv, Open
<1>5. TimerInv'
  <2>1. \A g \in Fds : g # f /\ timer[g] # None => timer[g] # d
    BY DEF OwnInv, TimerInv
  <2>2. \A g \in Fds : timer'[g] # None => g # f /\ timer'[g] = timer[g] /\ timer[g] # None
    BY <1>3
  <2>3. \A g \in Fds : timer'[g] # None => Open(timer'[g]) /\ fdOf[timer'[g]] = g
    BY <2>2 DEF OwnInv, TimerInv
  <2>4. \A s \in Threads : pc'[s] = "closefd" => s = t \/ pc[s] = "closefd"
    BY <1>1
  <2>5. \A g \in due' : timer'[g] # None
    BY <1>1, <1>2, <1>3 DEF OwnInv, TimerInv, TypeOK
  <2> QED BY <1>1, <2>1, <2>2, <2>3, <2>4, <2>5 DEF OwnInv, TimerInv, Open
<1>6. users[f] = None
  BY <1>2, <1>3 DEF OwnInv, UsersInv, FdInv, Open
<1>7. UsersInv'
  BY <1>1, <1>3, <1>6 DEF OwnInv, UsersInv
<1>8. FiredInv'
  BY <1>1 DEF OwnInv, FiredInv, Threads
<1>9. DyingInv'
  BY <1>1 DEF OwnInv, DyingInv, Destructor
<1>10. TaskInv'
  BY <1>1 DEF OwnInv, TaskInv, TasksAreLive, Threads, Destructor
<1>11. ChannelInv'
  BY <1>1 DEF OwnInv, ChannelInv, Threads
<1>12. HoldInv'
  BY <1>1 DEF OwnInv, HoldInv, Threads, Destructor
<1> QED BY <1>4, <1>5, <1>7, <1>8, <1>9, <1>10, <1>11, <1>12 DEF OwnInv

\* Once its descriptor is closed nothing refers to the connection any more.
LEMMA CloseFdStep ==
  ASSUME TypeOK, OwnInv, TypeOK', BufferInv', NEW t \in Threads, CloseFd(t)
  PROVE  OwnInv'
<1> USE DEF threadVars, poolVars, loopVars, mainVars, connVars, mapVars, dataVars
<1> DEFINE d == dying[t]
<1>1. /\ UNCHANGED <<fdOf, users, timer, due, fired, queue, task, events, batch, cur, armed>>
      /\ pc[t] = "closefd" /\ pc'[t] \in IF t = Main THEN {"tick", "dispatch"} ELSE {"events"}
      /\ hold' = IF t = Main THEN None ELSE hold
      /\ \A s \in Threads : s # t => pc'[s] = pc[s] /\ dying'[s] = dying[s]
      /\ dying'[t] = None /\ obj' = [obj EXCEPT ![d] = "dead"]
  BY DEF CloseFd, Goto, TypeOK
<1>2. d \in Conns /\ obj[d] = "dying"
  BY <1>1 DEF OwnInv, DyingInv, Destructor, TypeOK
<1>3. obj'[d] = "dead" /\ \A c \in Conns : c # d => obj'[c] = obj[c]
  BY <1>1, <1>2 DEF TypeOK
<1>4. \A g \in Fds : timer[g] \in Conns \cup {None} /\ users[g] \in Conns \cup {None}
  BY DEF TypeOK
<1>5. FdInv'
  BY <1>1, <1>2, <1>3 DEF OwnInv, FdInv, Open
<1>6. TimerInv'
  <2>1. \A g \in Fds : timer[g] # d
    BY <1>1, <1>2, NamesAssumption DEF OwnInv, TimerInv
  <2>2. \A g \in Fds : timer[g] # None => obj'[timer[g]] \in {"live", "dying"} /\ fdOf[timer[g]] = g
    BY <1>3, <1>4, <2>1 DEF OwnInv, TimerInv, Open
  <2>3. \A s \in Threads : pc'[s] = "closefd" => s # t /\ pc[s] = "closefd" /\ dying'[s] = dying[s]
    BY <1>1
  <2> QED BY <1>1, <2>2, <2>3 DEF OwnInv, TimerInv, Open
<1>7. UsersInv'
  BY <1>1, <1>2, <1>3, <1>4 DEF OwnInv, UsersInv
<1>8. FiredInv'
  BY <1>1 DEF OwnInv, FiredInv, Threads
<1>9. DyingInv'
  <2>1. \A s \in Threads : dying[s] \in Conns \cup {None}
    BY DEF TypeOK
  <2>2. \A s \in Threads : s # t => dying[s] # d
    BY <1>2, NamesAssumption DEF OwnInv, DyingInv
  <2> QED BY <1>1, <1>2, <1>3, <2>1, <2>2 DEF OwnInv, DyingInv, Destructor
<1>10. TaskInv'
  <2>1. \A w \in Workers : task[w] # None => task[w] \in Conns /\ obj[task[w]] = "live"
    BY HeldLive
  <2>2. \A i \in 1 .. Len(queue) : queue[i] # None => queue[i] \in Conns /\ obj[queue[i]] = "live"
    BY HeldLive
  <2>3. \A c \in Conns : obj[c] = "live" => obj'[c] = "live"
    BY <1>2, <1>3
  <2>4. \A w \in Workers : pc'[w] \notin {"idle", "events"} \cup Destructor => task[w] # None
    BY <1>1, NamesAssumption DEF OwnInv, TaskInv, Threads
  <2> QED BY <1>1, <2>1, <2>2, <2>3, <2>4 DEF TaskInv, TasksAreLive
<1>11. ChannelInv'
  BY <1>1 DEF OwnInv, ChannelInv, Threads
<1>12. HoldInv'
  <2>1. CASE t = Main
    BY <2>1, <1>1 DEF HoldInv
  <2>2. CASE t # Main
    <3>1. hold' = hold /\ pc'[Main] = pc[Main] /\ dying'[Main] = dying[Main] /\ hold \in Conns \cup {None}
      BY <2>2, <1>1 DEF Threads, TypeOK
    <3>2. hold # None /\ obj[hold] = "live" => obj'[hold] = "live"
      BY <3>1, <1>2, <1>3
    <3> QED BY <3>1, <3>2 DEF OwnInv, HoldInv
  <2> QED BY <2>1, <2>2
<1> QED BY <1>5, <1>6, <1>7, <1>8, <1>9, <1>10, <1>11, <1>12 DEF OwnInv

\* What letting go of a reference does, in one place.
LEMMA LetGoEffect ==
  ASSUME NEW t \in Threads, NEW c, NEW u, NEW q, NEW tk, NEW h, NEW l,
         TypeOK, LetGo(t, c, u, q, tk, h, l)
  PROVE  LET freed == c # None /\ ~Referenced(c, u, q, tk, h) IN
         /\ pc'[t] = IF freed THEN "remove" ELSE l
         /\ dying'[t] = IF freed THEN c ELSE dying[t]
         /\ obj' = IF freed THEN [obj EXCEPT ![c] = "dying"] ELSE obj
         /\ \A s \in Threads : s # t => pc'[s] = pc[s] /\ dying'[s] = dying[s]
<1>1. pc \in [Threads -> MainPcs \cup WorkerPcs] /\ dying \in [Threads -> Conns \cup {None}]
  BY DEF TypeOK
<1>2. CASE c # None /\ ~Referenced(c, u, q, tk, h)
  BY <1>1, <1>2 DEF LetGo, Goto
<1>3. CASE ~(c # None /\ ~Referenced(c, u, q, tk, h))
  BY <1>1, <1>3 DEF LetGo, Goto
<1> QED BY <1>2, <1>3

\* The timer callback erases the connection that timed out: it dies at once
\* unless a task still holds it.
LEMMA CallbackStep ==
  ASSUME TypeOK, OwnInv, TypeOK', BufferInv', Callback
  PROVE  OwnInv'
<1> USE DEF threadVars, poolVars, loopVars, mainVars, connVars, mapVars, dataVars
<1> DEFINE f == fdOf[fired]  c == users[fdOf[fired]]
           freed == c # None /\ ~Referenced(c, users', queue, task, hold)
<1>m. Main \in Threads /\ \A w \in Workers : w \in Threads /\ w # Main
  BY NamesAssumption DEF Threads
<1>1. /\ UNCHANGED <<fdOf, timer, due, queue, task, events, batch, cur, hold, armed>>
      /\ pc[Main] = "callback" /\ fired' = None
      /\ pc'[Main] = IF freed THEN "remove" ELSE "tick"
      /\ \A t \in Threads : t # Main => pc'[t] = pc[t] /\ dying'[t] = dying[t]
      /\ dying'[Main] = IF freed THEN c ELSE dying[Main]
      /\ obj' = IF freed THEN [obj EXCEPT ![c] = "dying"] ELSE obj
      /\ users' = [users EXCEPT ![f] = None]
  <2>1. LetGo(Main, c, users', queue, task, hold, "tick")
    BY DEF Callback
  <2>2. /\ pc'[Main] = IF freed THEN "remove" ELSE "tick"
        /\ dying'[Main] = IF freed THEN c ELSE dying[Main]
        /\ obj' = IF freed THEN [obj EXCEPT ![c] = "dying"] ELSE obj
        /\ \A t \in Threads : t # Main => pc'[t] = pc[t] /\ dying'[t] = dying[t]
    BY <2>1, <1>m, LetGoEffect
  <2> QED BY <2>2 DEF Callback, TimeoutErase
<1>2. fired \in Conns /\ f \in Fds /\ c \in {None, fired} /\ dying[Main] = None
  <2>1. fired \in Conns /\ f \in Fds /\ c \in {None, fired}
    BY <1>1 DEF OwnInv, FiredInv, TypeOK
  <2>2. dying[Main] = None
    BY <1>1, <1>m DEF OwnInv, DyingInv, Destructor
  <2> QED BY <2>1, <2>2
<1>3. /\ users'[f] = None /\ \A g \in Fds : g # f => users'[g] = users[g]
      /\ \A g \in Fds : timer[g] \in Conns \cup {None} /\ users[g] \in Conns \cup {None}
  BY <1>1, <1>2 DEF TypeOK
<1>4. freed => c \in Conns /\ obj[c] = "live"
  BY <1>2, <1>3 DEF OwnInv, UsersInv
<1>5. /\ \A d \in Conns : obj'[d] = obj[d] \/ (freed /\ d = c /\ obj'[d] = "dying")
      /\ freed => obj'[c] = "dying"
  BY <1>1, <1>4 DEF TypeOK
<1> HIDE DEF freed
<1>6. FdInv'
  BY <1>1, <1>4, <1>5 DEF OwnInv, FdInv, Open
<1>7. TimerInv'
  <2>1. \A g \in Fds : timer[g] # None => obj'[timer[g]] \in {"live", "dying"} /\ fdOf[timer[g]] = g
    BY <1>3, <1>4, <1>5 DEF OwnInv, TimerInv, Open
  <2>2. \A t \in Threads : pc'[t] = "closefd" => t # Main /\ pc[t] = "closefd" /\ dying'[t] = dying[t]
    BY <1>1
  <2> QED BY <1>1, <2>1, <2>2 DEF OwnInv, TimerInv, Open
<1>8. UsersInv'
  <2>1. ASSUME NEW g \in Fds, users'[g] # None
        PROVE  /\ obj'[users'[g]] = "live" /\ fdOf[users'[g]] = g /\ timer[g] = users'[g]
    <3>1. g # f /\ users'[g] = users[g] /\ users[g] \in Conns
      BY <2>1, <1>3
    <3>2. obj[users[g]] = "live" /\ fdOf[users[g]] = g
      BY <3>1, <2>1 DEF OwnInv, UsersInv
    <3>3. users[g] # fired /\ users[g] # c
      BY <3>1, <3>2, <1>2, NamesAssumption
    <3> QED BY <3>1, <3>2, <3>3, <2>1, <1>5 DEF OwnInv, UsersInv
  <2> QED BY <1>1, <2>1 DEF UsersInv
<1>9. FiredInv'
  BY <1>1 DEF FiredInv
<1>10. DyingInv'
  <2>1. \A t \in Threads : dying[t] \in Conns \cup {None}
    BY DEF TypeOK
  <2>2. \A t \in Threads : freed => dying[t] # c
    BY <1>4, NamesAssumption DEF OwnInv, DyingInv
  <2>3. \A t \in Threads : pc'[t] \in Destructor <=> dying'[t] # None
    BY <1>1, <1>2, <1>4, NamesAssumption DEF OwnInv, DyingInv, Destructor
  <2>4. \A t \in Threads : dying'[t] # None => obj'[dying'[t]] = "dying"
    BY <1>1, <1>2, <1>4, <1>5, <2>1 DEF OwnInv, DyingInv
  <2>5. \A s, t \in Threads : s # t /\ dying'[s] # None => dying'[s] # dying'[t]
    BY <1>1, <1>2, <2>2 DEF OwnInv, DyingInv
  <2> QED BY <2>3, <2>4, <2>5 DEF DyingInv
<1>11. TaskInv'
  <2>1. \A w \in Workers : task[w] # None => task[w] \in Conns /\ obj'[task[w]] = "live"
    BY <1>5, HeldLive DEF freed, Referenced
  <2>2. \A i \in 1 .. Len(queue) : queue[i] # None => queue[i] \in Conns /\ obj'[queue[i]] = "live"
    BY <1>5, HeldLive DEF freed, Referenced
  <2>3. \A w \in Workers : pc'[w] = pc[w]
    BY <1>1, <1>m
  <2> QED BY <1>1, <2>1, <2>2, <2>3 DEF OwnInv, TaskInv, TasksAreLive
<1>12. ChannelInv'
  BY <1>1 DEF OwnInv, ChannelInv
<1>13. HoldInv'
  BY <1>1 DEF OwnInv, HoldInv, Destructor
<1> QED BY <1>6, <1>7, <1>8, <1>9, <1>10, <1>11, <1>12, <1>13 DEF OwnInv

\* The main thread gives up its copy: the connection dies if its task has come
\* and gone by then.
LEMMA ReleaseStep ==
  ASSUME TypeOK, OwnInv, TypeOK', BufferInv', Release
  PROVE  OwnInv'
<1> USE DEF threadVars, poolVars, loopVars, mainVars, connVars, mapVars, dataVars
<1> DEFINE freed == hold # None /\ ~Referenced(hold, users, queue, task, None)
<1>m. Main \in Threads /\ \A w \in Workers : w \in Threads /\ w # Main
  BY NamesAssumption DEF Threads
<1>1. /\ UNCHANGED <<fdOf, users, timer, due, fired, queue, task, events, batch, cur, armed>>
      /\ pc[Main] = "release" /\ hold' = dying'[Main]
      /\ pc'[Main] = IF freed THEN "remove" ELSE "dispatch"
      /\ \A t \in Threads : t # Main => pc'[t] = pc[t] /\ dying'[t] = dying[t]
      /\ dying'[Main] = IF freed THEN hold ELSE dying[Main]
      /\ obj' = IF freed THEN [obj EXCEPT ![hold] = "dying"] ELSE obj
  <2>1. LetGo(Main, hold, users, queue, task, None, "dispatch")
    BY DEF Release
  <2>2. /\ pc'[Main] = IF freed THEN "remove" ELSE "dispatch"
        /\ dying'[Main] = IF freed THEN hold ELSE dying[Main]
        /\ obj' = IF freed THEN [obj EXCEPT ![hold] = "dying"] ELSE obj
        /\ \A t \in Threads : t # Main => pc'[t] = pc[t] /\ dying'[t] = dying[t]
    BY <2>1, <1>m, LetGoEffect
  <2> QED BY <2>2 DEF Release
<1>2. dying[Main] = None
  BY <1>1, <1>m DEF OwnInv, DyingInv, Destructor
<1>3. freed => hold \in Conns /\ obj[hold] = "live"
  BY <1>1 DEF OwnInv, HoldInv, Destructor, TypeOK
<1>4. /\ \A d \in Conns : obj'[d] = obj[d] \/ (freed /\ d = hold /\ obj'[d] = "dying")
      /\ freed => obj'[hold] = "dying"
  BY <1>1, <1>3 DEF TypeOK
<1>5. \A g \in Fds : timer[g] \in Conns \cup {None} /\ users[g] \in Conns \cup {None}
  BY DEF TypeOK
<1> HIDE DEF freed
<1>7. FdInv'
  BY <1>1, <1>3, <1>4 DEF OwnInv, FdInv, Open
<1>8. TimerInv'
  <2>1. \A g \in Fds : timer[g] # None => obj'[timer[g]] \in {"live", "dying"} /\ fdOf[timer[g]] = g
    BY <1>3, <1>4, <1>5 DEF OwnInv, TimerInv, Open
  <2>2. \A t \in Threads : pc'[t] = "closefd" => t # Main /\ pc[t] = "closefd" /\ dying'[t] = dying[t]
    BY <1>1
  <2> QED BY <1>1, <2>1, <2>2 DEF OwnInv, TimerInv, Open
<1>9. UsersInv'
  <2>1. \A g \in Fds : users[g] # None => ~(freed /\ users[g] = hold)
    BY DEF freed, Referenced
  <2>2. \A g \in Fds : users[g] # None => obj'[users[g]] = "live"
    BY <2>1, <1>4, <1>5 DEF OwnInv, UsersInv
  <2> QED BY <1>1, <2>2 DEF OwnInv, UsersInv
<1>10. FiredInv'
  BY <1>1, <1>m DEF OwnInv, FiredInv
<1>11. DyingInv'
  <2>1. \A t \in Threads : dying[t] \in Conns \cup {None}
    BY DEF TypeOK
  <2>2. \A t \in Threads : freed => dying[t] # hold
    BY <1>3, NamesAssumption DEF OwnInv, DyingInv
  <2>3. \A t \in Threads : pc'[t] \in Destructor <=> dying'[t] # None
    BY <1>1, <1>2, <1>3, NamesAssumption DEF OwnInv, DyingInv, Destructor
  <2>4. \A t \in Threads : dying'[t] # None => obj'[dying'[t]] = "dying"
    BY <1>1, <1>2, <1>3, <1>4, <2>1 DEF OwnInv, DyingInv
  <2>5. \A s, t \in Threads : s # t /\ dying'[s] # None => dying'[s] # dying'[t]
    BY <1>1, <1>2, <2>2 DEF OwnInv, DyingInv
  <2> QED BY <2>3, <2>4, <2>5 DEF DyingInv
<1>12. TaskInv'
  <2>1. \A w \in Workers : task[w] # None => task[w] \in Conns /\ obj'[task[w]] = "live"
    BY <1>4, HeldLive DEF freed, Referenced
  <2>2. \A i \in 1 .. Len(queue) : queue[i] # None => queue[i] \in Conns /\ obj'[queue[i]] = "live"
    BY <1>4, HeldLive DEF freed, Referenced
  <2>3. \A w \in Workers : pc'[w] = pc[w]
    BY <1>1, <1>m
  <2> QED BY <1>1, <2>1, <2>2, <2>3 DEF OwnInv, TaskInv, TasksAreLive
<1>13. ChannelInv'
  BY <1>1 DEF OwnInv, ChannelInv
<1>14. HoldInv'
  BY <1>1, <1>2 DEF HoldInv, Destructor
<1> QED BY <1>7, <1>8, <1>9, <1>10, <1>11, <1>12, <1>13, <1>14 DEF OwnInv

\* A worker gives up its last task for the next one: the connection of the
\* old task dies if that was the last reference.
LEMMA DequeueStep ==
  ASSUME TypeOK, OwnInv, TypeOK', BufferInv', NEW w \in Workers, Dequeue(w)
  PROVE  OwnInv'
<1> USE DEF threadVars, poolVars, loopVars, mainVars, connVars, mapVars, dataVars
<1> DEFINE c == task[w]
           freed == c # None /\ ~Referenced(c, users, queue', task', hold)
<1>m. Main \in Threads /\ w \in Threads /\ w # Main
  BY NamesAssumption DEF Threads
<1>1. /\ UNCHANGED <<fdOf, users, timer, due, fired, events, batch, cur, hold, armed>>
      /\ pc[w] = "idle" /\ pc'[w] = IF freed THEN "remove" ELSE "events"
      /\ \A t \in Threads : t # w => pc'[t] = pc[t] /\ dying'[t] = dying[t]
      /\ dying'[w] = IF freed THEN c ELSE dying[w]
      /\ obj' = IF freed THEN [obj EXCEPT ![c] = "dying"] ELSE obj
      /\ queue # <<>> /\ queue' = Tail(queue) /\ task' = [task EXCEPT ![w] = Head(queue)]
  <2>1. LetGo(w, c, users, queue', task', hold, "events")
    BY DEF Dequeue
  <2>2. /\ pc'[w] = IF freed THEN "remove" ELSE "events"
        /\ dying'[w] = IF freed THEN c ELSE dying[w]
        /\ obj' = IF freed THEN [obj EXCEPT ![c] = "dying"] ELSE obj
        /\ \A t \in Threads : t # w => pc'[t] = pc[t] /\ dying'[t] = dying[t]
    BY <2>1, <1>m, LetGoEffect
  <2> QED BY <2>2 DEF Dequeue
<1>2. dying[w] = None
  BY <1>1, <1>m DEF OwnInv, DyingInv, Destructor
<1>3. freed => c \in Conns /\ obj[c] = "live"
  BY HeldLive
<1>4. /\ \A d \in Conns : obj'[d] = obj[d] \/ (freed /\ d = c /\ obj'[d] = "dying")
      /\ freed => obj'[c] = "dying"
  BY <1>1, <1>3 DEF TypeOK
<1>5. \A g \in Fds : timer[g] \in Conns \cup {None} /\ users[g] \in Conns \cup {None}
  BY DEF TypeOK
<1>6. /\ \A v \in Workers : task'[v] # None => task'[v] \in Conns /\ obj[task'[v]] = "live"
      /\ \A i \in 1 .. Len(queue') :
           queue'[i] # None => queue'[i] \in Conns /\ obj[queue'[i]] = "live"
  <2>1. queue \in Seq(Conns \cup {None}) /\ task \in [Workers -> Conns \cup {None}]
    BY DEF TypeOK
  <2>2. Head(queue) = queue[1] /\ 1 \in 1 .. Len(queue)
    BY <1>1, <2>1
  <2>3. \A i \in 1 .. Len(queue') : queue'[i] = queue[i + 1] /\ i + 1 \in 1 .. Len(queue)
    BY <1>1, <2>1
  <2>4. \A v \in Workers : task'[v] = IF v = w THEN queue[1] ELSE task[v]
    BY <1>1, <2>1, <2>2
  <2>5. ASSUME NEW i \in 1 .. Len(queue), queue[i] # None
        PROVE  queue[i] \in Conns /\ obj[queue[i]] = "live"
    BY <2>5, HeldLive
  <2>6. ASSUME NEW v \in Workers, task[v] # None
        PROVE  task[v] \in Conns /\ obj[task[v]] = "live"
    BY <2>6, HeldLive
  <2>7. \A v \in Workers : task'[v] # None => task'[v] \in Conns /\ obj[task'[v]] = "live"
    BY <2>2, <2>4, <2>5, <2>6
  <2>8. \A i \in 1 .. Len(queue') :
          queue'[i] # None => queue'[i] \in Conns /\ obj[queue'[i]] = "live"
    BY <2>3, <2>5
  <2> QED BY <2>7, <2>8
<1> HIDE DEF freed, c
<1>7. FdInv'
  BY <1>1, <1>3, <1>4 DEF OwnInv, FdInv, Open
<1>8. TimerInv'
  <2>1. \A g \in Fds : timer[g] # None => obj'[timer[g]] \in {"live", "dying"} /\ fdOf[timer[g]] = g
    BY <1>3, <1>4, <1>5 DEF OwnInv, TimerInv, Open
  <2>2. \A t \in Threads : pc'[t] = "closefd" => t # w /\ pc[t] = "closefd" /\ dying'[t] = dying[t]
    BY <1>1
  <2> QED BY <1>1, <2>1, <2>2 DEF OwnInv, TimerInv, Open
<1>9. UsersInv'
  <2>1. \A g \in Fds : users[g] # None => ~(freed /\ users[g] = c)
    BY DEF freed, Referenced
  <2>2. \A g \in Fds : users[g] # None => obj'[users[g]] = "live"
    BY <2>1, <1>4, <1>5 DEF OwnInv, UsersInv
  <2> QED BY <1>1, <2>2 DEF OwnInv, UsersInv
<1>10. FiredInv'
  BY <1>1, <1>m DEF OwnInv, FiredInv
<1>11. DyingInv'
  <2>1. \A t \in Threads : dying[t] \in Conns \cup {None}
    BY DEF TypeOK
  <2>2. \A t \in Threads : freed => dying[t] # c
    BY <1>3, NamesAssumption DEF OwnInv, DyingInv
  <2>3. \A t \in Threads : pc'[t] \in Destructor <=> dying'[t] # None
    BY <1>1, <1>2, <1>3, NamesAssumption DEF OwnInv, DyingInv, Destructor
  <2>4. \A t \in Threads : dying'[t] # None => obj'[dying'[t]] = "dying"
    BY <1>1, <1>2, <1>3, <1>4, <2>1 DEF OwnInv, DyingInv
  <2>5. \A s, t \in Threads : s # t /\ dying'[s] # None => dying'[s] # dying'[t]
    BY <1>1, <1>2, <2>2 DEF OwnInv, DyingInv
  <2> QED BY <2>3, <2>4, <2>5 DEF DyingInv
<1>12. TaskInv'
  <2>1. \A v \in Workers : task'[v] # None => obj'[task'[v]] = "live"
    BY <1>4, <1>6 DEF freed, Referenced
  <2>2. \A i \in 1 .. Len(queue') : queue'[i] # None => obj'[queue'[i]] = "live"
    BY <1>4, <1>6 DEF freed, Referenced
  <2>3. \A v \in Workers : v # w => pc'[v] = pc[v] /\ task'[v] = task[v]
    BY <1>1 DEF Threads, TypeOK
  <2>4. pc'[w] \in {"events"} \cup Destructor
    BY <1>1 DEF Destructor
  <2> QED BY <2>1, <2>2, <2>3, <2>4 DEF OwnInv, TaskInv, TasksAreLive
<1>13. ChannelInv'
  BY <1>1, <1>m DEF OwnInv, ChannelInv
<1>14. HoldInv'
  <2>1. hold \in Conns \cup {None} /\ ~(freed /\ hold = c)
    BY DEF freed, Referenced, TypeOK
  <2>2. hold # None /\ obj[hold] = "live" => obj'[hold] = "live"
    BY <2>1, <1>4
  <2>3. hold' = hold /\ pc'[Main] = pc[Main] /\ dying'[Main] = dying[Main]
    BY <1>1, <1>m
  <2> QED BY <2>2, <2>3 DEF OwnInv, HoldInv
<1> QED BY <1>7, <1>8, <1>9, <1>10, <1>11, <1>12, <1>13, <1>14 DEF OwnInv

(***************************************************************************)
(* The theorems.                                                           *)
(***************************************************************************)

\* The invariant is inductive.
LEMMA OwnStep == TypeOK /\ OwnInv /\ [Next]_vars => OwnInv'
<1> SUFFICES ASSUME TypeOK, OwnInv, [Next]_vars PROVE OwnInv'
  OBVIOUS
<1>t. TypeOK' /\ BufferInv'
  BY TypeStep, BufferStep
<1>1. ASSUME MainStep PROVE OwnInv'
  <2>1. CASE \E t \in Threads : Destroy(t)
    BY <2>1, <1>t, RemoveStep, CancelStep, CloseFdStep DEF Destroy
  <2>2. CASE Tick \/ Callback \/ Lookup \/ Enqueue \/ Release \/ Accept
    BY <2>2, <1>t, TickStep, CallbackStep, LookupStep, EnqueueStep, ReleaseStep, AcceptStep
  <2>3. CASE \/ NextTick \/ Poll \/ PollTimeout \/ PollDone \/ (\E c \in Conns : SetRevents(c))
            \/ Dispatch \/ BatchDone \/ AcceptStop
    BY <2>3, <1>t, LoopStep
  <2> QED BY <1>1, <2>1, <2>2, <2>3 DEF MainStep, Threads
<1>2. ASSUME NEW w \in Workers, WorkerStep(w) PROVE OwnInv'
  <2>1. CASE Destroy(w)
    BY <2>1, <1>t, RemoveStep, CancelStep, CloseFdStep DEF Destroy, Threads
  <2>2. CASE Dequeue(w) \/ Close(w)
    BY <2>2, <1>t, DequeueStep, CloseStep
  <2>3. CASE ~Destroy(w) /\ ~Dequeue(w) /\ ~Close(w)
    BY <2>3, <1>2, <1>t, HandlerStep DEF WorkerStep
  <2> QED BY <2>1, <2>2, <2>3
<1>3. ASSUME Environment PROVE OwnInv'
  BY <1>3, <1>t, ClientStep
<1>4. CASE UNCHANGED vars
  BY <1>4 DEF vars, OwnInv, FdInv, TimerInv, UsersInv, FiredInv, DyingInv, TaskInv,
     TasksAreLive, HoldInv, ChannelInv, BufferInv, Open, Total
<1> QED BY <1>1, <1>2, <1>3, <1>4 DEF Next

\* It holds before the first connection.
LEMMA InitInv == Init => TypeOK /\ OwnInv
<1> SUFFICES ASSUME Init PROVE TypeOK /\ OwnInv
  OBVIOUS
<1> USE DEF Init, NoEvents
<1>1. TypeOK
  <2>1. /\ pc \in [Threads -> MainPcs \cup WorkerPcs]
        /\ pc[Main] \in MainPcs /\ \A w \in Workers : pc[w] \in WorkerPcs
    BY NamesAssumption DEF Threads, MainPcs, WorkerPcs
  <2>2. /\ io \in [Workers -> [from : Nat, n : Nat]]
        /\ ret \in [Workers -> {"idle", "out", "err"}]
        /\ queue \in Seq(Conns \cup {None})
        /\ task \in [Workers -> Conns \cup {None}]
        /\ dying \in [Threads -> Conns \cup {None}]
    OBVIOUS
  <2>3. wire \in [Conns -> Seq(Nat)]
    OBVIOUS
  <2>4. /\ armed \in [Conns -> SUBSET Events] /\ revents \in [Conns -> SUBSET Events]
        /\ events \in [Conns -> SUBSET Events] /\ wants \in [Conns -> SUBSET Events]
        /\ users \in [Fds -> Conns \cup {None}] /\ timer \in [Fds -> Conns \cup {None}]
        /\ fdOf \in [Conns -> Fds \cup {None}]
    BY DEF Events
  <2> QED BY <2>1, <2>2, <2>3, <2>4 DEF TypeOK
<1>2. FdInv /\ TimerInv /\ UsersInv /\ FiredInv
  BY NamesAssumption DEF FdInv, TimerInv, UsersInv, FiredInv, Threads, Open
<1>3. DyingInv /\ TaskInv /\ HoldInv /\ ChannelInv
  BY NamesAssumption DEF DyingInv, TaskInv, TasksAreLive, HoldInv, ChannelInv, Threads, Destructor
<1>4. BufferInv
  BY SizesAssumption DEF BufferInv, Total
<1> QED BY <1>1, <1>2, <1>3, <1>4 DEF OwnInv

\* Types, and who owns what, in every state.
LEMMA Invariance == Spec => [](TypeOK /\ OwnInv)
BY InitInv, TypeStep, OwnStep, PTL DEF Spec

\* Every variable keeps its type.
THEOREM TypeCorrect == Spec => []TypeOK
BY Invariance, PTL

\* A timer never outlives its connection's descriptor: no connection is timed
\* out for an earlier one that had the same number.
THEOREM TimersMatch == Spec => []TimerMatchesConnection
<1>1. OwnInv => TimerMatchesConnection
  BY DEF OwnInv, TimerInv, TimerMatchesConnection
<1> QED BY <1>1, Invariance, PTL

\* What users_ owns has a timer, or that timer has fired.
THEOREM NoImmortals == Spec => []NoImmortalEntry
<1>1. OwnInv => NoImmortalEntry
  BY DEF OwnInv, UsersInv, NoImmortalEntry
<1> QED BY <1>1, Invariance, PTL

\* The timeout callback, which knows only a number, erases the connection
\* that timed out or nothing.
THEOREM TimeoutsHitOwn == Spec => []FiredTimerHitsOwn
<1>1. OwnInv => FiredTimerHitsOwn
  BY DEF OwnInv, FiredInv, FiredTimerHitsOwn
<1> QED BY <1>1, Invariance, PTL

\* No queued or running task refers to a connection being destroyed.
THEOREM TasksLive == Spec => []TasksAreLive
<1>1. OwnInv => TasksAreLive
  BY DEF OwnInv, TaskInv
<1> QED BY <1>1, Invariance, PTL

\* An entry of users_ is erased only by the timeout or by the handler of the
\* connection it holds.
THEOREM OnlyOwnErased == Spec => OnlyOwnErase
<1> DEFINE Erased == \A f \in Fds : users[f] # None /\ users'[f] # users[f] =>
                       \/ fired = users[f]
                       \/ \E w \in Workers : pc[w] = "close" /\ task[w] = users[f]
<1>1. TypeOK /\ OwnInv /\ [Next]_vars => Erased
  <2> SUFFICES ASSUME TypeOK, OwnInv, [Next]_vars, NEW f \in Fds, users[f] # None,
                      users'[f] # users[f]
               PROVE  \/ fired = users[f]
                      \/ \E w \in Workers : pc[w] = "close" /\ task[w] = users[f]
    OBVIOUS
  <2> USE DEF threadVars, poolVars, loopVars, mainVars, connVars, mapVars, dataVars
  <2>1. CASE Callback
    <3>1. users' = [users EXCEPT ![fdOf[fired]] = None] /\ fired # None
      BY <2>1 DEF Callback, TimeoutErase, OwnInv, FiredInv
    <3>2. f = fdOf[fired]
      BY <3>1 DEF TypeOK
    <3> QED BY <3>1, <3>2 DEF OwnInv, FiredInv
  <2>2. CASE Accept
    <3>1. PICK c \in Conns, g \in FreeFds : users' = [users EXCEPT ![g] = c]
      BY <2>2 DEF Accept
    <3>2. f = g
      BY <3>1 DEF TypeOK
    <3>3. users[f] \in Conns /\ obj[users[f]] = "live" /\ fdOf[users[f]] = f
      BY DEF OwnInv, UsersInv, TypeOK
    <3> QED BY <3>2, <3>3 DEF FreeFds, Open
  <2>3. ASSUME NEW w \in Workers, Close(w)
        PROVE  pc[w] = "close" /\ task[w] = users[f]
    <3>1. pc[w] = "close" /\ users' = [users EXCEPT ![fdOf[task[w]]] = None]
      BY <2>3 DEF Close
    <3>2. f = fdOf[task[w]]
      BY <3>1 DEF TypeOK
    <3>3. task[w] \in Conns /\ obj[task[w]] = "live"
      BY <3>1, HeldLive DEF OwnInv, TaskInv, Destructor
    <3>4. users[f] \in Conns /\ obj[users[f]] = "live" /\ fdOf[users[f]] = f
      BY DEF OwnInv, UsersInv, TypeOK
    <3> QED BY <3>1, <3>2, <3>3, <3>4 DEF OwnInv, FdInv, Open
  <2>4. ASSUME NEW t \in Threads, Destroy(t) PROVE FALSE
    BY <2>4 DEF Destroy, RemoveChannel, Cancel, CloseFd
  <2>5. ASSUME MainStep, ~Callback, ~Accept PROVE FALSE
    BY <2>4, <2>5 DEF MainStep, Tick, NextTick, Poll, PollTimeout, SetRevents, PollDone,
       Dispatch, BatchDone, Lookup, Enqueue, Release, AcceptStop, Threads
  <2>6. ASSUME NEW w \in Workers, WorkerStep(w), ~Close(w) PROVE FALSE
    BY <2>4, <2>6 DEF WorkerStep, Dequeue, HandleEvents, Adjust, Read, Parse, View, Write,
       Retrieve, Left, Modify, CheckOut, CheckErr, Threads
  <2>7. ASSUME Environment PROVE FALSE
    BY <2>7 DEF Environment, Connect, Send, Drain, Hangup, Expire
  <2>8. CASE UNCHANGED vars
    BY <2>8 DEF vars
  <2> QED BY <2>1, <2>2, <2>3, <2>5, <2>6, <2>7, <2>8 DEF Next
<1> QED BY <1>1, Invariance, PTL DEF Spec, OnlyOwnErase

(***************************************************************************)
(* The bytes of the answers, while no two workers share a connection.      *)
(***************************************************************************)

\* A step of w moves no other thread.
LEMMA OthersStay ==
  ASSUME TypeOK, NEW w \in Workers, NEW l, pc' = pc \/ Goto(w, l)
  PROVE  /\ \A t \in Threads : t # w => pc'[t] = pc[t]
         /\ pc'[w] = pc[w] \/ pc'[w] = l
         /\ w # Main /\ w \in Threads /\ Main \in Threads
<1>1. w # Main /\ w \in Threads /\ Main \in Threads
  BY NamesAssumption DEF Threads
<1> QED BY <1>1 DEF Goto, TypeOK

\* A worker past its lookup is busy with a connection, and under Serial no
\* other is.
LEMMA InHand ==
  ASSUME TypeOK, OwnInv, NEW w \in Workers,
         pc[w] \notin {"idle", "events"} \cup Destructor
  PROVE  /\ task[w] \in Conns /\ Busy(w, task[w])
         /\ Serial => \A v \in Workers : v # w /\ task[v] = task[w] => pc[v] = "idle"
<1>1. task[w] \in Conns /\ Busy(w, task[w])
  BY HeldLive DEF OwnInv, TaskInv, Busy
<1> QED BY <1>1 DEF Serial, Busy

\* What is left in the write buffer is a number of units.
LEMMA UnsentType ==
  ASSUME TypeOK, OwnInv, NEW c \in Conns
  PROVE  Unsent(c) \in Nat /\ Total(c) \in Nat /\ gone[c] \in Nat /\ gone[c] + Unsent(c) = Total(c)
<1>1. Total(c) \in Nat /\ gone[c] \in Nat /\ gone[c] <= Total(c)
  BY TotalType DEF OwnInv, BufferInv, TypeOK
<1> QED BY <1>1 DEF Unsent

\* A step that leaves the buffers, the wires and the views alone, and brings
\* no worker to a write.
LEMMA WireFrame ==
  ASSUME WireInv, UNCHANGED <<made, gone, wire, io>>,
         \A w \in Workers : pc'[w] \in {"write", "retrieve"} =>
           pc'[w] = pc[w] /\ task'[w] = task[w],
         \A w \in Workers : pc[w] = "retrieve" => pc'[w] = pc[w] /\ task'[w] = task[w]
  PROVE  WireInv'
<1> SUFFICES ASSUME NEW c \in Conns PROVE WireOf(c)'
  BY DEF WireInv
<1>1. WireOf(c)
  BY DEF WireInv
<1>2. Unsent(c)' = Unsent(c)
  BY DEF Unsent, Total
<1>3. ASSUME NEW w \in Workers, task'[w] = c
      PROVE  /\ pc'[w] = "write" => io'[w] = [from |-> gone'[c], n |-> Unsent(c)']
             /\ pc'[w] = "retrieve" =>
                  io'[w].n <= Unsent(c)' /\ Len(wire'[c]) = gone'[c] + io'[w].n
  BY <1>1, <1>2, <1>3 DEF WireOf
<1>4. (\A w \in Workers : task'[w] = c => pc'[w] # "retrieve") => Len(wire'[c]) = gone'[c]
  BY <1>1 DEF WireOf
<1> QED BY <1>1, <1>3, <1>4 DEF WireOf

\* An appended answer changes what is left of one connection, which no other
\* worker is writing.

LEMMA WireParse ==
  ASSUME TypeOK, OwnInv, Serial, WireInv, NEW w \in Workers, Parse(w)
  PROVE  WireInv'
<1>1. PICK c \in Conns : c = task[w] /\ pc[w] = "parse"
  BY InHand DEF Parse, Answer, Destructor
<1>2. /\ UNCHANGED <<task, gone, wire, io>>
      /\ made' = made \/ made' = [made EXCEPT ![c] = @ + 1]
      /\ Goto(w, "view") \/ Goto(w, "out") \/ Goto(w, "spin")
  BY <1>1 DEF Parse, Answer, poolVars
<1>3. \A v \in Workers : v # w => pc'[v] = pc[v]
  BY <1>2, OthersStay DEF Threads
<1>4. pc'[w] \in {"view", "out", "spin"}
  BY <1>2, OthersStay DEF Goto, TypeOK
<1>5. \A v \in Workers : v # w /\ task[v] = c => pc[v] = "idle"
  BY <1>1, InHand DEF Destructor
<1> SUFFICES ASSUME NEW d \in Conns PROVE WireOf(d)'
  BY DEF WireInv
<1>6. WireOf(d)
  BY DEF WireInv
<1>7. CASE d = c
  BY <1>1, <1>2, <1>3, <1>4, <1>5, <1>6, <1>7 DEF WireOf
<1>8. CASE d # c
  <2>1. Unsent(d)' = Unsent(d)
    BY <1>2, <1>8 DEF Unsent, Total, TypeOK
  <2> QED BY <1>1, <1>2, <1>3, <1>4, <1>6, <1>8, <2>1 DEF WireOf
<1> QED BY <1>7, <1>8

\* HandleWrite looks at all that is left, from the first unit left.
LEMMA WireView ==
  ASSUME TypeOK, OwnInv, Serial, WireInv, NEW w \in Workers, View(w)
  PROVE  WireInv'
<1>1. PICK c \in Conns : c = task[w] /\ pc[w] = "view"
  BY InHand DEF View, Destructor
<1>2. UNCHANGED <<task, made, gone, wire>>
  BY DEF View, poolVars, dataVars
<1>3. \/ Goto(w, ret[w]) /\ io' = io
      \/ Goto(w, "write") /\ io' = [io EXCEPT ![w] = [from |-> gone[c], n |-> Unsent(c)]]
  BY <1>1 DEF View
<1>4. \A v \in Workers : v # w => pc'[v] = pc[v] /\ io'[v] = io[v]
  <2>1. \A v \in Workers : v # w => pc'[v] = pc[v]
    BY <1>3, OthersStay DEF Threads
  <2>2. io \in [Workers -> [from : Nat, n : Nat]]
    BY DEF TypeOK
  <2>3. \A v \in Workers : v # w => io'[v] = io[v]
    BY <1>3, <2>2
  <2> QED BY <2>1, <2>3
<1>5. /\ pc'[w] = "write" => io'[w] = [from |-> gone[c], n |-> Unsent(c)]
      /\ pc'[w] # "retrieve"
  <2>1. ret[w] \in {"idle", "out", "err"} /\ w \in Threads
    BY DEF TypeOK, Threads
  <2>2. CASE Goto(w, ret[w])
    BY <2>1, <2>2 DEF Goto, TypeOK
  <2>3. CASE Goto(w, "write") /\ io' = [io EXCEPT ![w] = [from |-> gone[c], n |-> Unsent(c)]]
    <3>1. pc'[w] = "write"
      BY <2>1, <2>3 DEF Goto, TypeOK
    <3>2. io'[w] = [from |-> gone[c], n |-> Unsent(c)]
      BY <2>3 DEF TypeOK
    <3> QED BY <3>1, <3>2
  <2> QED BY <1>3, <2>2, <2>3
<1> SUFFICES ASSUME NEW d \in Conns PROVE WireOf(d)'
  BY DEF WireInv
<1>6. WireOf(d) /\ Unsent(d)' = Unsent(d)
  BY <1>2 DEF WireInv, Unsent, Total
<1>7. ASSUME NEW v \in Workers, task'[v] = d
      PROVE  /\ pc'[v] = "write" => io'[v] = [from |-> gone'[d], n |-> Unsent(d)']
             /\ pc'[v] = "retrieve" =>
                  io'[v].n <= Unsent(d)' /\ Len(wire'[d]) = gone'[d] + io'[v].n
  <2>1. CASE v = w
    BY <1>1, <1>2, <1>5, <1>6, <1>7, <2>1
  <2>2. CASE v # w
    BY <1>2, <1>4, <1>6, <1>7, <2>2 DEF WireOf
  <2> QED BY <2>1, <2>2
<1>8. (\A v \in Workers : task'[v] = d => pc'[v] # "retrieve") => Len(wire'[d]) = gone'[d]
  BY <1>1, <1>2, <1>4, <1>6 DEF WireOf
<1> QED BY <1>2, <1>6, <1>7, <1>8 DEF WireOf

\* Units behind a wire that ends with unit k go on counting.
LEMMA UnitsGoOn ==
  ASSUME NEW s \in Seq(Nat), NEW n \in Nat, \A i \in 1 .. Len(s) : s[i] = i
  PROVE  LET z == s \o Units(Len(s), n) IN
         /\ Len(z) = Len(s) + n
         /\ \A i \in 1 .. Len(z) : z[i] = i
<1> DEFINE u == Units(Len(s), n)
           z == s \o u
<1>0. u \in Seq(Nat) /\ Len(u) = n
  BY DEF Units
<1>1. Len(s) \in Nat /\ u \in Seq(Nat) /\ Len(u) = n /\ \A i \in 1 .. n : u[i] = Len(s) + i
  BY <1>0 DEF Units
<1> HIDE DEF u
<1>2. Len(z) = Len(s) + n
  BY <1>0
<1>3. ASSUME NEW i \in 1 .. Len(z) PROVE z[i] = i
  <2>1. CASE i <= Len(s)
    <3>1. i \in 1 .. Len(s)
      BY <1>1, <1>2, <2>1
    <3>2. z[i] = s[i]
      BY <1>1, <3>1
    <3> QED BY <3>1, <3>2
  <2>2. CASE ~(i <= Len(s))
    <3>1. i - Len(s) \in 1 .. n
      BY <1>1, <1>2, <2>2
    <3>2. z[i] = u[i - Len(s)]
      BY <1>1, <1>2, <2>2
    <3> QED BY <3>1, <3>2, <1>1
  <2> QED BY <2>1, <2>2
<1> HIDE DEF z
<1>4. Len(z) = Len(s) + n /\ \A i \in 1 .. Len(z) : z[i] = i
  BY <1>2, <1>3
<1> QED BY <1>4 DEF z, u

\* write(2) takes units from the front of what is left, onto the wire of a
\* connection no other worker writes to.
LEMMA WireWrite ==
  ASSUME TypeOK, OwnInv, Serial, WireInv, NEW w \in Workers, Write(w)
  PROVE  WireInv'
<1>1. PICK c \in Conns : c = task[w] /\ pc[w] = "write"
  BY InHand DEF Write, Destructor
<1>2. UNCHANGED <<task, made, gone>>
  BY DEF Write, poolVars
<1>w. w \in Threads /\ pc \in [Threads -> MainPcs \cup WorkerPcs]
      /\ ret[w] \in {"idle", "out", "err"}
  BY DEF TypeOK, Threads
<1>3. PICK n : n = Least(io[w].n, Room(c))
  OBVIOUS
<1>4. CASE /\ UNCHANGED <<io, wire>>
           /\ pc' = pc \/ Goto(w, "close") \/ Goto(w, ret[w])
  <2>1. \A v \in Workers : v # w => pc'[v] = pc[v]
    BY <1>4, <1>w DEF Goto, Threads
  <2>2. pc'[w] = pc[w] \/ pc'[w] \in {"close", "idle", "out", "err"}
    BY <1>4, <1>w DEF Goto
  <2> QED BY <1>1, <1>2, <1>4, <2>1, <2>2, WireFrame
<1>5. CASE /\ Room(c) > 0
           /\ wire' = [wire EXCEPT ![c] = @ \o Units(io[w].from, n)]
           /\ io' = [io EXCEPT ![w].n = n]
           /\ Goto(w, "retrieve")
  <2>1. WireOf(c) /\ io[w] = [from |-> gone[c], n |-> Unsent(c)]
    BY <1>1 DEF WireInv, WireOf
  <2>2. Room(c) \in Int
    BY SizesAssumption DEF Room, TypeOK
  <2>3. n \in Nat /\ n <= Unsent(c)
    BY <1>3, <1>5, <2>1, <2>2, UnsentType DEF Least
  <2>4. \A v \in Workers : v # w /\ task[v] = c => pc[v] = "idle"
    BY <1>1, InHand DEF Destructor
  <2>5. Len(wire[c]) = gone[c]
    BY <1>1, <2>1, <2>4 DEF WireOf
  <2>6. wire[c] \in Seq(Nat) /\ wire \in [Conns -> Seq(Nat)]
    BY DEF TypeOK
  <2>7. wire'[c] = wire[c] \o Units(Len(wire[c]), n)
    BY <1>5, <2>1, <2>5, <2>6
  <2>8. Len(wire'[c]) = gone[c] + n /\ \A i \in 1 .. Len(wire'[c]) : wire'[c][i] = i
    <3>1. \A i \in 1 .. Len(wire[c]) : wire[c][i] = i
      BY <2>1 DEF WireOf
    <3> QED BY <3>1, <2>3, <2>5, <2>6, <2>7, UnitsGoOn
  <2>9. \A d \in Conns : d # c => wire'[d] = wire[d]
    BY <1>5, <2>6
  <2>10. \A v \in Workers : v # w => pc'[v] = pc[v]
    BY <1>5, <1>w DEF Goto
  <2>11. pc'[w] = "retrieve"
    BY <1>5, <1>w DEF Goto
  <2>12. io'[w].n = n /\ \A v \in Workers : v # w => io'[v] = io[v]
    <3>1. io \in [Workers -> [from : Nat, n : Nat]]
      BY DEF TypeOK
    <3> QED BY <1>5, <3>1
  <2> SUFFICES ASSUME NEW d \in Conns PROVE WireOf(d)'
    BY DEF WireInv
  <2>13. WireOf(d) /\ Unsent(d)' = Unsent(d)
    BY <1>2 DEF WireInv, Unsent, Total
  <2>14. CASE d = c
    BY <1>1, <1>2, <2>3, <2>4, <2>8, <2>10, <2>11, <2>12, <2>13, <2>14 DEF WireOf
  <2>15. CASE d # c
    BY <1>1, <1>2, <2>9, <2>10, <2>12, <2>13, <2>15 DEF WireOf
  <2> QED BY <2>14, <2>15
<1> QED BY <1>1, <1>3, <1>4, <1>5 DEF Write, Crash

\* Retrieve takes what was written: what it asserts holds, and wire and
\* buffer agree again.
LEMMA WireRetrieve ==
  ASSUME TypeOK, OwnInv, Serial, WireInv, NEW w \in Workers, Retrieve(w)
  PROVE  WireInv' /\ UNCHANGED fault
<1>1. PICK c \in Conns : c = task[w] /\ pc[w] = "retrieve"
  BY InHand DEF Retrieve, Destructor
<1>w. w \in Threads /\ pc \in [Threads -> MainPcs \cup WorkerPcs]
      /\ ret[w] \in {"idle", "out", "err"} /\ io[w].n \in Nat
  BY DEF TypeOK, Threads
<1>2. WireOf(c) /\ io[w].n <= Unsent(c) /\ Len(wire[c]) = gone[c] + io[w].n
  BY <1>1 DEF WireInv, WireOf
<1>3. ~(io[w].n > Unsent(c))
  BY <1>2, <1>w, UnsentType
<1>4. /\ gone' = [gone EXCEPT ![c] = @ + io[w].n]
      /\ Goto(w, "left") /\ UNCHANGED <<fault, task, made, io, wire>>
  BY <1>1, <1>3, <1>w DEF Retrieve, Retrieved, poolVars
<1>5. pc'[w] = "left" /\ \A v \in Workers : v # w => pc'[v] = pc[v]
  BY <1>4, <1>w DEF Goto
<1>6. gone'[c] = gone[c] + io[w].n /\ \A d \in Conns : d # c => gone'[d] = gone[d]
  <2>1. gone \in [Conns -> Nat]
    BY DEF TypeOK
  <2> QED BY <1>4, <2>1
<1>7. \A v \in Workers : v # w /\ task[v] = c => pc[v] = "idle"
  BY <1>1, InHand DEF Destructor
<1>8. ASSUME NEW d \in Conns PROVE WireOf(d)'
  <2>1. WireOf(d)
    BY DEF WireInv
  <2>2. CASE d = c
    BY <1>1, <1>2, <1>4, <1>5, <1>6, <1>7, <2>2 DEF WireOf
  <2>3. CASE d # c
    <3>1. Unsent(d)' = Unsent(d)
      BY <1>4, <1>6, <2>3 DEF Unsent, Total
    <3> QED BY <1>1, <1>4, <1>5, <1>6, <2>1, <2>3, <3>1 DEF WireOf
  <2> QED BY <2>2, <2>3
<1> QED BY <1>4, <1>8 DEF WireInv

\* The steps of the handlers that touch no buffer.
LEMMA WireQuiet ==
  ASSUME TypeOK, WireInv, NEW w \in Workers,
         \/ HandleEvents(w) \/ Adjust(w) \/ Read(w) \/ Left(w) \/ Modify(w)
         \/ Close(w) \/ CheckOut(w) \/ CheckErr(w)
  PROVE  WireInv'
<1>w. w \in Threads /\ pc \in [Threads -> MainPcs \cup WorkerPcs]
      /\ ret[w] \in {"idle", "out", "err"}
  BY DEF TypeOK, Threads
<1>1. PICK l \in {"idle", "adjust", "read", "parse", "view", "more", "done", "close", "out", "err"} :
        Goto(w, l)
  BY <1>w DEF HandleEvents, Adjust, Read, Left, Modify, AfterWrite, Close, CheckOut, CheckErr
<1>2. pc[w] # "retrieve" /\ UNCHANGED <<task, made, gone, wire, io>>
  BY DEF HandleEvents, Adjust, Read, Left, Modify, Close, CheckOut, CheckErr, poolVars, dataVars
<1>3. pc'[w] = l /\ \A v \in Workers : v # w => pc'[v] = pc[v]
  BY <1>1, <1>w DEF Goto
<1> QED BY <1>2, <1>3, WireFrame

\* So are the steps of all but the handlers.
LEMMA WireElse ==
  ASSUME TypeOK, WireInv,
         \/ MainStep \/ Environment \/ \E w \in Workers : Dequeue(w) \/ Destroy(w)
         \/ UNCHANGED vars
  PROVE  WireInv'
<1> USE DEF threadVars, poolVars, loopVars, mainVars, connVars, mapVars, dataVars
<1>p. pc \in [Threads -> MainPcs \cup WorkerPcs] /\ Main \in Threads
      /\ \A w \in Workers : w \in Threads /\ w # Main
  BY NamesAssumption DEF TypeOK, Threads
<1>0. UNCHANGED <<made, gone, io>>
  BY DEF MainStep, Environment, Destroy, Tick, Callback, NextTick, Poll, PollTimeout,
     SetRevents, PollDone, Dispatch, BatchDone, Lookup, Enqueue, Release, Accept, AcceptStop,
     RemoveChannel, Cancel, CloseFd, Dequeue, Connect, Send, Drain, Hangup, Expire, vars
<1>1. UNCHANGED wire
  BY DEF MainStep, Environment, Destroy, Tick, Callback, NextTick, Poll, PollTimeout,
     SetRevents, PollDone, Dispatch, BatchDone, Lookup, Enqueue, Release, Accept, AcceptStop,
     RemoveChannel, Cancel, CloseFd, Dequeue, Connect, Send, Drain, Hangup, Expire, vars
<1>2. CASE MainStep
  <2>1. \A w \in Workers : pc'[w] = pc[w]
    BY <1>2, <1>p DEF MainStep, Destroy, Tick, Callback, NextTick, Poll, PollTimeout,
       SetRevents, PollDone, Dispatch, BatchDone, Lookup, Enqueue, Release, Accept, AcceptStop,
       RemoveChannel, Cancel, CloseFd, Goto, LetGo
  <2>2. UNCHANGED task
    BY <1>2 DEF MainStep, Destroy, Tick, Callback, NextTick, Poll, PollTimeout, SetRevents,
       PollDone, Dispatch, BatchDone, Lookup, Enqueue, Release, Accept, AcceptStop,
       RemoveChannel, Cancel, CloseFd
  <2> QED BY <1>0, <1>1, <2>1, <2>2, WireFrame
<1>3. CASE Environment \/ UNCHANGED vars
  <2>1. UNCHANGED <<pc, task>>
    BY <1>3 DEF Environment, Connect, Send, Drain, Hangup, Expire, vars
  <2> QED BY <1>0, <1>1, <2>1, WireFrame
<1>4. ASSUME NEW w \in Workers, Dequeue(w) \/ Destroy(w) PROVE WireInv'
  <2>1. PICK l \in {"remove", "events", "cancel", "closefd"} : Goto(w, l)
    BY <1>4, <1>p DEF Dequeue, Destroy, RemoveChannel, Cancel, CloseFd, LetGo
  <2>2. pc'[w] = l /\ \A v \in Workers : v # w => pc'[v] = pc[v]
    BY <2>1, <1>p DEF Goto
  <2>3. pc[w] # "retrieve"
    BY <1>4 DEF Dequeue, Destroy, RemoveChannel, Cancel, CloseFd
  <2>4. \A v \in Workers : v # w => task'[v] = task[v]
    <3>1. task' = task \/ task' = [task EXCEPT ![w] = Head(queue)]
      BY <1>4 DEF Dequeue, Destroy, RemoveChannel, Cancel, CloseFd
    <3> QED BY <3>1 DEF TypeOK
  <2> QED BY <1>0, <1>1, <2>2, <2>3, <2>4, WireFrame
<1> QED BY <1>2, <1>3, <1>4

\* Every step keeps wires and buffers together.

LEMMA WireStep == TypeOK /\ OwnInv /\ Serial /\ WireInv /\ [Next]_vars => WireInv'
<1> SUFFICES ASSUME TypeOK, OwnInv, Serial, WireInv, [Next]_vars PROVE WireInv'
  OBVIOUS
<1>1. ASSUME NEW w \in Workers, WorkerStep(w) PROVE WireInv'
  BY <1>1, WireParse, WireView, WireWrite, WireRetrieve, WireQuiet, WireElse DEF WorkerStep
<1> QED BY <1>1, WireElse DEF Next

\* An error is reported of a connection the client has left, and nobody comes
\* back.
LEMMA ErrorStep ==
  ASSUME TypeOK, ClosingInv, [Next]_vars
  PROVE  /\ \A c \in Conns : "ERR" \in revents'[c] \cup events'[c] => peer'[c] # "open"
         /\ \A c \in Conns : peer[c] # "open" => peer'[c] # "open"
<1> USE DEF threadVars, poolVars, loopVars, mainVars, connVars, mapVars, dataVars
<1>1. \A c \in Conns : peer[c] # "open" => peer'[c] # "open"
  <2>1. CASE \E c \in Conns : Hangup(c)
    BY <2>1 DEF TypeOK, Hangup
  <2>2. CASE MainStep
    BY <2>2 DEF MainStep, Destroy, Tick, Callback, NextTick, Poll, PollTimeout, SetRevents,
       PollDone, Dispatch, BatchDone, Lookup, Enqueue, Release, Accept, AcceptStop,
       RemoveChannel, Cancel, CloseFd
  <2>3. CASE \E w \in Workers : WorkerStep(w)
    BY <2>3 DEF WorkerStep, Destroy, Dequeue, HandleEvents, Adjust, Read, Parse, Answer, View,
       Write, Retrieve, Left, Modify, Close, CheckOut, CheckErr, RemoveChannel, Cancel, CloseFd
  <2>4. CASE Environment /\ ~\E c \in Conns : Hangup(c)
    BY <2>4 DEF Environment, Connect, Send, Drain, Expire
  <2>5. CASE UNCHANGED vars
    BY <2>5 DEF vars
  <2> QED BY <2>1, <2>2, <2>3, <2>4, <2>5 DEF Next
<1>2. CASE Poll
  <2>1. \A c \in Conns : "ERR" \in Report(c) => peer[c] # "open"
    BY DEF Report, Ready
  <2>2. UNCHANGED revents /\ \A c \in Conns : events'[c] = Report(c)
    BY <1>2 DEF Poll
  <2> QED BY <1>1, <2>1, <2>2 DEF ClosingInv
<1>3. ASSUME NEW d \in Conns, SetRevents(d)
      PROVE  \A c \in Conns : "ERR" \in revents'[c] \cup events'[c] => peer'[c] # "open"
  <2>1. /\ events \in [Conns -> SUBSET Events] /\ revents \in [Conns -> SUBSET Events]
    BY DEF TypeOK
  <2>2. revents' = revents \/ revents' = [revents EXCEPT ![d] = events[d]]
    BY <1>3 DEF SetRevents
  <2>3. events' = events \/ events' = [events EXCEPT ![d] = {}]
    BY <1>3 DEF SetRevents
  <2>4. \A c \in Conns : revents'[c] \cup events'[c] \subseteq revents[c] \cup events[c]
    BY <2>1, <2>2, <2>3
  <2> QED BY <1>1, <2>4 DEF ClosingInv
<1>4. CASE ~Poll /\ ~\E d \in Conns : SetRevents(d)
  <2>1. UNCHANGED <<revents, events>>
    BY <1>4 DEF Next, MainStep, WorkerStep, Environment, Destroy, Tick, Callback, NextTick,
       PollTimeout, PollDone, Dispatch, BatchDone, Lookup, Enqueue, Release, Accept,
       AcceptStop, RemoveChannel, Cancel, CloseFd, Dequeue, HandleEvents, Adjust, Read, Parse,
       Answer, View, Write, Retrieve, Left, Modify, Close, CheckOut, CheckErr, Connect, Send,
       Drain, Hangup, Expire, vars
  <2> QED BY <1>1, <2>1 DEF ClosingInv
<1> QED BY <1>1, <1>2, <1>3, <1>4

\* What a worker has in hand, the others leave alone.
LEMMA OthersKeep ==
  ASSUME TypeOK, OwnInv, Serial, [Next]_vars, NEW w \in Workers, ~WorkerStep(w)
  PROVE  /\ pc'[w] = pc[w]
         /\ pc[w] \notin {"idle", "events"} \cup Destructor =>
              /\ task'[w] = task[w] /\ io'[w] = io[w]
              /\ made'[task[w]] = made[task[w]] /\ gone'[task[w]] = gone[task[w]]
<1> USE DEF threadVars, poolVars, loopVars, mainVars, connVars, mapVars, dataVars
<1>p. pc \in [Threads -> MainPcs \cup WorkerPcs]
      /\ \A v \in Workers : v \in Threads /\ v # Main
  BY NamesAssumption DEF TypeOK, Threads
<1>1. CASE MainStep \/ Environment \/ UNCHANGED vars
  <2>1. pc'[w] = pc[w]
    BY <1>1, <1>p DEF MainStep, Environment, Destroy, Tick, Callback, NextTick, Poll,
       PollTimeout, SetRevents, PollDone, Dispatch, BatchDone, Lookup, Enqueue, Release, Accept,
       AcceptStop, RemoveChannel, Cancel, CloseFd, Goto, LetGo, Connect, Send, Drain, Hangup,
       Expire, vars
  <2>2. UNCHANGED <<task, made, gone, io>>
    BY <1>1 DEF MainStep, Environment, Destroy, Tick, Callback, NextTick, Poll, PollTimeout,
       SetRevents, PollDone, Dispatch, BatchDone, Lookup, Enqueue, Release, Accept, AcceptStop,
       RemoveChannel, Cancel, CloseFd, Connect, Send, Drain, Hangup, Expire, vars
  <2> QED BY <2>1, <2>2
<1>2. ASSUME NEW v \in Workers, WorkerStep(v), v # w
      PROVE  /\ pc'[w] = pc[w]
             /\ pc[w] \notin {"idle", "events"} \cup Destructor =>
                  /\ task'[w] = task[w] /\ io'[w] = io[w]
                  /\ made'[task[w]] = made[task[w]] /\ gone'[task[w]] = gone[task[w]]
  <2>1. pc'[w] = pc[w]
    BY <1>2, <1>p DEF WorkerStep, Destroy, RemoveChannel, Cancel, CloseFd, Dequeue,
       HandleEvents, Adjust, Read, Parse, Answer, View, Write, Retrieve, Left, Modify, Close,
       CheckOut, CheckErr, Goto, LetGo
  <2>2. task'[w] = task[w]
    <3>1. task' = task \/ task' = [task EXCEPT ![v] = Head(queue)]
      BY <1>2 DEF WorkerStep, Destroy, RemoveChannel, Cancel, CloseFd, Dequeue, HandleEvents,
         Adjust, Read, Parse, Answer, View, Write, Retrieve, Left, Modify, Close, CheckOut,
         CheckErr
    <3> QED BY <1>2, <3>1 DEF TypeOK
  <2>3. io'[w] = io[w]
    <3>1. io' = io \/ \E r : io' = [io EXCEPT ![v] = r]
      BY <1>2 DEF WorkerStep, Destroy, RemoveChannel, Cancel, CloseFd, Dequeue, HandleEvents,
         Adjust, Read, Parse, Answer, View, Write, Retrieve, Left, Modify, Close, CheckOut,
         CheckErr
    <3> QED BY <1>2, <3>1 DEF TypeOK
  <2>4. ASSUME pc[w] \notin {"idle", "events"} \cup Destructor
        PROVE  made'[task[w]] = made[task[w]] /\ gone'[task[w]] = gone[task[w]]
    <3>1. task[w] \in Conns /\ (pc[v] # "idle" => task[v] # task[w])
      BY <1>2, <2>4, InHand
    <3>2. made' = made \/ (pc[v] # "idle" /\ made' = [made EXCEPT ![task[v]] = @ + 1])
      BY <1>2 DEF WorkerStep, Destroy, RemoveChannel, Cancel, CloseFd, Dequeue, HandleEvents,
         Adjust, Read, Parse, Answer, View, Write, Retrieve, Left, Modify, Close, CheckOut,
         CheckErr
    <3>3. gone' = gone \/ (pc[v] # "idle" /\ gone' = [gone EXCEPT ![task[v]] = @ + io[v].n])
      BY <1>2 DEF WorkerStep, Destroy, RemoveChannel, Cancel, CloseFd, Dequeue, HandleEvents,
         Adjust, Read, Parse, Answer, View, Write, Retrieve, Left, Modify, Retrieved, Close,
         CheckOut, CheckErr
    <3> QED BY <3>1, <3>2, <3>3 DEF TypeOK
  <2> QED BY <2>1, <2>2, <2>3, <2>4
<1> QED BY <1>1, <1>2 DEF Next

\* A worker that goes on to HandleClose: the client has left, or its last
\* unit was just retrieved.
LEMMA ClosingStep ==
  TypeOK /\ OwnInv /\ Serial /\ WireInv /\ ClosingInv /\ [Next]_vars => ClosingInv'
<1> SUFFICES ASSUME TypeOK, OwnInv, Serial, WireInv, ClosingInv, [Next]_vars,
                    NEW w \in Workers
             PROVE  /\ pc'[w] = "done" => Unsent(task[w])' = 0
                    /\ pc'[w] = "close" => peer'[task'[w]] # "open" \/ Unsent(task[w])' = 0
  BY ErrorStep DEF ClosingInv
<1> USE DEF threadVars, poolVars, loopVars, mainVars, connVars, mapVars, dataVars
<1>p. pc \in [Threads -> MainPcs \cup WorkerPcs] /\ ret \in [Workers -> {"idle", "out", "err"}]
      /\ \A v \in Workers : v \in Threads /\ v # Main
  BY NamesAssumption DEF TypeOK, Threads
<1>1. CASE ~WorkerStep(w)
  <2>1. pc'[w] = pc[w]
    BY <1>1, OthersKeep
  <2>2. ASSUME pc[w] \in {"done", "close"}
        PROVE  /\ task[w] \in Conns /\ task'[w] = task[w]
               /\ made'[task[w]] = made[task[w]] /\ gone'[task[w]] = gone[task[w]]
    BY <1>1, <2>2, InHand, OthersKeep DEF Destructor
  <2>3. ASSUME pc[w] = "done" PROVE Unsent(task[w])' = 0
    BY <2>2, <2>3 DEF ClosingInv, Unsent, Total
  <2>4. ASSUME pc[w] = "close" PROVE peer'[task'[w]] # "open" \/ Unsent(task[w])' = 0
    BY <2>2, <2>4, ErrorStep DEF ClosingInv, Unsent, Total
  <2> QED BY <2>1, <2>3, <2>4
<1>2. CASE WorkerStep(w)
  <2>2. CASE HandleEvents(w) \/ CheckErr(w)
    <3>1. pc'[w] # "done"
      BY <2>2, <1>p DEF HandleEvents, CheckErr, Goto
    <3>2. ASSUME pc'[w] = "close" PROVE peer'[task'[w]] # "open"
      <4>1. "ERR" \in revents[task[w]] /\ task' = task
        BY <2>2, <3>2, <1>p DEF HandleEvents, CheckErr, Goto
      <4>2. task[w] # None
        BY <2>2, <3>2, <1>p DEF HandleEvents, CheckErr, Goto, OwnInv, TaskInv, Destructor
      <4>3. task[w] \in Conns
        BY <4>2 DEF TypeOK
      <4> QED BY <4>1, <4>3, ErrorStep DEF ClosingInv
    <3> QED BY <3>1, <3>2
  <2>3. CASE Read(w) \/ Write(w)
    <3>1. /\ pc'[w] # "done" /\ task' = task
          /\ pc'[w] = "close" => peer[task[w]] # "open"
      BY <2>3, <1>p DEF Read, Write, Goto, Crash
    <3>2. task[w] \in Conns
      BY <2>3, InHand DEF Read, Write, Destructor
    <3> QED BY <3>1, <3>2, ErrorStep
  <2>4. CASE Left(w)
    <3>1. /\ UNCHANGED <<made, gone, task>> /\ pc'[w] # "close"
          /\ pc'[w] = "done" => Unsent(task[w]) = 0
      BY <2>4, <1>p DEF Left, Goto
    <3>2. Unsent(task[w])' = Unsent(task[w])
      BY <3>1 DEF Unsent, Total
    <3> QED BY <3>1, <3>2
  <2>5. CASE Modify(w)
    <3>1. /\ UNCHANGED <<made, gone, task>> /\ pc'[w] # "done"
          /\ pc'[w] = "close" => pc[w] = "done"
      BY <2>5, <1>p DEF Modify, AfterWrite, Goto
    <3>2. Unsent(task[w])' = Unsent(task[w])
      BY <3>1 DEF Unsent, Total
    <3> QED BY <3>1, <3>2 DEF ClosingInv
  <2>6. CASE ~(HandleEvents(w) \/ CheckErr(w) \/ Read(w) \/ Write(w) \/ Left(w) \/ Modify(w))
    <3>1. pc'[w] \notin {"done", "close"}
      BY <1>p, <1>2, <2>6 DEF WorkerStep, Destroy, RemoveChannel, Cancel, CloseFd, Dequeue,
         Adjust, Parse, Answer, View, Retrieve, Close, CheckOut, Crash, Goto, LetGo
    <3> QED BY <3>1
  <2> QED BY <2>2, <2>3, <2>4, <2>5, <2>6
<1> QED BY <1>1, <1>2

(***************************************************************************)
(* One request for each connection: one event, one handler.                *)
(***************************************************************************)

\* A step that queues nothing, takes nothing off the queue and reports
\* nothing new; it erases at most an entry that no event needs, and arms at
\* most a connection that has nothing left to report.
LEMMA RouteFrame ==
  ASSUME RouteInv, LoopInv, ArmedInv, UNCHANGED <<queue, task, fdOf>>, StationInv',
         \A c \in Conns : Apart(c)' /\ (Reported(c)' => Reported(c)),
         \A w \in Workers : pc[w] = "idle" => pc'[w] = "idle",
         \A c \in Conns : (Reported(c) \/ Untouched(c)) /\ users[fdOf[c]] = c
           => users'[fdOf[c]] = c,
         \A c \in Conns : rcvd[c] = Segs => rcvd'[c] = Segs,
         \A c \in Conns : armed'[c] # {} =>
           \/ armed'[c] = {"IN"} /\ rcvd'[c] = Segs
           \/ /\ armed'[c] = armed[c]
              /\ dying[Main] = c /\ pc[Main] = "remove" =>
                   dying'[Main] = c /\ pc'[Main] = "remove"
  PROVE  RouteInv' /\ LoopInv' /\ ArmedInv'
<1>1. \A c \in Conns : /\ Queued(c)' = Queued(c)
                       /\ Reported(c)' => Reported(c)
                       /\ \A w \in Workers : Busy(w, c)' => Busy(w, c)
  BY DEF Queued, Busy
<1>2. \A c \in Conns : Untouched(c) => Untouched(c)'
  BY <1>1 DEF Untouched
<1>3. RouteInv'
  <2>1. Serial'
    BY <1>1 DEF RouteInv, Serial
  <2>2. \A c \in Conns : Apart(c)' /\ (Reported(c)' => ~Queued(c)')
    BY <1>1 DEF RouteInv
  <2>3. \A c \in Conns : Reported(c)' \/ Queued(c)' => \A w \in Workers : ~Busy(w, c)'
    BY <1>1 DEF RouteInv
  <2>4. \A c \in Conns : \A i, j \in 1 .. Len(queue) : queue[i] = c /\ queue[j] = c => i = j
    BY DEF RouteInv
  <2> QED BY <2>1, <2>2, <2>3, <2>4 DEF RouteInv
<1>4. LoopInv'
  <2>1. \A c \in Conns : Reported(c)' => users'[fdOf[c]] = c
    BY <1>1 DEF LoopInv
  <2> QED BY <2>1 DEF LoopInv
<1>5. ArmedInv'
  <2> SUFFICES ASSUME NEW c \in Conns, armed'[c] # {}
               PROVE  /\ armed'[c] = {"IN"}
                      /\ \/ rcvd'[c] = Segs
                         \/ /\ Untouched(c)'
                            /\ users'[fdOf[c]] = c \/ (dying'[Main] = c /\ pc'[Main] = "remove")
    BY DEF ArmedInv
  <2>1. CASE armed'[c] = {"IN"} /\ rcvd'[c] = Segs
    BY <2>1
  <2>2. CASE ~(armed'[c] = {"IN"} /\ rcvd'[c] = Segs)
    <3>1. /\ armed'[c] = armed[c]
          /\ dying[Main] = c /\ pc[Main] = "remove" => dying'[Main] = c /\ pc'[Main] = "remove"
      BY <2>2
    <3>2. armed[c] = {"IN"} /\ (rcvd[c] = Segs \/ (Untouched(c) /\
            (users[fdOf[c]] = c \/ (dying[Main] = c /\ pc[Main] = "remove"))))
      BY <3>1 DEF ArmedInv
    <3> QED BY <1>2, <3>1, <3>2
  <2> QED BY <2>1, <2>2
<1> QED BY <1>3, <1>4, <1>5

\* With one request, the channel is armed again behind the whole answer.
LEMMA RearmsLast ==
  ASSUME OneRequest, TypeOK, OwnInv, ClientInv, AnswerInv, NEW w \in Workers, Modify(w)
  PROVE  /\ task[w] \in Conns /\ pc[w] = "done" /\ Rearm(w) = {"IN"}
         /\ rcvd[task[w]] = Segs
<1>1. task[w] \in Conns
  BY InHand DEF Modify, Destructor
<1>2. pc[w] = "done"
  BY DEF Modify, AnswerInv
<1>3. rcvd[task[w]] = Segs
  BY <1>1, <1>2 DEF AnswerInv
<1> QED BY <1>1, <1>2, <1>3 DEF Rearm, ClientInv

\* Handlers keep the route of every event: they arm a channel again only when
\* nothing is left to report.
LEMMA RouteHandler ==
  ASSUME OneRequest, TypeOK, OwnInv, OneRequestInv, NEW w \in Workers,
         WorkerStep(w), ~Dequeue(w)
  PROVE  RouteInv' /\ LoopInv' /\ ArmedInv'
<1> USE DEF threadVars, poolVars, loopVars, mainVars, connVars, mapVars, dataVars
<1>p. pc \in [Threads -> MainPcs \cup WorkerPcs] /\ w \in Threads /\ w # Main
      /\ Main \in Threads /\ Workers \subseteq Threads
  BY NamesAssumption DEF TypeOK, Threads
<1>1. UNCHANGED <<queue, task, fdOf, events, batch, cur>>
  BY DEF WorkerStep, Destroy, RemoveChannel, Cancel, CloseFd, Dequeue, HandleEvents, Adjust,
     Read, Parse, Answer, View, Write, Retrieve, Left, Modify, Close, CheckOut, CheckErr
<1>2. \A t \in Threads : t # w => pc'[t] = pc[t]
  BY <1>p DEF WorkerStep, Destroy, RemoveChannel, Cancel, CloseFd, Dequeue, HandleEvents,
     Adjust, Read, Parse, Answer, View, Write, Retrieve, Left, Modify, Close, CheckOut,
     CheckErr, Goto
<1>3. pc[w] # "idle"
  BY DEF WorkerStep, Destroy, RemoveChannel, Cancel, CloseFd, Dequeue, HandleEvents, Adjust,
     Read, Parse, Answer, View, Write, Retrieve, Left, Modify, Close, CheckOut, CheckErr
<1>4. pc'[Main] = pc[Main] /\ \A v \in Workers : pc[v] = "idle" => pc'[v] = "idle"
  BY <1>p, <1>2, <1>3
<1>5. dying'[Main] = dying[Main]
  <2>1. dying' = dying \/ dying' = [dying EXCEPT ![w] = None]
    BY DEF WorkerStep, Destroy, RemoveChannel, Cancel, CloseFd, Dequeue, HandleEvents, Adjust,
       Read, Parse, Answer, View, Write, Retrieve, Left, Modify, Close, CheckOut, CheckErr
  <2> QED BY <1>p, <2>1 DEF TypeOK
<1>6. \A c \in Conns : (Reported(c) \/ Untouched(c)) /\ users[fdOf[c]] = c => users'[fdOf[c]] = c
  <2>1. CASE ~Close(w)
    BY <2>1 DEF WorkerStep, Destroy, RemoveChannel, Cancel, CloseFd, Dequeue, HandleEvents,
       Adjust, Read, Parse, Answer, View, Write, Retrieve, Left, Modify, CheckOut, CheckErr
  <2>2. CASE Close(w)
    <3> SUFFICES ASSUME NEW c \in Conns, Reported(c) \/ Untouched(c), users[fdOf[c]] = c,
                        users'[fdOf[c]] # c
                 PROVE  FALSE
      OBVIOUS
    <3>1. task[w] \in Conns /\ Busy(w, task[w])
      BY <2>2, InHand DEF Close, Destructor
    <3>2. obj[task[w]] = "live"
      BY <3>1, HeldLive, NamesAssumption
    <3>3. c # None
      BY NamesAssumption
    <3>4. fdOf[c] \in Fds
      BY <2>2, <3>3 DEF TypeOK, Close
    <3>5. obj[c] = "live"
      BY <3>3, <3>4 DEF OwnInv, UsersInv
    <3>6. fdOf[c] = fdOf[task[w]]
      BY <2>2 DEF Close, TypeOK
    <3>7. c = task[w]
      BY <3>1, <3>2, <3>5, <3>6 DEF OwnInv, FdInv, Open
    <3> QED BY <3>1, <3>7 DEF Untouched, OneRequestInv, RouteInv, Busy
  <2> QED BY <2>1, <2>2
<1>7. \A c \in Conns : rcvd[c] = Segs => rcvd'[c] = Segs
  <2>1. rcvd' = rcvd \/ \E d \in Conns : rcvd' = [rcvd EXCEPT ![d] = sent[d]]
    <3>1. CASE Read(w)
      <4>1. task[w] \in Conns
        BY <3>1, InHand DEF Read, Destructor
      <4> QED BY <3>1, <4>1 DEF Read
    <3>2. CASE ~Read(w)
      BY <3>2 DEF WorkerStep, Destroy, RemoveChannel, Cancel, CloseFd, Dequeue, HandleEvents,
         Adjust, Parse, Answer, View, Write, Retrieve, Left, Modify, Close, CheckOut, CheckErr
    <3> QED BY <3>1, <3>2
  <2>2. \A c \in Conns : rcvd[c] = Segs => sent[c] = Segs
    <3> SUFFICES ASSUME NEW c \in Conns, rcvd[c] = Segs PROVE sent[c] = Segs
      OBVIOUS
    <3>1. sent[c] \in Nat /\ Segs \in Nat /\ rcvd[c] <= sent[c] /\ sent[c] <= Segs
      BY SizesAssumption DEF TypeOK, OneRequestInv, ClientInv
    <3> QED BY <3>1
  <2> QED BY <2>1, <2>2 DEF TypeOK
<1>8. \A c \in Conns : armed'[c] # {} => armed'[c] = armed[c] \/ (armed'[c] = {"IN"} /\ rcvd'[c] = Segs)
  <2>1. CASE ~Modify(w)
    <3>1. armed' = armed \/ armed' = [armed EXCEPT ![dying[w]] = {}]
      BY <2>1 DEF WorkerStep, Destroy, RemoveChannel, Cancel, CloseFd, Dequeue, HandleEvents,
         Adjust, Read, Parse, Answer, View, Write, Retrieve, Left, Close, CheckOut, CheckErr
    <3> QED BY <3>1 DEF TypeOK
  <2>2. CASE Modify(w)
    <3>1. task[w] \in Conns /\ rcvd[task[w]] = Segs /\ Rearm(w) = {"IN"}
      BY <2>2, RearmsLast DEF OneRequestInv
    <3>2. armed' = [armed EXCEPT ![task[w]] = {"IN"}]
      BY <2>2, <3>1 DEF Modify
    <3> QED BY <1>7, <3>1, <3>2 DEF TypeOK
  <2> QED BY <2>1, <2>2
<1>9. UNCHANGED hold
  BY <1>p DEF WorkerStep, Destroy, RemoveChannel, Cancel, CloseFd, Dequeue, HandleEvents,
     Adjust, Read, Parse, Answer, View, Write, Retrieve, Left, Modify, Close, CheckOut, CheckErr
<1>10. StationInv'
  BY <1>1, <1>4, <1>9 DEF OneRequestInv, LoopInv, StationInv, InLoop
<1>11. \A c \in Conns : Apart(c)' /\ (Reported(c)' => Reported(c))
  BY <1>1, <1>4, <1>9 DEF OneRequestInv, RouteInv, Apart, Reported, Passing
<1> QED BY <1>1, <1>4, <1>5, <1>6, <1>7, <1>8, <1>10, <1>11, RouteFrame DEF OneRequestInv

\* Between its calls the loop passes reports on and adds none; clients do not
\* touch them.
LEMMA StationStep ==
  ASSUME TypeOK, OwnInv, OneRequestInv,
         \/ Tick \/ NextTick \/ PollTimeout \/ (\E d \in Conns : SetRevents(d)) \/ PollDone
         \/ Dispatch \/ BatchDone \/ Lookup \/ Release \/ AcceptStop
         \/ Destroy(Main) \/ Environment \/ UNCHANGED vars
  PROVE  StationInv' /\ \A c \in Conns : Apart(c)' /\ (Reported(c)' => Reported(c))
<1> USE DEF threadVars, poolVars, loopVars, mainVars, connVars, mapVars, dataVars
<1>p. pc \in [Threads -> MainPcs \cup WorkerPcs] /\ Main \in Threads
      /\ Workers \subseteq Threads /\ Main \notin Workers
  BY NamesAssumption DEF TypeOK, Threads
<1>n. \A c \in Conns : c # None /\ NoEvents[c] = {}
  BY NamesAssumption DEF NoEvents
<1>i. /\ RouteInv /\ LoopInv /\ ArmedInv /\ StationInv
      /\ \A c \in Conns : Apart(c)
  BY DEF OneRequestInv, LoopInv, RouteInv
<1>1. CASE UNCHANGED <<pc, events, batch, cur, hold>>
  BY <1>i, <1>1 DEF StationInv, InLoop, Apart, Reported, Passing
<1>2. CASE Dispatch
  <2>1. PICK x \in batch :
          /\ batch' = batch \ {x}
          /\ \/ Goto(Main, "accept") /\ UNCHANGED cur
             \/ UNCHANGED <<pc, cur>>
             \/ cur' = x /\ Goto(Main, "lookup")
    BY <1>2 DEF Dispatch
  <2>2. pc[Main] = "dispatch" /\ cur = None /\ events = NoEvents /\ UNCHANGED events
    BY <1>i, <1>2 DEF Dispatch, StationInv
  <2>3. /\ pc'[Main] \in {"dispatch", "lookup", "accept"}
        /\ cur' # None => cur' = x /\ pc'[Main] = "lookup"
    BY <1>p, <2>1, <2>2 DEF Goto
  <2>4. StationInv'
    BY <2>2, <2>3 DEF StationInv, InLoop
  <2> QED BY <1>n, <2>1, <2>2, <2>3, <2>4 DEF Apart, Reported, Passing
<1>3. ASSUME NEW d \in Conns, SetRevents(d), ~UNCHANGED <<pc, events, batch, cur, hold>>
      PROVE  StationInv' /\ \A c \in Conns : Apart(c)' /\ (Reported(c)' => Reported(c))
  <2>1. /\ pc[Main] = "revents" /\ UNCHANGED <<pc, cur, hold>> /\ events[d] # {}
        /\ events' = [events EXCEPT ![d] = {}] /\ batch' = batch \cup {d}
    BY <1>3 DEF SetRevents
  <2>2. events \in [Conns -> SUBSET Events] /\ cur = None
    BY <1>i, <2>1 DEF TypeOK, StationInv
  <2>3. StationInv'
    BY <2>1, <2>2 DEF StationInv, InLoop
  <2>4. \A c \in Conns : IF c = d THEN events'[c] = {} ELSE events'[c] = events[c]
    BY <2>1, <2>2
  <2> QED BY <1>i, <1>n, <2>1, <2>2, <2>3, <2>4 DEF Apart, Reported, Passing
<1>4. CASE Lookup
  <2>1. pc[Main] = "lookup" /\ cur \in Conns /\ events = NoEvents
    BY <1>i, <1>4 DEF Lookup, StationInv, OwnInv, ChannelInv, TypeOK
  <2>2. users[fdOf[cur]] = cur /\ cur \notin batch
    BY <1>i, <2>1 DEF LoopInv, Reported, Apart
  <2>3. /\ UNCHANGED <<events, batch>> /\ cur' = None /\ hold' = cur
        /\ pc'[Main] = "enqueue"
    BY <1>p, <1>4, <2>2 DEF Lookup, Goto
  <2>4. StationInv'
    BY <2>1, <2>3 DEF StationInv, InLoop
  <2> QED BY <1>n, <2>1, <2>2, <2>3, <2>4 DEF Apart, Reported, Passing
<1>5. CASE Release
  <2>1. pc[Main] = "release" /\ UNCHANGED <<events, batch, cur>>
    BY <1>5 DEF Release
  <2>2. pc'[Main] = "dispatch" \/ (pc'[Main] = "remove" /\ hold' # None)
    <3>1. dying \in [Threads -> Conns \cup {None}]
      BY DEF TypeOK
    <3> QED BY <1>p, <1>5, <3>1 DEF Release, LetGo, Goto
  <2>3. cur = None /\ events = NoEvents
    BY <1>i, <2>1 DEF StationInv
  <2>4. StationInv'
    BY <2>1, <2>2, <2>3 DEF StationInv, InLoop
  <2> QED BY <1>n, <2>1, <2>2, <2>3, <2>4 DEF Apart, Reported, Passing
<1>6. CASE PollDone \/ BatchDone \/ AcceptStop
  <2>1. /\ UNCHANGED <<events, batch, cur, hold>> /\ pc[Main] \in {"revents", "dispatch", "accept"}
        /\ pc'[Main] = "dispatch" \/ (pc'[Main] = "tick" /\ batch = {})
        /\ pc[Main] = "revents" => events = NoEvents
    BY <1>p, <1>6 DEF PollDone, BatchDone, AcceptStop, Goto
  <2>2. cur = None /\ events = NoEvents
    BY <1>i, <2>1 DEF StationInv
  <2>3. StationInv'
    BY <2>1, <2>2 DEF StationInv, InLoop
  <2> QED BY <1>n, <2>1, <2>2, <2>3 DEF Apart, Reported, Passing
<1>7. CASE Tick \/ NextTick \/ PollTimeout
  <2>1. /\ UNCHANGED <<events, batch, cur, hold>> /\ pc[Main] \in {"tick", "poll"}
        /\ pc'[Main] \in {"tick", "callback", "poll", "block"}
    BY <1>p, <1>7 DEF Tick, NextTick, PollTimeout, Goto
  <2>2. hold = None
    BY <2>1 DEF OwnInv, HoldInv, Destructor
  <2>3. cur = None /\ events = NoEvents /\ batch = {}
    BY <1>i, <2>1, <2>2 DEF StationInv, InLoop
  <2>4. StationInv'
    BY <2>1, <2>3 DEF StationInv
  <2> QED BY <1>n, <2>1, <2>2, <2>3, <2>4 DEF Apart, Reported, Passing
<1>8. CASE Destroy(Main)
  <2>1. /\ UNCHANGED <<events, batch, cur>> /\ pc[Main] \in Destructor
        /\ \/ pc'[Main] \in Destructor /\ hold' = hold
           \/ pc'[Main] = "tick" /\ hold = None
           \/ pc'[Main] = "dispatch"
    BY <1>p, <1>8 DEF Destroy, RemoveChannel, Cancel, CloseFd, Goto, Destructor
  <2>2. cur = None /\ events = NoEvents /\ (batch # {} => hold # None)
    BY <1>i, <2>1 DEF StationInv, InLoop, Destructor
  <2>3. StationInv'
    BY <2>1, <2>2 DEF StationInv, InLoop
  <2> QED BY <1>n, <2>1, <2>2, <2>3 DEF Apart, Reported, Passing, Destructor
<1>9. CASE Environment \/ UNCHANGED vars
  <2>1. UNCHANGED <<pc, events, batch, cur, hold>>
    BY <1>9 DEF Environment, Connect, Send, Drain, Hangup, Expire, vars
  <2> QED BY <1>1, <2>1
<1> QED BY <1>1, <1>2, <1>3, <1>4, <1>5, <1>6, <1>7, <1>8, <1>9

\* Nor does the loop between its calls or a client move an event.
LEMMA RouteLoop ==
  ASSUME TypeOK, OwnInv, OneRequestInv,
         \/ Tick \/ NextTick \/ PollTimeout \/ (\E d \in Conns : SetRevents(d)) \/ PollDone
         \/ Dispatch \/ BatchDone \/ Lookup \/ Release \/ AcceptStop
         \/ Destroy(Main) \/ Environment \/ UNCHANGED vars
  PROVE  RouteInv' /\ LoopInv' /\ ArmedInv'
<1> USE DEF threadVars, poolVars, loopVars, mainVars, connVars, mapVars, dataVars
<1>p. pc \in [Threads -> MainPcs \cup WorkerPcs] /\ Main \in Threads
      /\ Workers \subseteq Threads /\ Main \notin Workers
  BY NamesAssumption DEF TypeOK, Threads
<1>i. RouteInv /\ LoopInv /\ ArmedInv
  BY DEF OneRequestInv
<1>1. UNCHANGED <<queue, task, fdOf, users, rcvd>>
  BY DEF Environment, Destroy, Tick, NextTick, PollTimeout, SetRevents, PollDone, Dispatch,
     BatchDone, Lookup, Release, AcceptStop, RemoveChannel, Cancel, CloseFd, Connect, Send,
     Drain, Hangup, Expire, vars
<1>2. \A w \in Workers : pc'[w] = pc[w]
  BY <1>p DEF Environment, Destroy, Tick, NextTick, PollTimeout, SetRevents, PollDone, Dispatch,
     BatchDone, Lookup, Release, LetGo, AcceptStop, RemoveChannel, Cancel, CloseFd, Connect,
     Send, Drain, Hangup, Expire, vars, Goto
<1>3. StationInv' /\ \A c \in Conns : Apart(c)' /\ (Reported(c)' => Reported(c))
  BY StationStep
<1>4. \A c \in Conns : armed'[c] # {} =>
        /\ armed'[c] = armed[c]
        /\ dying[Main] = c /\ pc[Main] = "remove" => dying'[Main] = c /\ pc'[Main] = "remove"
  <2> SUFFICES ASSUME NEW c \in Conns, armed'[c] # {}
               PROVE  /\ armed'[c] = armed[c]
                      /\ dying[Main] = c /\ pc[Main] = "remove" =>
                           dying'[Main] = c /\ pc'[Main] = "remove"
    OBVIOUS
  <2>1. CASE RemoveChannel(Main)
    BY <2>1 DEF RemoveChannel, TypeOK
  <2>2. CASE Environment \/ UNCHANGED vars
    BY <2>2 DEF Environment, Connect, Send, Drain, Hangup, Expire, vars
  <2>3. CASE ~(RemoveChannel(Main) \/ Environment \/ UNCHANGED vars)
    <3>1. UNCHANGED armed /\ pc[Main] # "remove"
      BY <2>3 DEF Destroy, Tick, NextTick, PollTimeout, SetRevents, PollDone, Dispatch,
         BatchDone, Lookup, Release, AcceptStop, Cancel, CloseFd
    <3> QED BY <3>1
  <2> QED BY <2>1, <2>2, <2>3
<1>5. /\ \A w \in Workers : pc[w] = "idle" => pc'[w] = "idle"
      /\ \A c \in Conns : (Reported(c) \/ Untouched(c)) /\ users[fdOf[c]] = c
           => users'[fdOf[c]] = c
      /\ \A c \in Conns : rcvd[c] = Segs => rcvd'[c] = Segs
      /\ UNCHANGED <<queue, task, fdOf>>
  BY <1>1, <1>2
<1>6. \A c \in Conns : armed'[c] # {} =>
           \/ armed'[c] = {"IN"} /\ rcvd'[c] = Segs
           \/ /\ armed'[c] = armed[c]
              /\ dying[Main] = c /\ pc[Main] = "remove" =>
                   dying'[Main] = c /\ pc'[Main] = "remove"
  BY <1>4
<1> QED BY <1>3, <1>5, <1>6, <1>i, RouteFrame

\* With one request, epoll reports only what was never reported before.
LEMMA ReportedFirst ==
  ASSUME OneRequest, TypeOK, OwnInv, OneRequestInv, pc[Main] \in {"poll", "block"},
         NEW c \in Conns, c \in Active
  PROVE  /\ Report(c) = {"IN"} /\ armed[c] # {} /\ rcvd[c] # Segs
         /\ Untouched(c) /\ users[fdOf[c]] = c
<1>1. armed[c] # {} /\ Ready(c) \cap (armed[c] \cup {"ERR"}) # {}
      /\ Report(c) = Ready(c) \cap (armed[c] \cup {"ERR"})
  BY DEF Active, Report
<1>2. armed[c] = {"IN"}
  BY <1>1 DEF OneRequestInv, ArmedInv
<1>3. peer[c] = "open"
  BY DEF OneRequestInv, ClientInv
<1>4. "IN" \in Ready(c) /\ Report(c) = {"IN"} /\ rcvd[c] < sent[c]
  BY <1>1, <1>2, <1>3 DEF Ready
<1>5. rcvd[c] # Segs
  <2>1. rcvd[c] \in Nat /\ sent[c] \in Nat /\ Segs \in Nat /\ sent[c] <= Segs
    BY SizesAssumption DEF TypeOK, OneRequestInv, ClientInv
  <2> QED BY <1>4, <2>1
<1> QED BY <1>1, <1>4, <1>5 DEF OneRequestInv, ArmedInv

\* Poll brings the first event of a connection, which is nowhere else.

LEMMA RoutePoll ==
  ASSUME OneRequest, TypeOK, OwnInv, OneRequestInv, Poll
  PROVE  RouteInv' /\ LoopInv' /\ ArmedInv'
<1>p. pc \in [Threads -> MainPcs \cup WorkerPcs] /\ Main \in Threads
      /\ Workers \subseteq Threads /\ Main \notin Workers
  BY NamesAssumption DEF TypeOK, Threads
<1>1. UNCHANGED <<queue, task, fdOf, users, rcvd, cur, hold, dying>>
  BY DEF Poll, poolVars, mapVars, dataVars
<1>2. pc'[Main] = "revents" /\ \A w \in Workers : pc'[w] = pc[w]
  BY <1>p DEF Poll, Goto
<1>3. pc[Main] \in {"poll", "block"} /\ cur = None /\ events = NoEvents
  BY DEF Poll, OneRequestInv, LoopInv, StationInv
<1>4. \A c \in Conns : c \notin batch' /\ (events'[c] # {} <=> c \in Active)
  BY NamesAssumption DEF Poll, Active
<1>5. \A c \in Conns : /\ Reported(c)' <=> c \in Active
                       /\ Queued(c)' = Queued(c)
                       /\ \A w \in Workers : Busy(w, c)' = Busy(w, c)
                       /\ Apart(c)'
  BY <1>1, <1>2, <1>3, <1>4, NamesAssumption DEF Reported, Queued, Busy, Apart, Passing
<1>6. \A c \in Conns : c \in Active =>
        /\ Untouched(c) /\ users[fdOf[c]] = c
        /\ ~Queued(c) /\ \A w \in Workers : ~Busy(w, c)
  BY <1>3, ReportedFirst DEF Untouched, Busy
<1>7. RouteInv'
  <2>1. Serial'
    BY <1>5 DEF OneRequestInv, RouteInv, Serial
  <2>2. \A c \in Conns : Apart(c)' /\ (Reported(c)' => ~Queued(c)')
    BY <1>5, <1>6
  <2>3. \A c \in Conns : Reported(c)' \/ Queued(c)' => \A w \in Workers : ~Busy(w, c)'
    BY <1>5, <1>6 DEF OneRequestInv, RouteInv
  <2>4. \A c \in Conns : \A i, j \in 1 .. Len(queue') : queue'[i] = c /\ queue'[j] = c => i = j
    BY <1>1 DEF OneRequestInv, RouteInv
  <2> QED BY <2>1, <2>2, <2>3, <2>4 DEF RouteInv
<1>8. LoopInv'
  <2>1. StationInv'
    BY <1>1, <1>2, <1>3 DEF StationInv, InLoop
  <2> QED BY <1>1, <1>5, <1>6, <2>1 DEF LoopInv
<1>9. ArmedInv'
  <2> SUFFICES ASSUME NEW c \in Conns, armed'[c] # {}
               PROVE  /\ armed'[c] = {"IN"}
                      /\ \/ rcvd'[c] = Segs
                         \/ Untouched(c)' /\ users'[fdOf'[c]] = c
    BY DEF ArmedInv
  <2>1. c \notin Active /\ armed'[c] = armed[c]
    BY DEF Poll, Disarmed
  <2>2. armed[c] = {"IN"} /\ (rcvd[c] = Segs \/ (Untouched(c) /\ users[fdOf[c]] = c))
    BY <2>1, <1>3 DEF OneRequestInv, ArmedInv
  <2>3. Untouched(c) => Untouched(c)'
    BY <2>1, <1>1, <1>5 DEF Untouched
  <2> QED BY <1>1, <2>1, <2>2, <2>3
<1> QED BY <1>7, <1>8, <1>9

\* The task of a reported connection is the only one of it.
LEMMA RouteEnqueue ==
  ASSUME TypeOK, OwnInv, OneRequestInv, Enqueue
  PROVE  RouteInv' /\ LoopInv' /\ ArmedInv'
<1>p. pc \in [Threads -> MainPcs \cup WorkerPcs] /\ Main \in Threads
      /\ Workers \subseteq Threads /\ Main \notin Workers
  BY NamesAssumption DEF TypeOK, Threads
<1>1. UNCHANGED <<task, fdOf, users, rcvd, events, batch, cur, hold, dying, armed>>
  BY DEF Enqueue, mainVars, loopVars, connVars, mapVars, dataVars
<1>c. \A c \in Conns : Reported(c) => users[fdOf[c]] = c
  BY DEF OneRequestInv, LoopInv
<1>3. CASE UNCHANGED <<pc, queue>>
  <2>1. StationInv' /\ \A c \in Conns : Apart(c)' /\ (Reported(c)' => Reported(c))
    BY <1>1, <1>3 DEF OneRequestInv, LoopInv, RouteInv, StationInv, InLoop, Apart, Reported, Passing
  <2>2. RouteInv /\ LoopInv /\ ArmedInv
    BY DEF OneRequestInv
  <2> QED BY <1>1, <1>3, <2>1, <2>2, RouteFrame
<1>4. CASE queue' = Append(queue, hold) /\ Goto(Main, "release")
  <2>1. pc'[Main] = "release" /\ \A w \in Workers : pc'[w] = pc[w]
    BY <1>p, <1>4 DEF Goto
  <2>e. pc[Main] = "enqueue" /\ cur = None /\ events = NoEvents
    BY DEF Enqueue, OneRequestInv, LoopInv, StationInv
  <2>b. PICK b \in Conns \cup {None} : b = hold
    BY DEF TypeOK
  <2>2. /\ queue \in Seq(Conns \cup {None}) /\ Len(queue) \in Nat
        /\ Len(queue') = Len(queue) + 1 /\ queue'[Len(queue) + 1] = b
        /\ \A i \in 1 .. Len(queue) : queue'[i] = queue[i]
    <3>1. queue \in Seq(Conns \cup {None}) /\ queue' = Append(queue, b)
      BY <1>4, <2>b DEF TypeOK
    <3> QED BY <3>1
  <2>3. \A c \in Conns : /\ Queued(c)' => Queued(c) \/ c = b
                         /\ Reported(c)' <=> Reported(c) /\ c # b
                         /\ \A w \in Workers : Busy(w, c)' = Busy(w, c)
                         /\ Apart(c)'
    <3>1. \A c \in Conns : Queued(c)' => Queued(c) \/ c = b
      <4> SUFFICES ASSUME NEW c \in Conns, NEW i \in 1 .. Len(queue'), queue'[i] = c, c # b
                   PROVE  Queued(c)
        BY DEF Queued
      <4>1. i \in 1 .. Len(queue)
        BY <2>2
      <4> QED BY <2>2, <4>1 DEF Queued
    <3>2. \A c \in Conns : Reported(c)' <=> Reported(c) /\ c # b
      <4>1. \A c \in Conns : Passing(c) <=> c = b
        BY <2>b, <2>e DEF Passing
      <4>2. \A c \in Conns : ~Passing(c)' /\ c # None
        BY <2>1, NamesAssumption DEF Passing
      <4>3. \A c \in Conns : c = b => c \notin batch /\ events[c] = {}
        BY <4>1 DEF OneRequestInv, RouteInv, Apart
      <4> QED BY <1>1, <2>e, <4>1, <4>2, <4>3 DEF Reported
    <3>3. \A c \in Conns : Apart(c)'
      BY <1>1, <2>1, <2>e, NamesAssumption DEF Apart, Passing, NoEvents
    <3>4. \A c \in Conns, w \in Workers : Busy(w, c)' = Busy(w, c)
      BY <1>1, <2>1 DEF Busy
    <3> QED BY <3>1, <3>2, <3>3, <3>4
  <2>4. b \in Conns => Reported(b) /\ ~Queued(b) /\ \A w \in Workers : ~Busy(w, b)
    BY <2>b, <2>e DEF Reported, Passing, OneRequestInv, RouteInv
  <2>5. RouteInv'
    <3>1. Serial'
      BY <2>3 DEF OneRequestInv, RouteInv, Serial
    <3>2. \A c \in Conns : Apart(c)' /\ (Reported(c)' => ~Queued(c)')
      BY <2>3 DEF OneRequestInv, RouteInv
    <3>3. \A c \in Conns : Reported(c)' \/ Queued(c)' => \A w \in Workers : ~Busy(w, c)'
      BY <2>3, <2>4 DEF OneRequestInv, RouteInv
    <3>4. ASSUME NEW c \in Conns, NEW i \in 1 .. Len(queue'), NEW j \in 1 .. Len(queue'),
                 queue'[i] = c, queue'[j] = c
          PROVE  i = j
      <4>1. \A k \in 1 .. Len(queue') : k \in 1 .. Len(queue) \/ k = Len(queue) + 1
        BY <2>2
      <4>2. CASE c = b
        BY <2>2, <2>4, <3>4, <4>1, <4>2 DEF Queued
      <4>3. CASE c # b
        <5>1. i \in 1 .. Len(queue) /\ j \in 1 .. Len(queue)
          BY <2>2, <3>4, <4>1, <4>3
        <5>2. queue[i] = c /\ queue[j] = c
          BY <2>2, <3>4, <5>1
        <5> QED BY <5>1, <5>2 DEF OneRequestInv, RouteInv
      <4> QED BY <4>2, <4>3
    <3> QED BY <3>1, <3>2, <3>3, <3>4 DEF RouteInv
  <2>6. LoopInv'
    <3>1. StationInv'
      BY <1>1, <2>1, <2>e DEF StationInv, InLoop
    <3> QED BY <1>1, <1>c, <2>3, <3>1 DEF LoopInv
  <2>7. ArmedInv'
    <3> SUFFICES ASSUME NEW c \in Conns, armed[c] # {}
                 PROVE  /\ armed[c] = {"IN"}
                        /\ \/ rcvd[c] = Segs
                           \/ Untouched(c)' /\ users[fdOf[c]] = c
      BY <1>1 DEF ArmedInv
    <3>1. armed[c] = {"IN"} /\ (rcvd[c] = Segs \/ (Untouched(c) /\ users[fdOf[c]] = c))
      BY <2>e DEF OneRequestInv, ArmedInv
    <3>2. Untouched(c) => Untouched(c)'
      BY <1>1, <2>3, <2>4 DEF Untouched
    <3> QED BY <3>1, <3>2
  <2> QED BY <2>5, <2>6, <2>7
<1> QED BY <1>3, <1>4 DEF Enqueue

\* The worker that takes the task is the only one with an event of it.
LEMMA RouteDequeue ==
  ASSUME TypeOK, OwnInv, OneRequestInv, NEW w \in Workers, Dequeue(w)
  PROVE  RouteInv' /\ LoopInv' /\ ArmedInv'
<1>p. pc \in [Threads -> MainPcs \cup WorkerPcs] /\ Main \in Threads
      /\ Workers \subseteq Threads /\ Main \notin Workers /\ w # Main
  BY NamesAssumption DEF TypeOK, Threads
<1>1. UNCHANGED <<fdOf, users, rcvd, events, batch, cur, hold, armed>> /\ pc[w] = "idle"
  BY DEF Dequeue, mainVars, loopVars, connVars, mapVars, dataVars
<1>2. \A t \in Threads : t # w => pc'[t] = pc[t] /\ dying'[t] = dying[t]
  BY <1>p DEF Dequeue, LetGo, Goto, TypeOK
<1>3. pc'[w] \in {"remove", "events"}
  BY <1>p DEF Dequeue, LetGo, Goto
<1>4. PICK b \in Conns \cup {None} :
        /\ queue # <<>> /\ b = Head(queue) /\ queue' = Tail(queue)
        /\ task' = [task EXCEPT ![w] = b]
  <2>1. queue \in Seq(Conns \cup {None}) /\ queue # <<>>
    BY DEF Dequeue, TypeOK
  <2>2. Head(queue) \in Conns \cup {None}
    BY <2>1
  <2> QED BY <2>1, <2>2 DEF Dequeue
<1>5. /\ Len(queue) \in Nat \ {0} /\ Len(queue') = Len(queue) - 1 /\ queue[1] = b
      /\ \A i \in 1 .. Len(queue') : queue'[i] = queue[i + 1]
  <2>1. queue \in Seq(Conns \cup {None})
    BY DEF TypeOK
  <2> QED BY <1>4, <2>1
<1>6. task'[w] = b /\ \A v \in Workers : v # w => task'[v] = task[v]
  BY <1>4 DEF TypeOK
<1>7. \A c \in Conns : Queued(c)' => Queued(c) /\ c # b
  <2> SUFFICES ASSUME NEW c \in Conns, NEW i \in 1 .. Len(queue'), queue'[i] = c
               PROVE  Queued(c) /\ c # b
    BY DEF Queued
  <2>1. i + 1 \in 1 .. Len(queue) /\ 1 \in 1 .. Len(queue) /\ queue[i + 1] = c /\ i + 1 # 1
    BY <1>5
  <2> QED BY <1>5, <2>1 DEF Queued, OneRequestInv, RouteInv
<1>8. b \in Conns => Queued(b)
  BY <1>5 DEF Queued
<1>9. \A c \in Conns : /\ Reported(c)' = Reported(c) /\ Apart(c)' = Apart(c)
                       /\ \A v \in Workers : Busy(v, c)' <=> Busy(v, c) \/ (v = w /\ c = b)
  BY <1>1, <1>2, <1>3, <1>6, <1>p DEF Reported, Passing, Apart, Busy
<1>10. RouteInv'
  <2>1. Serial'
    BY <1>8, <1>9 DEF OneRequestInv, RouteInv, Serial
  <2>2. \A c \in Conns : Apart(c)' /\ (Reported(c)' => ~Queued(c)')
    BY <1>1, <1>7, <1>9 DEF OneRequestInv, RouteInv
  <2>3. \A c \in Conns : Reported(c)' \/ Queued(c)' => \A v \in Workers : ~Busy(v, c)'
    BY <1>7, <1>8, <1>9 DEF OneRequestInv, RouteInv
  <2>4. ASSUME NEW c \in Conns, NEW i \in 1 .. Len(queue'), NEW j \in 1 .. Len(queue'),
               queue'[i] = c, queue'[j] = c
        PROVE  i = j
    <3>1. /\ i + 1 \in 1 .. Len(queue) /\ j + 1 \in 1 .. Len(queue)
          /\ queue[i + 1] = c /\ queue[j + 1] = c
      BY <1>5, <2>4
    <3>2. i + 1 = j + 1
      BY <3>1 DEF OneRequestInv, RouteInv
    <3> QED BY <3>2
  <2> QED BY <2>1, <2>2, <2>3, <2>4 DEF RouteInv
<1>11. LoopInv'
  <2>1. pc'[Main] = pc[Main]
    BY <1>p, <1>2
  <2>2. StationInv'
    BY <1>1, <2>1 DEF OneRequestInv, LoopInv, StationInv, InLoop
  <2> QED BY <1>1, <1>9, <2>2 DEF OneRequestInv, LoopInv
<1>12. ArmedInv'
  <2> SUFFICES ASSUME NEW c \in Conns, armed[c] # {}
               PROVE  /\ armed[c] = {"IN"}
                      /\ \/ rcvd[c] = Segs
                         \/ /\ Untouched(c)'
                            /\ users[fdOf[c]] = c \/ (dying'[Main] = c /\ pc'[Main] = "remove")
    BY <1>1 DEF ArmedInv
  <2>1. armed[c] = {"IN"} /\ (rcvd[c] = Segs \/ (Untouched(c) /\
           (users[fdOf[c]] = c \/ (dying[Main] = c /\ pc[Main] = "remove"))))
    BY DEF OneRequestInv, ArmedInv
  <2>2. Untouched(c) => Untouched(c)'
    BY <1>6, <1>7, <1>8, <1>9 DEF Untouched
  <2> QED BY <1>p, <1>2, <2>1, <2>2
<1> QED BY <1>10, <1>11, <1>12

\* A connection is registered before it has any event.
LEMMA RouteAccept ==
  ASSUME TypeOK, OwnInv, OneRequestInv, Accept
  PROVE  RouteInv' /\ LoopInv' /\ ArmedInv'
<1>1. PICK a \in Conns, f \in FreeFds :
        /\ obj[a] = "backlog"
        /\ fdOf' = [fdOf EXCEPT ![a] = f]
        /\ armed' = [armed EXCEPT ![a] = {"IN"}]
        /\ users' = [users EXCEPT ![f] = a]
  BY DEF Accept
<1>2. UNCHANGED <<pc, dying, queue, task, events, batch, cur, hold, rcvd>> /\ pc[Main] = "accept"
  BY DEF Accept, AcceptTurn, threadVars, poolVars, mainVars, loopVars, dataVars
<1>3. f \in Fds /\ fdOf \in [Conns -> Fds \cup {None}] /\ users \in [Fds -> Conns \cup {None}]
      /\ armed \in [Conns -> SUBSET Events] /\ a # None
  BY NamesAssumption DEF TypeOK, FreeFds
<1>4. \A c \in Conns : fdOf[c] # None /\ users[fdOf[c]] = c => c # a /\ users'[fdOf'[c]] = c
  <2> SUFFICES ASSUME NEW c \in Conns, fdOf[c] # None, users[fdOf[c]] = c
               PROVE  c # a /\ users'[fdOf'[c]] = c
    OBVIOUS
  <2>1. fdOf[c] \in Fds
    BY <1>3
  <2>2. obj[c] = "live"
    BY <2>1, NamesAssumption DEF OwnInv, UsersInv
  <2>3. c # a /\ fdOf[c] # f
    BY <1>1, <2>2 DEF FreeFds, Open
  <2> QED BY <1>1, <1>3, <2>1, <2>3
<1>5. \A c \in Conns : Reported(c) => fdOf[c] # None /\ users[fdOf[c]] = c
  <2>1. cur = None /\ \A c \in Conns : ~Passing(c) /\ c # None
    BY <1>2, NamesAssumption DEF OneRequestInv, LoopInv, StationInv, Passing
  <2> QED BY <2>1 DEF Reported, OwnInv, ChannelInv, OneRequestInv, LoopInv
<1>6. Untouched(a)
  <2>1. ~Reported(a)
    BY <1>4, <1>5
  <2>2. ~Queued(a)
    BY <1>1, <1>3, HeldLive DEF Queued
  <2>3. \A w \in Workers : task[w] # a
    BY <1>1, <1>3, HeldLive
  <2> QED BY <2>1, <2>2, <2>3 DEF Untouched
<1>7. RouteInv'
  BY <1>2 DEF OneRequestInv, RouteInv, Serial, Apart, Reported, Passing, Queued, Busy
<1>8. LoopInv'
  <2>1. \A c \in Conns : Reported(c)' => users'[fdOf'[c]] = c
    BY <1>2, <1>4, <1>5 DEF Reported, Passing
  <2>2. StationInv'
    BY <1>2 DEF OneRequestInv, LoopInv, StationInv, InLoop
  <2> QED BY <2>1, <2>2 DEF LoopInv
<1>9. ArmedInv'
  <2> SUFFICES ASSUME NEW c \in Conns, armed'[c] # {}
               PROVE  /\ armed'[c] = {"IN"}
                      /\ rcvd[c] = Segs \/ (Untouched(c) /\ users'[fdOf'[c]] = c)
    BY <1>2 DEF ArmedInv, Untouched, Reported, Passing, Queued
  <2>1. CASE c = a
    BY <1>1, <1>3, <1>6, <2>1
  <2>2. CASE c # a
    <3>1. armed[c] # {} /\ armed'[c] = armed[c]
      BY <1>1, <1>3, <2>2
    <3>2. fdOf[c] # None
      BY <3>1 DEF OwnInv, ChannelInv
    <3>3. armed[c] = {"IN"} /\ (rcvd[c] = Segs \/ (Untouched(c) /\ users[fdOf[c]] = c))
      BY <1>2, <3>1 DEF OneRequestInv, ArmedInv
    <3> QED BY <1>4, <3>1, <3>2, <3>3
  <2> QED BY <2>1, <2>2
<1> QED BY <1>7, <1>8, <1>9

\* The timeout erases a connection that has no event: it dies at once, and
\* leaves epoll before the loop asks epoll again.
LEMMA RouteCallback ==
  ASSUME TypeOK, OwnInv, OneRequestInv, Callback
  PROVE  RouteInv' /\ LoopInv' /\ ArmedInv'
<1>p. pc \in [Threads -> MainPcs \cup WorkerPcs] /\ Main \in Threads
      /\ Workers \subseteq Threads /\ Main \notin Workers
  BY NamesAssumption DEF TypeOK, Threads
<1>1. PICK e \in Fds : e = fdOf[fired]
  BY DEF Callback, OwnInv, FiredInv, TypeOK
<1>2. /\ UNCHANGED <<queue, task, fdOf, rcvd, events, batch, cur, hold, armed>>
      /\ pc[Main] = "callback"
  BY DEF Callback, poolVars, loopVars, dataVars
<1>3. batch = {} /\ cur = None /\ hold = None /\ events = NoEvents
  <2>1. hold = None
    BY <1>2 DEF OwnInv, HoldInv, Destructor
  <2> QED BY <1>2, <2>1 DEF OneRequestInv, LoopInv, StationInv, InLoop
<1>4. /\ users' = [users EXCEPT ![e] = None]
      /\ LetGo(Main, users[e], users', queue, task, hold, "tick")
  BY <1>1 DEF Callback, TimeoutErase
<1>5. \A w \in Workers : pc'[w] = pc[w]
  BY <1>p, <1>4, LetGoEffect
<1>6. /\ \A c \in Conns : ~Reported(c) /\ ~Reported(c)' /\ Queued(c)' = Queued(c)
      /\ \A c \in Conns, w \in Workers : Busy(w, c)' = Busy(w, c)
  BY <1>2, <1>3, <1>5, NamesAssumption DEF Reported, Passing, NoEvents, Queued, Busy
<1>7. RouteInv'
  <2>1. Serial'
    BY <1>6 DEF OneRequestInv, RouteInv, Serial
  <2>2. \A c \in Conns : \A i, j \in 1 .. Len(queue') : queue'[i] = c /\ queue'[j] = c => i = j
    BY <1>2 DEF OneRequestInv, RouteInv
  <2>3. \A c \in Conns : Reported(c)' \/ Queued(c)' => \A w \in Workers : ~Busy(w, c)'
    BY <1>6 DEF OneRequestInv, RouteInv
  <2>4. \A c \in Conns : Apart(c)'
    BY <1>2, <1>3, NamesAssumption DEF Apart, Passing, NoEvents
  <2> QED BY <1>6, <2>1, <2>2, <2>3, <2>4 DEF RouteInv
<1>8. LoopInv'
  BY <1>2, <1>3, <1>6 DEF LoopInv, StationInv
<1>9. ArmedInv'
  <2> SUFFICES ASSUME NEW c \in Conns, armed[c] # {}
               PROVE  /\ armed[c] = {"IN"}
                      /\ \/ rcvd[c] = Segs
                         \/ /\ Untouched(c)
                            /\ users'[fdOf[c]] = c \/ (dying'[Main] = c /\ pc'[Main] = "remove")
    BY <1>2, <1>6 DEF ArmedInv, Untouched
  <2>1. armed[c] = {"IN"} /\ (rcvd[c] = Segs \/ (Untouched(c) /\ users[fdOf[c]] = c))
    BY <1>2 DEF OneRequestInv, ArmedInv
  <2>2. fdOf[c] \in Fds
    BY DEF OwnInv, ChannelInv, TypeOK
  <2>3. ASSUME Untouched(c), users[fdOf[c]] = c
        PROVE  users'[fdOf[c]] = c \/ (dying'[Main] = c /\ pc'[Main] = "remove")
    <3>1. CASE fdOf[c] # e
      BY <1>4, <2>2, <2>3, <3>1 DEF TypeOK
    <3>2. CASE fdOf[c] = e
      <4>1. \A f \in Fds : users'[f] # c
        <5> SUFFICES ASSUME NEW f \in Fds, users'[f] = c PROVE FALSE
          OBVIOUS
        <5>1. f # e /\ users[f] = c
          BY <1>4, NamesAssumption DEF TypeOK
        <5> QED BY <3>2, <5>1, NamesAssumption DEF OwnInv, UsersInv
      <4>2. ~Referenced(c, users', queue, task, hold)
        BY <1>3, <2>3, <4>1, NamesAssumption DEF Referenced, Untouched, Queued
      <4>3. users[e] = c /\ c # None
        BY <2>3, <3>2, NamesAssumption
      <4> QED BY <1>p, <1>4, <4>2, <4>3, LetGoEffect
    <3> QED BY <3>1, <3>2
  <2> QED BY <2>1, <2>3
<1> QED BY <1>7, <1>8, <1>9

\* An event of a connection is in one place at a time, whatever step is taken.
LEMMA RouteStep ==
  OneRequest /\ TypeOK /\ OwnInv /\ OneRequestInv /\ [Next]_vars
    => RouteInv' /\ LoopInv' /\ ArmedInv'
<1> QED BY RouteHandler, RouteLoop, RoutePoll, RouteEnqueue, RouteDequeue, RouteAccept,
           RouteCallback DEF Next, MainStep

\* Clients stay as they are, and the kernel hands over what there is.
LEMMA ClientKeeps ==
  ASSUME OneRequest, TypeOK, OwnInv, OneRequestInv, [Next]_vars
  PROVE  ClientInv'
<1> USE DEF threadVars, poolVars, loopVars, mainVars, connVars, mapVars, dataVars
<1> SUFFICES ASSUME NEW c \in Conns
             PROVE  /\ peer'[c] = "open" /\ wants'[c] = {"IN"}
                    /\ revents'[c] \subseteq {"IN"} /\ events'[c] \subseteq {"IN"}
                    /\ rcvd'[c] <= sent'[c] /\ sent'[c] <= Segs
                    /\ drained'[c] <= Len(wire'[c])
  BY DEF ClientInv
<1>0. /\ peer[c] = "open" /\ wants[c] = {"IN"}
      /\ revents[c] \subseteq {"IN"} /\ events[c] \subseteq {"IN"}
      /\ rcvd[c] <= sent[c] /\ sent[c] <= Segs
      /\ drained[c] <= Len(wire[c])
  BY DEF OneRequestInv, ClientInv
<1>n. rcvd[c] \in Nat /\ sent[c] \in Nat /\ drained[c] \in Nat /\ Len(wire[c]) \in Nat /\ Segs \in Nat
  BY SizesAssumption DEF TypeOK
<1>1. peer'[c] = "open"
  <2>1. UNCHANGED peer
    BY DEF OneRequest, Next, MainStep, WorkerStep, Environment, Destroy, Tick, Callback,
       NextTick, Poll, PollTimeout, SetRevents, PollDone, Dispatch, BatchDone, Lookup, Enqueue,
       Release, Accept, AcceptStop, RemoveChannel, Cancel, CloseFd, Dequeue, HandleEvents,
       Adjust, Read, Parse, Answer, View, Write, Retrieve, Left, Modify, Close, CheckOut,
       CheckErr, Connect, Send, Drain, Hangup, Expire, vars
  <2> QED BY <1>0, <2>1
<1>2. revents'[c] \subseteq {"IN"} /\ events'[c] \subseteq {"IN"}
  <2>1. CASE Poll
    <3>1. events'[c] = Report(c) /\ revents' = revents
      BY <2>1 DEF Poll
    <3>2. Report(c) # {} => c \in Active
      BY DEF Active
    <3> QED BY <1>0, <2>1, <3>1, <3>2, ReportedFirst DEF Poll
  <2>2. ASSUME NEW d \in Conns, SetRevents(d)
        PROVE  revents'[c] \subseteq {"IN"} /\ events'[c] \subseteq {"IN"}
    <3>1. revents' = revents \/ revents' = [revents EXCEPT ![d] = events[d]]
      BY <2>2 DEF SetRevents
    <3>2. events' = events \/ events' = [events EXCEPT ![d] = {}]
      BY <2>2 DEF SetRevents
    <3>3. events \in [Conns -> SUBSET Events] /\ revents \in [Conns -> SUBSET Events]
      BY DEF TypeOK
    <3>4. revents'[c] \subseteq revents[c] \cup events[c] /\ events'[c] \subseteq events[c]
      BY <3>1, <3>2, <3>3
    <3> QED BY <1>0, <3>4
  <2>3. CASE ~Poll /\ ~\E d \in Conns : SetRevents(d)
    <3>1. UNCHANGED <<revents, events>>
      BY <2>3 DEF Next, MainStep, WorkerStep, Environment, Destroy, Tick, Callback, NextTick,
         PollTimeout, PollDone, Dispatch, BatchDone, Lookup, Enqueue, Release, Accept,
         AcceptStop, RemoveChannel, Cancel, CloseFd, Dequeue, HandleEvents, Adjust, Read,
         Parse, Answer, View, Write, Retrieve, Left, Modify, Close, CheckOut, CheckErr,
         Connect, Send, Drain, Hangup, Expire, vars
    <3> QED BY <1>0, <3>1
  <2> QED BY <2>1, <2>2, <2>3
<1>5. wants'[c] = {"IN"}
  <2>1. ASSUME NEW w \in Workers, Left(w) PROVE wants'[c] = {"IN"}
    <3>1. task[w] \in Conns /\ Unsent(task[w]) = 0
      BY <2>1, InHand DEF Left, Destructor, OneRequestInv, AnswerInv
    <3>2. wants' = [wants EXCEPT ![task[w]] = wants[task[w]] \ {"OUT"}]
      BY <2>1, <3>1 DEF Left, Wanted
    <3>3. wants[task[w]] = {"IN"}
      BY <3>1 DEF OneRequestInv, ClientInv
    <3> QED BY <1>0, <3>2, <3>3 DEF TypeOK
  <2>2. CASE ~\E w \in Workers : Left(w)
    <3>1. UNCHANGED wants
      BY <2>2 DEF Next, MainStep, WorkerStep, Environment, Destroy, Tick, Callback, NextTick,
         Poll, PollTimeout, SetRevents, PollDone, Dispatch, BatchDone, Lookup, Enqueue, Release,
         Accept, AcceptStop, RemoveChannel, Cancel, CloseFd, Dequeue, HandleEvents, Adjust, Read,
         Parse, Answer, View, Write, Retrieve, Modify, Close, CheckOut, CheckErr, Connect, Send,
         Drain, Hangup, Expire, vars
    <3> QED BY <1>0, <3>1
  <2> QED BY <2>1, <2>2
<1>3. rcvd'[c] <= sent'[c] /\ sent'[c] <= Segs
  <2>1. CASE \E d \in Conns : Send(d)
    <3>1. PICK d \in Conns : /\ sent' = [sent EXCEPT ![d] = @ + 1] /\ rcvd' = rcvd
                             /\ sent[d] < Segs * MaxRequests
      BY <2>1 DEF Send
    <3>2. Segs * MaxRequests = Segs /\ sent[d] \in Nat
      BY SizesAssumption DEF OneRequest, TypeOK
    <3>3. sent'[c] = IF c = d THEN sent[c] + 1 ELSE sent[c]
      BY <3>1 DEF TypeOK
    <3> QED BY <1>0, <1>n, <3>1, <3>2, <3>3
  <2>2. CASE \E w \in Workers : Read(w)
    <3>1. sent' = sent /\ rcvd'[c] \in {rcvd[c], sent[c]}
      BY <2>2 DEF Read, TypeOK
    <3> QED BY <1>0, <1>n, <3>1
  <2>3. CASE ~(\E d \in Conns : Send(d)) /\ ~(\E w \in Workers : Read(w))
    <3>1. UNCHANGED <<sent, rcvd>>
      BY <2>3 DEF Next, MainStep, WorkerStep, Environment, Destroy, Tick, Callback, NextTick,
         Poll, PollTimeout, SetRevents, PollDone, Dispatch, BatchDone, Lookup, Enqueue, Release,
         Accept, AcceptStop, RemoveChannel, Cancel, CloseFd, Dequeue, HandleEvents, Adjust,
         Parse, Answer, View, Write, Retrieve, Left, Modify, Close, CheckOut, CheckErr, Connect,
         Drain, Hangup, Expire, vars
    <3> QED BY <1>0, <3>1
  <2> QED BY <2>1, <2>2, <2>3
<1>4. drained'[c] <= Len(wire'[c])
  <2>1. CASE \E d \in Conns : Drain(d)
    <3>1. wire' = wire /\ (drained'[c] = drained[c] \/ (drained[c] < Len(wire[c]) /\ drained'[c] = drained[c] + 1))
      BY <2>1 DEF Drain, TypeOK
    <3> QED BY <1>0, <1>n, <3>1
  <2>2. CASE \E w \in Workers : Write(w)
    <3>1. PICK w \in Workers : Write(w)
      BY <2>2
    <3>2. drained' = drained
      BY <3>1 DEF Write
    <3>3. CASE wire' = wire
      BY <1>0, <3>2, <3>3
    <3>4. CASE wire' # wire
      <4>1. PICK u : /\ u = Units(io[w].from, Least(io[w].n, Room(task[w]))) /\ Room(task[w]) > 0
                     /\ wire' = [wire EXCEPT ![task[w]] = @ \o u]
        BY <3>1, <3>4 DEF Write
      <4>2. task[w] \in Conns /\ io[w] \in [from : Nat, n : Nat]
        BY <3>1, InHand DEF Write, Destructor, TypeOK
      <4>3. Room(task[w]) \in Int
        <5>1. wire \in [Conns -> Seq(Nat)] /\ drained \in [Conns -> Nat]
          BY DEF TypeOK
        <5>2. wire[task[w]] \in Seq(Nat) /\ drained[task[w]] \in Nat
          BY <4>2, <5>1
        <5>3. Len(wire[task[w]]) \in Nat
          BY <5>2
        <5> QED BY <5>2, <5>3, SizesAssumption DEF Room
      <4>4. Least(io[w].n, Room(task[w])) \in Nat
        BY <4>1, <4>2, <4>3 DEF Least
      <4>5. u \in Seq(Nat)
        BY <4>1, <4>2, <4>4 DEF Units
      <4>6. wire'[c] = wire[c] \/ wire'[c] = wire[c] \o u
        BY <4>1, <4>2 DEF TypeOK
      <4>7. wire[c] \in Seq(Nat)
        BY DEF TypeOK
      <4>8. Len(wire'[c]) \in Nat /\ Len(wire'[c]) >= Len(wire[c])
        BY <4>5, <4>6, <4>7
      <4> QED BY <1>0, <1>n, <3>2, <4>8
    <3> QED BY <3>3, <3>4
  <2>3. CASE ~(\E d \in Conns : Drain(d)) /\ ~(\E w \in Workers : Write(w))
    <3>1. UNCHANGED <<drained, wire>>
      BY <2>3 DEF Next, MainStep, WorkerStep, Environment, Destroy, Tick, Callback, NextTick,
         Poll, PollTimeout, SetRevents, PollDone, Dispatch, BatchDone, Lookup, Enqueue, Release,
         Accept, AcceptStop, RemoveChannel, Cancel, CloseFd, Dequeue, HandleEvents, Adjust,
         Read, Parse, Answer, View, Retrieve, Left, Modify, Close, CheckOut, CheckErr, Connect,
         Send, Hangup, Expire, vars
    <3> QED BY <1>0, <3>1
  <2> QED BY <2>1, <2>2, <2>3
<1> QED BY <1>1, <1>2, <1>3, <1>4, <1>5

\* What has been received stays received.
LEMMA ReceivedStays ==
  ASSUME OneRequestInv, TypeOK, [Next]_vars, NEW c \in Conns
  PROVE  /\ rcvd[c] = Segs => rcvd'[c] = Segs
         /\ rcvd[c] # 0 => rcvd'[c] # 0
<1> USE DEF threadVars, poolVars, loopVars, mainVars, connVars, mapVars, dataVars
<1>1. /\ rcvd[c] \in Nat /\ sent[c] \in Nat /\ Segs \in Nat
      /\ rcvd[c] <= sent[c] /\ sent[c] <= Segs
  BY SizesAssumption DEF TypeOK, OneRequestInv, ClientInv
<1>2. rcvd'[c] \in {rcvd[c], sent[c]}
  <2>1. CASE \E w \in Workers : Read(w)
    BY <2>1 DEF Read, TypeOK
  <2>2. CASE ~(\E w \in Workers : Read(w))
    <3>1. UNCHANGED rcvd
      BY <2>2 DEF Next, MainStep, WorkerStep, Environment, Destroy, Tick, Callback, NextTick,
         Poll, PollTimeout, SetRevents, PollDone, Dispatch, BatchDone, Lookup, Enqueue, Release,
         Accept, AcceptStop, RemoveChannel, Cancel, CloseFd, Dequeue, HandleEvents, Adjust,
         Parse, Answer, View, Write, Retrieve, Left, Modify, Close, CheckOut, CheckErr, Connect,
         Send, Drain, Hangup, Expire, vars
    <3> QED BY <3>1
  <2> QED BY <2>1, <2>2
<1> QED BY <1>1, <1>2

\* No connection gets back to where its answer is still to be made.
LEMMA EarlyStep ==
  ASSUME OneRequest, TypeOK, OwnInv, OneRequestInv, [Next]_vars, NEW c \in Conns, Early(c)'
  PROVE  Early(c)
<1> USE DEF threadVars, poolVars, loopVars, mainVars, connVars, mapVars, dataVars
<1>p. pc \in [Threads -> MainPcs \cup WorkerPcs] /\ Main \in Threads
      /\ Workers \subseteq Threads /\ Main \notin Workers
  BY NamesAssumption DEF TypeOK, Threads
<1>1. CASE obj'[c] \in {"unborn", "backlog"}
  <2>1. \/ obj' = obj
        \/ \E d \in Conns \cup {None} : obj' = [obj EXCEPT ![d] = "dying"]
        \/ \E d \in Conns \cup {None} : obj' = [obj EXCEPT ![d] = "dead"]
        \/ \E d \in Conns : obj' = [obj EXCEPT ![d] = "live"]
        \/ \E d \in Conns : obj[d] = "unborn" /\ obj' = [obj EXCEPT ![d] = "backlog"]
    <3>1. CASE Callback
      <4>1. users[fdOf[fired]] \in Conns \cup {None}
        BY <3>1 DEF Callback, OwnInv, FiredInv, TypeOK
      <4> QED BY <3>1, <4>1 DEF Callback, LetGo
    <3>2. CASE \E t \in Threads : CloseFd(t)
      BY <3>2 DEF CloseFd, TypeOK
    <3>3. CASE \E w \in Workers : Dequeue(w)
      BY <3>3 DEF Dequeue, LetGo, TypeOK
    <3>5. CASE Release
      <4>1. hold \in Conns \cup {None}
        BY DEF TypeOK
      <4> QED BY <3>5, <4>1 DEF Release, LetGo
    <3>4. CASE /\ ~Callback /\ ~Release
               /\ ~(\E t \in Threads : CloseFd(t)) /\ ~(\E w \in Workers : Dequeue(w))
      BY <1>p, <3>4 DEF Next, MainStep, WorkerStep, Environment, Destroy, Tick, NextTick, Poll,
         PollTimeout, SetRevents, PollDone, Dispatch, BatchDone, Lookup, Enqueue, Release,
         Accept, AcceptStop, RemoveChannel, Cancel, HandleEvents, Adjust, Read, Parse, Answer,
         View, Write, Retrieve, Left, Modify, Close, CheckOut, CheckErr, Connect, Send, Drain,
         Hangup, Expire, vars
    <3> QED BY <3>1, <3>2, <3>3, <3>4, <3>5
  <2>2. obj[c] \in {"unborn", "backlog"}
    BY <1>1, <2>1 DEF TypeOK
  <2> QED BY <2>2 DEF Early
<1>2. CASE armed'[c] # {} /\ rcvd'[c] # Segs
  <2>1. rcvd[c] # Segs
    BY <1>2, ReceivedStays
  <2>2. CASE armed[c] # {}
    BY <2>1, <2>2 DEF Early
  <2>3. CASE Accept
    <3>1. PICK d \in Conns : obj[d] = "backlog" /\ armed' = [armed EXCEPT ![d] = {"IN"}]
      BY <2>3 DEF Accept
    <3>2. c = d \/ armed[c] # {}
      BY <1>2, <3>1 DEF TypeOK
    <3> QED BY <2>2, <3>1, <3>2 DEF Early
  <2>4. ASSUME NEW w \in Workers, Modify(w) PROVE armed[c] # {}
    <3>1. rcvd[task[w]] = Segs
      BY <2>4, RearmsLast DEF OneRequestInv
    <3>2. \E e : armed' = [armed EXCEPT ![task[w]] = e]
      BY <2>4 DEF Modify
    <3> QED BY <1>2, <2>1, <3>1, <3>2 DEF TypeOK
  <2>5. CASE ~Accept /\ ~(\E w \in Workers : Modify(w))
    <3>1. \/ armed' = armed \/ \E d : armed' = [armed EXCEPT ![d] = {}]
          \/ armed' = Disarmed
      BY <2>5 DEF Next, MainStep, WorkerStep, Environment, Destroy, Tick, Callback, NextTick,
         Poll, PollTimeout, SetRevents, PollDone, Dispatch, BatchDone, Lookup, Enqueue, Release,
         AcceptStop, RemoveChannel, Cancel, CloseFd, Dequeue, HandleEvents, Adjust, Read, Parse,
         Answer, View, Write, Retrieve, Left, Close, CheckOut, CheckErr, Connect, Send, Drain,
         Hangup, Expire, vars
    <3>2. armed[c] # {}
      BY <1>2, <3>1 DEF Disarmed, TypeOK
    <3> QED BY <2>2, <3>2
  <2> QED BY <2>2, <2>3, <2>4, <2>5
<1>3. CASE Reported(c)'
  <2>1. CASE Poll
    <3>1. /\ UNCHANGED <<cur, hold>> /\ c \notin batch' /\ events'[c] = Report(c)
          /\ pc'[Main] = "revents" /\ pc[Main] \in {"poll", "block"}
      BY <1>p, <2>1, NamesAssumption DEF Poll, Goto
    <3>2. Reported(c) \/ c \in Active
      BY <1>3, <3>1 DEF Reported, Passing, Active
    <3> QED BY <3>1, <3>2, ReportedFirst DEF Early
  <2>2. CASE \/ Tick \/ NextTick \/ PollTimeout \/ (\E d \in Conns : SetRevents(d)) \/ PollDone
             \/ Dispatch \/ BatchDone \/ Lookup \/ Release \/ AcceptStop
             \/ Destroy(Main) \/ Environment \/ UNCHANGED vars
    BY <1>3, <2>2, StationStep DEF Early
  <2>3. CASE Enqueue \/ Accept \/ Callback \/ \E w \in Workers : WorkerStep(w)
    <3>1. UNCHANGED <<events, batch, cur>>
      BY <2>3 DEF Enqueue, Accept, Callback, WorkerStep, Destroy, RemoveChannel, Cancel, CloseFd,
         Dequeue, HandleEvents, Adjust, Read, Parse, Answer, View, Write, Retrieve, Left, Modify,
         Close, CheckOut, CheckErr
    <3>2. UNCHANGED hold
      BY <1>p, <2>3 DEF Enqueue, Accept, Callback, WorkerStep, Destroy, RemoveChannel, Cancel,
         CloseFd, Dequeue, HandleEvents, Adjust, Read, Parse, Answer, View, Write, Retrieve, Left,
         Modify, Close, CheckOut, CheckErr
    <3>3. pc'[Main] = "enqueue" => pc[Main] = "enqueue"
      <4>1. CASE Enqueue
        BY <4>1 DEF Enqueue
      <4>2. CASE Accept \/ Callback
        BY <1>p, <4>2 DEF Accept, Callback, Goto, LetGo
      <4>3. ASSUME NEW w \in Workers, WorkerStep(w) PROVE pc'[Main] = pc[Main]
        BY <1>p, <4>3 DEF WorkerStep, Destroy, RemoveChannel, Cancel, CloseFd, Dequeue,
           HandleEvents, Adjust, Read, Parse, Answer, View, Write, Retrieve, Left, Modify,
           Close, CheckOut, CheckErr, Goto, LetGo
      <4> QED BY <2>3, <4>1, <4>2, <4>3
    <3> QED BY <1>3, <3>1, <3>2, <3>3 DEF Reported, Passing, Early
  <2> QED BY <2>1, <2>2, <2>3 DEF Next, MainStep
<1>q. queue \in Seq(Conns \cup {None})
  BY DEF TypeOK
<1>4. CASE Queued(c)'
  <2>1. PICK i \in 1 .. Len(queue') : queue'[i] = c
    BY <1>4 DEF Queued
  <2>2. CASE Enqueue
    <3>1. pc[Main] = "enqueue" /\ (queue' = queue \/ queue' = Append(queue, hold))
      BY <2>2 DEF Enqueue
    <3>2. hold \in Conns \cup {None}
      BY DEF TypeOK
    <3>3. c = hold \/ \E j \in 1 .. Len(queue) : queue[j] = c
      BY <1>q, <2>1, <3>1, <3>2
    <3> QED BY <3>1, <3>3 DEF Early, Reported, Passing, Queued
  <2>3. CASE \E w \in Workers : Dequeue(w)
    <3>1. queue # <<>> /\ queue' = Tail(queue)
      BY <2>3 DEF Dequeue
    <3>2. i + 1 \in 1 .. Len(queue) /\ queue[i + 1] = c
      BY <1>q, <2>1, <3>1
    <3> QED BY <3>2 DEF Early, Queued
  <2>4. CASE ~Enqueue /\ ~(\E w \in Workers : Dequeue(w))
    <3>1. UNCHANGED queue
      BY <2>4 DEF Next, MainStep, WorkerStep, Environment, Destroy, Tick, Callback, NextTick,
         Poll, PollTimeout, SetRevents, PollDone, Dispatch, BatchDone, Lookup, Release, Accept,
         AcceptStop, RemoveChannel, Cancel, CloseFd, HandleEvents, Adjust, Read, Parse, Answer,
         View, Write, Retrieve, Left, Modify, Close, CheckOut, CheckErr, Connect, Send, Drain,
         Hangup, Expire, vars
    <3> QED BY <1>4, <3>1 DEF Early, Queued
  <2> QED BY <2>2, <2>3, <2>4
<1>5. ASSUME NEW w \in Workers, task'[w] = c,
             pc'[w] \in {"events", "adjust", "read", "parse"} \cup Destructor
      PROVE  Early(c)
  <2>1. CASE Dequeue(w)
    <3>1. queue # <<>> /\ task'[w] = Head(queue)
      BY <2>1 DEF Dequeue, TypeOK
    <3>2. 1 \in 1 .. Len(queue) /\ queue[1] = c
      BY <1>q, <1>5, <3>1
    <3> QED BY <3>2 DEF Early, Queued
  <2>2. CASE ~Dequeue(w)
    <3>1. task'[w] = task[w]
      <4>1. task' = task \/ \E v \in Workers : v # w /\ task' = [task EXCEPT ![v] = Head(queue)]
        BY <2>2 DEF Next, MainStep, WorkerStep, Environment, Destroy, Tick, Callback, NextTick,
           Poll, PollTimeout, SetRevents, PollDone, Dispatch, BatchDone, Lookup, Enqueue,
           Release, Accept, AcceptStop, RemoveChannel, Cancel, CloseFd, Dequeue, HandleEvents,
           Adjust, Read, Parse, Answer, View, Write, Retrieve, Left, Modify, Close, CheckOut,
           CheckErr, Connect, Send, Drain, Hangup, Expire, vars
      <4> QED BY <4>1 DEF TypeOK
    <3>2. pc[w] \in {"events", "adjust", "read", "parse"} \cup Destructor
      <4>1. CASE MainStep \/ Environment \/ UNCHANGED vars
        <5>1. pc'[w] = pc[w]
          BY <1>p, <4>1 DEF MainStep, Environment, Destroy, Tick, Callback, NextTick, Poll,
             PollTimeout, SetRevents, PollDone, Dispatch, BatchDone, Lookup, Enqueue, Release,
             Accept, AcceptStop, RemoveChannel, Cancel, CloseFd, Goto, LetGo, Connect, Send,
             Drain, Hangup, Expire, vars
        <5> QED BY <1>5, <5>1
      <4>2. ASSUME NEW v \in Workers, v # w, WorkerStep(v) PROVE pc'[w] = pc[w]
        BY <1>p, <4>2 DEF WorkerStep, Destroy, RemoveChannel, Cancel, CloseFd, Dequeue,
           HandleEvents, Adjust, Read, Parse, Answer, View, Write, Retrieve, Left, Modify,
           Close, CheckOut, CheckErr, Goto, LetGo
      <4>3. CASE WorkerStep(w)
        <5>1. ret[w] \in {"idle", "out", "err"}
          BY DEF TypeOK
        <5>2. CASE \/ View(w) \/ Write(w) \/ Retrieve(w) \/ Left(w) \/ Modify(w)
                   \/ Close(w) \/ CheckOut(w) \/ CheckErr(w)
          BY <1>p, <1>5, <5>1, <5>2 DEF View, Write, Retrieve, Left, Modify, AfterWrite, Close,
             CheckOut, CheckErr, Goto, Destructor
        <5>3. CASE HandleEvents(w) \/ Adjust(w) \/ Read(w) \/ Parse(w) \/ Destroy(w)
          BY <5>3 DEF HandleEvents, Adjust, Read, Parse, Answer, Destroy, RemoveChannel, Cancel,
             CloseFd, Destructor
        <5> QED BY <2>2, <4>3, <5>2, <5>3 DEF WorkerStep
      <4> QED BY <1>5, <4>1, <4>2, <4>3 DEF Next
    <3> QED BY <1>5, <3>1, <3>2 DEF Early
  <2> QED BY <2>1, <2>2
<1> QED BY <1>1, <1>2, <1>3, <1>4, <1>5 DEF Early

\* Each request is answered once, by the one handler that received it.
LEMMA MadeOnce ==
  ASSUME OneRequest, TypeOK, OwnInv, OneRequestInv, NEW w \in Workers, Parse(w)
  PROVE  \E c \in Conns :
           /\ c = task[w] /\ pc[w] = "parse" /\ made[c] = 0 /\ gone[c] = 0
           /\ UNCHANGED <<task, gone, io, rcvd>>
           /\ \/ made' = made /\ (Goto(w, "out") \/ Goto(w, "spin"))
              \/ /\ made' = [made EXCEPT ![c] = 1] /\ Goto(w, "view")
                 /\ rcvd[c] = Segs /\ ~Early(c)'
<1> USE DEF threadVars, poolVars, loopVars, mainVars, connVars, mapVars, dataVars
<1>1. PICK c \in Conns : c = task[w] /\ pc[w] = "parse" /\ Busy(w, c)
  BY InHand DEF Parse, Answer, Destructor
<1>2. Early(c) /\ made[c] = 0 /\ gone[c] = 0
  BY <1>1 DEF Early, OneRequestInv, AnswerInv
<1>3. UNCHANGED <<task, gone, io, rcvd, obj, armed, events, batch, cur, hold, queue>>
  BY DEF Parse, Answer
<1>4. CASE (Answerable(c) \/ c \in Indigestible) /\ made' = [made EXCEPT ![c] = @ + 1] /\ Goto(w, "view")
  <2>1. made' = [made EXCEPT ![c] = 1]
    <3>1. made[c] + 1 = 1
      BY <1>2
    <3> QED BY <1>4, <3>1
  <2>2. rcvd[c] = Segs
    <3>1. /\ rcvd[c] \in Nat \ {0} /\ sent[c] \in Nat /\ Segs \in Nat
          /\ rcvd[c] <= sent[c] /\ sent[c] <= Segs
      BY <1>1, SizesAssumption DEF TypeOK, OneRequestInv, ClientInv, AnswerInv
    <3>2. Segs = 1 \/ rcvd[c] >= Segs
      <4>1. (made[c] + 1) * Segs = Segs
        BY <1>2, SizesAssumption
      <4> QED BY <1>4, <4>1 DEF Answerable, OneRequest
    <3> QED BY <3>1, <3>2
  <2>3. ~Early(c)'
    <3>1. obj[c] = "live"
      BY <1>1, HeldLive, NamesAssumption
    <3>2. ~Reported(c) /\ ~Queued(c)
      BY <1>1 DEF OneRequestInv, RouteInv
    <3>3. \A v \in Workers : v # w /\ task[v] = c => pc[v] = "idle"
      BY <1>1 DEF OneRequestInv, RouteInv, Serial, Busy
    <3>4. \A v \in Workers : pc'[v] = IF v = w THEN "view" ELSE pc[v]
      BY <1>4, OthersStay DEF Goto, TypeOK, Threads
    <3>5. \A v \in Workers : task[v] = c =>
            pc'[v] \notin {"events", "adjust", "read", "parse"} \cup Destructor
      BY <3>3, <3>4 DEF Destructor
    <3>6. pc'[Main] = pc[Main]
      BY <1>4, OthersStay DEF Goto, TypeOK, Threads
    <3> QED BY <1>3, <2>2, <3>1, <3>2, <3>5, <3>6 DEF Early, Reported, Passing, Queued
  <2> QED BY <1>1, <1>2, <1>3, <1>4, <2>1, <2>2, <2>3
<1>5. CASE made' = made /\ (Goto(w, "out") \/ Goto(w, "spin"))
  BY <1>1, <1>2, <1>3, <1>5
<1> QED BY <1>1, <1>4, <1>5 DEF Parse, Answer

\* Every step keeps the one answer whole.

LEMMA AnswerStep ==
  ASSUME OneRequest, TypeOK, OwnInv, OneRequestInv, WireInv, [Next]_vars
  PROVE  AnswerInv'
<1> USE DEF threadVars, poolVars, loopVars, mainVars, connVars, mapVars, dataVars
<1>s. Serial /\ AnswerInv
  BY DEF OneRequestInv, RouteInv
<1>p. pc \in [Threads -> MainPcs \cup WorkerPcs] /\ ret \in [Workers -> {"idle", "out", "err"}]
      /\ \A v \in Workers : v \in Threads /\ v # Main
  BY NamesAssumption DEF TypeOK, Threads
<1>1. ASSUME NEW c \in Conns
      PROVE  /\ Early(c)' => made'[c] = 0
             /\ made'[c] # 0 => made'[c] = 1 /\ rcvd'[c] = Segs
             /\ made'[c] = 0 => gone'[c] = 0
  <2>1. CASE made'[c] = made[c]
    <3>1. Early(c)' => made[c] = 0
      BY EarlyStep, <1>s DEF AnswerInv
    <3>2. made[c] # 0 => made[c] = 1 /\ rcvd'[c] = Segs
      BY <1>s, ReceivedStays DEF AnswerInv
    <3>3. made[c] = 0 => gone'[c] = 0
      <4>1. gone' = gone \/ \E w \in Workers : pc[w] = "retrieve" /\
              gone' = [gone EXCEPT ![task[w]] = @ + io[w].n]
        BY DEF Next, MainStep, WorkerStep, Environment, Destroy, Tick, Callback, NextTick, Poll,
           PollTimeout, SetRevents, PollDone, Dispatch, BatchDone, Lookup, Enqueue, Release,
           Accept, AcceptStop, RemoveChannel, Cancel, CloseFd, Dequeue, HandleEvents, Adjust,
           Read, Parse, Answer, View, Write, Retrieve, Left, Modify, Retrieved, Close, CheckOut,
           CheckErr, Connect, Send, Drain, Hangup, Expire, vars
      <4>2. made[c] = 0 => gone[c] = 0 /\ \A w \in Workers : pc[w] = "retrieve" => task[w] # c
        BY <1>s DEF AnswerInv
      <4> QED BY <4>1, <4>2 DEF TypeOK
    <3> QED BY <2>1, <3>1, <3>2, <3>3
  <2>2. CASE made'[c] # made[c]
    <3>1. PICK w \in Workers : Parse(w)
      <4>1. made' # made
        BY <2>2
      <4> QED BY <4>1 DEF Next, MainStep, WorkerStep, Environment, Destroy, Tick, Callback,
         NextTick, Poll, PollTimeout, SetRevents, PollDone, Dispatch, BatchDone, Lookup,
         Enqueue, Release, Accept, AcceptStop, RemoveChannel, Cancel, CloseFd, Dequeue,
         HandleEvents, Adjust, Read, View, Write, Retrieve, Left, Modify, Close, CheckOut,
         CheckErr, Connect, Send, Drain, Hangup, Expire, vars
    <3>2. PICK d \in Conns : /\ made' = made \/ (made' = [made EXCEPT ![d] = 1] /\ rcvd[d] = Segs /\ ~Early(d)')
                             /\ rcvd' = rcvd
      BY <3>1, MadeOnce
    <3>3. c = d /\ made'[c] = 1 /\ rcvd[d] = Segs /\ ~Early(d)'
      BY <2>2, <3>2 DEF TypeOK
    <3> QED BY <3>2, <3>3
  <2> QED BY <2>1, <2>2
<1>2. ASSUME NEW w \in Workers, pc'[w] = "parse" PROVE rcvd'[task'[w]] # 0
  <2>1. CASE ~WorkerStep(w)
    <3>1. pc[w] = "parse"
      BY <1>2, <1>s, <2>1, OthersKeep
    <3>2. task'[w] = task[w] /\ task[w] \in Conns
      BY <1>s, <2>1, <3>1, OthersKeep, InHand DEF Destructor
    <3> QED BY <1>s, <3>1, <3>2, ReceivedStays DEF AnswerInv
  <2>2. CASE WorkerStep(w)
    <3>1. Read(w) /\ rcvd[task[w]] < sent[task[w]] /\ rcvd' = [rcvd EXCEPT ![task[w]] = sent[task[w]]]
          /\ task' = task
      BY <1>2, <1>p, <2>2 DEF WorkerStep, Destroy, RemoveChannel, Cancel, CloseFd, Dequeue,
         HandleEvents, Adjust, Read, Parse, Answer, View, Write, Retrieve, Left, Modify,
         AfterWrite, Close, CheckOut, CheckErr, Goto, LetGo
    <3>2. task[w] \in Conns
      BY <3>1, InHand DEF Read, Destructor
    <3>3. rcvd[task[w]] \in Nat /\ sent[task[w]] \in Nat /\ rcvd'[task[w]] = sent[task[w]]
      BY <3>1, <3>2 DEF TypeOK
    <3> QED BY <3>1, <3>3
  <2> QED BY <2>1, <2>2
<1>3. ASSUME NEW w \in Workers, pc'[w] \in {"view", "write", "retrieve"}
      PROVE  /\ made'[task'[w]] = 1 /\ gone'[task'[w]] = 0
             /\ pc'[w] = "retrieve" => io'[w].n = RespLen
  <2>1. CASE ~WorkerStep(w)
    <3>1. pc[w] = pc'[w]
      BY <1>s, <2>1, OthersKeep
    <3>2. /\ task'[w] = task[w] /\ io'[w] = io[w]
          /\ made'[task[w]] = made[task[w]] /\ gone'[task[w]] = gone[task[w]]
      BY <1>3, <1>s, <2>1, <3>1, OthersKeep DEF Destructor
    <3> QED BY <1>3, <1>s, <3>1, <3>2 DEF AnswerInv
  <2>2. CASE Parse(w)
    <3>1. PICK c \in Conns :
            /\ c = task[w] /\ gone[c] = 0 /\ UNCHANGED <<task, gone, io>>
            /\ Goto(w, "out") \/ Goto(w, "spin") \/ (made' = [made EXCEPT ![c] = 1] /\ Goto(w, "view"))
      BY <2>2, MadeOnce
    <3>2. made' = [made EXCEPT ![c] = 1] /\ pc'[w] = "view"
      BY <1>3, <1>p, <3>1 DEF Goto
    <3> QED BY <3>1, <3>2 DEF TypeOK
  <2>3. CASE View(w)
    <3>1. pc[w] = "view" /\ pc'[w] # "retrieve" /\ UNCHANGED <<task, made, gone>>
      BY <1>p, <2>3 DEF View, Goto
    <3> QED BY <1>s, <3>1 DEF AnswerInv
  <2>4. CASE Write(w)
    <3>1. PICK c \in Conns : c = task[w] /\ pc[w] = "write"
      BY <2>4, InHand DEF Write, Destructor
    <3>2. UNCHANGED <<task, made, gone>> /\ made[c] = 1 /\ gone[c] = 0
      BY <1>s, <2>4, <3>1 DEF Write, AnswerInv
    <3>3. CASE pc'[w] # "retrieve"
      BY <3>1, <3>2, <3>3
    <3>4. CASE pc'[w] = "retrieve"
      <4>1. io' = [io EXCEPT ![w].n = Least(io[w].n, Room(c))]
        BY <1>p, <2>4, <3>1, <3>4 DEF Write, Goto
      <4>2. io[w].n = RespLen
        <5>1. io[w] = [from |-> gone[c], n |-> Unsent(c)]
          BY <3>1 DEF WireInv, WireOf
        <5> QED BY <3>2, <5>1, SizesAssumption DEF Unsent, Total
      <4>3. Len(wire[c]) = 0
        <5>1. \A v \in Workers : v # w /\ task[v] = c => pc[v] = "idle"
          BY <1>s, <3>1, InHand DEF Destructor
        <5>2. Len(wire[c]) = gone[c]
          BY <3>1, <5>1 DEF WireInv, WireOf
        <5> QED BY <3>2, <5>2
      <4>4. drained[c] = 0
        <5>1. drained[c] \in Nat /\ drained[c] <= Len(wire[c])
          BY DEF TypeOK, OneRequestInv, ClientInv
        <5> QED BY <4>3, <5>1
      <4>5. Least(io[w].n, Room(c)) = RespLen
        BY <4>2, <4>3, <4>4, SizesAssumption DEF Least, Room, OneRequest
      <4>6. io'[w].n = RespLen
        BY <4>1, <4>5 DEF TypeOK
      <4> QED BY <3>1, <3>2, <4>6
    <3> QED BY <3>3, <3>4
  <2>5. CASE CheckOut(w)
    <3>1. task[w] \in Conns
      BY <2>5, InHand DEF CheckOut, Destructor
    <3>2. "OUT" \notin revents[task[w]]
      BY <3>1 DEF OneRequestInv, ClientInv
    <3> QED BY <1>3, <1>p, <2>5, <3>2 DEF CheckOut, Goto
  <2>6. CASE Retrieve(w)
    <3>1. pc[w] = "retrieve" /\ UNCHANGED <<task, made, gone, io>>
      BY <1>3, <1>p, <2>6 DEF Retrieve, Goto
    <3> QED BY <1>s, <3>1 DEF AnswerInv
  <2>7. CASE WorkerStep(w) /\ ~(Parse(w) \/ View(w) \/ Write(w) \/ CheckOut(w) \/ Retrieve(w))
    BY <1>3, <1>p, <2>7 DEF WorkerStep, Destroy, RemoveChannel, Cancel, CloseFd, Dequeue,
       HandleEvents, Adjust, Read, Left, Modify, AfterWrite, Close, CheckErr, Goto, LetGo
  <2> QED BY <2>1, <2>2, <2>3, <2>4, <2>5, <2>6, <2>7
<1>4. ASSUME NEW w \in Workers, pc'[w] \in {"left", "done"}
      PROVE  made'[task'[w]] = 1 /\ Unsent(task[w])' = 0
  <2>1. CASE ~WorkerStep(w)
    <3>1. pc[w] = pc'[w]
      BY <1>s, <2>1, OthersKeep
    <3>2. /\ task'[w] = task[w]
          /\ made'[task[w]] = made[task[w]] /\ gone'[task[w]] = gone[task[w]]
      BY <1>4, <1>s, <2>1, <3>1, OthersKeep DEF Destructor
    <3>3. made[task[w]] = 1 /\ Unsent(task[w]) = 0
      BY <1>4, <1>s, <3>1 DEF AnswerInv
    <3> QED BY <3>2, <3>3 DEF Unsent, Total
  <2>2. CASE Retrieve(w)
    <3>1. PICK c \in Conns : c = task[w] /\ pc[w] = "retrieve"
      BY <2>2, InHand DEF Retrieve, Destructor
    <3>2. made[c] = 1 /\ gone[c] = 0 /\ io[w].n = RespLen
      BY <1>s, <3>1 DEF AnswerInv
    <3>3. UNCHANGED <<task, made>> /\ gone' = [gone EXCEPT ![c] = @ + io[w].n]
      BY <1>4, <1>p, <2>2, <3>1 DEF Retrieve, Retrieved, Goto
    <3>4. gone'[c] = RespLen
      BY <3>2, <3>3, SizesAssumption DEF TypeOK
    <3> QED BY <3>1, <3>2, <3>3, <3>4, SizesAssumption DEF Unsent, Total
  <2>3. CASE Left(w)
    <3>1. pc[w] = "left" /\ UNCHANGED <<task, made, gone>>
      BY <2>3 DEF Left
    <3>2. made[task[w]] = 1 /\ Unsent(task[w]) = 0
      BY <1>s, <3>1 DEF AnswerInv
    <3> QED BY <3>1, <3>2 DEF Unsent, Total
  <2>4. CASE WorkerStep(w) /\ ~Retrieve(w) /\ ~Left(w)
    BY <1>4, <1>p, <2>4 DEF WorkerStep, Destroy, RemoveChannel, Cancel, CloseFd, Dequeue,
       HandleEvents, Adjust, Read, Parse, Answer, View, Write, Modify, AfterWrite, Close,
       CheckOut, CheckErr, Crash, Goto, LetGo
  <2> QED BY <2>1, <2>2, <2>3, <2>4
<1>5. ASSUME NEW w \in Workers PROVE pc'[w] # "more"
  <2>1. pc[w] # "more"
    BY <1>s DEF AnswerInv
  <2>2. CASE ~WorkerStep(w)
    BY <1>s, <2>1, <2>2, OthersKeep
  <2>3. CASE Left(w)
    <3>1. Unsent(task[w]) = 0
      BY <1>s, <2>3 DEF Left, AnswerInv
    <3> QED BY <1>p, <2>3, <3>1 DEF Left, Goto
  <2>4. CASE WorkerStep(w) /\ ~Left(w)
    BY <1>p, <2>1, <2>4 DEF WorkerStep, Destroy, RemoveChannel, Cancel, CloseFd, Dequeue,
       HandleEvents, Adjust, Read, Parse, Answer, View, Write, Retrieve, Modify, AfterWrite,
       Close, CheckOut, CheckErr, Crash, Goto, LetGo
  <2> QED BY <2>2, <2>3, <2>4
<1> QED BY <1>1, <1>2, <1>3, <1>4, <1>5 DEF AnswerInv

(***************************************************************************)
(* What follows for the connections.                                       *)
(***************************************************************************)

\* At the start nothing was reported, answered or closed.

LEMMA AnswersStart == Init => OneRequestInv /\ WireInv /\ ClosingInv
<1> SUFFICES ASSUME Init PROVE OneRequestInv /\ WireInv /\ ClosingInv
  OBVIOUS
<1>p. Main \in Threads /\ Workers \subseteq Threads /\ Main \notin Workers /\ None \notin Conns
  BY NamesAssumption DEF Threads
<1>1. \A w \in Workers : pc[w] = "idle" /\ task[w] = None
  BY <1>p DEF Init
<1>2. \A c \in Conns : /\ ~Reported(c) /\ ~Queued(c) /\ \A w \in Workers : ~Busy(w, c)
                       /\ Apart(c) /\ wants[c] = {"IN"} /\ events[c] = {}
                       /\ armed[c] = {} /\ revents[c] = {} /\ peer[c] = "open"
                       /\ sent[c] = 0 /\ rcvd[c] = 0 /\ made[c] = 0 /\ gone[c] = 0
                       /\ drained[c] = 0 /\ wire[c] = <<>>
  BY <1>1, <1>p DEF Init, NoEvents, Reported, Passing, Apart, Queued, Busy
<1>3. RouteInv
  <2>1. queue = <<>>
    BY DEF Init
  <2> QED BY <1>2, <2>1 DEF RouteInv, Serial
<1>4. LoopInv
  BY <1>2 DEF LoopInv, StationInv, Init
<1>5. ArmedInv
  BY <1>2 DEF ArmedInv
<1>6. ClientInv
  BY <1>2, SizesAssumption DEF ClientInv
<1>7. AnswerInv
  BY <1>1, <1>2 DEF AnswerInv
<1>8. WireInv
  BY <1>1, <1>2 DEF WireInv, WireOf
<1>9. ClosingInv
  BY <1>1, <1>2 DEF ClosingInv
<1> QED BY <1>3, <1>4, <1>5, <1>6, <1>7, <1>8, <1>9 DEF OneRequestInv

\* The invariant of clients with one request each.
LEMMA AnswersInvariant == OneRequest => (Spec => [](OneRequestInv /\ WireInv))
<1> SUFFICES ASSUME OneRequest PROVE Spec => [](OneRequestInv /\ WireInv)
  OBVIOUS
<1>1. TypeOK /\ OwnInv /\ OneRequestInv /\ WireInv /\ [Next]_vars => (OneRequestInv /\ WireInv)'
  BY RouteStep, ClientKeeps, AnswerStep, WireStep DEF OneRequestInv, RouteInv
<1> QED BY <1>1, AnswersStart, Invariance, PTL DEF Spec

\* With one worker, or one request for each connection, no two workers are
\* busy with the same connection.
LEMMA SerialInvariant == OneWorker \/ OneRequest => (Spec => []Serial)
<1>1. ASSUME OneWorker PROVE Spec => []Serial
  <2>1. Serial
    BY <1>1 DEF OneWorker, Serial
  <2> QED BY <2>1, PTL
<1>2. ASSUME OneRequest PROVE Spec => []Serial
  <2>1. OneRequestInv => Serial
    BY DEF OneRequestInv, RouteInv
  <2>2. Spec => [](OneRequestInv /\ WireInv)
    BY <1>2, AnswersInvariant
  <2> QED BY <2>1, <2>2, PTL
<1> QED BY <1>1, <1>2

\* Nor is a byte of its answers lost or doubled.

LEMMA WireInvariant == OneWorker \/ OneRequest => (Spec => [](Serial /\ WireInv /\ ClosingInv))
<1> SUFFICES ASSUME OneWorker \/ OneRequest PROVE Spec => [](Serial /\ WireInv /\ ClosingInv)
  OBVIOUS
<1>1. TypeOK /\ OwnInv /\ Serial /\ WireInv /\ ClosingInv /\ [Next]_vars => (WireInv /\ ClosingInv)'
  BY WireStep, ClosingStep
<1> QED BY <1>1, AnswersStart, SerialInvariant, Invariance, PTL DEF Spec

\* EPOLLONESHOT does what it is there for while clients send one request each
\* and answers fit the send buffer: from the report of an event to the end of
\* its handler a connection is with one thread (http_conn.h:24).
THEOREM OneAtATime == OneRequest => (Spec => []OneHandler)
<1> SUFFICES ASSUME OneRequest PROVE Spec => []OneHandler
  OBVIOUS
<1>1. RouteInv /\ TypeOK => OneHandler
  <2> SUFFICES ASSUME RouteInv, TypeOK, NEW c \in Conns PROVE InFlight(c) <= 1
    BY DEF OneHandler
  <2> DEFINE W == {w \in Workers : Busy(w, c)}
             Q == {i \in 1 .. Len(queue) : queue[i] = c}
  <2>0. Cardinality({}) = 0 /\ \A x : Cardinality({x}) = 1
    BY FS_EmptySet, FS_Singleton
  <2>1. Cardinality(W) = 0 \/ (Cardinality(W) = 1 /\ W # {})
    <3>1. W = {} \/ \E w : W = {w}
      BY DEF RouteInv, Serial
    <3> QED BY <2>0, <3>1
  <2>2. Cardinality(Q) = 0 \/ (Cardinality(Q) = 1 /\ Q # {})
    <3>1. \A i, j \in Q : i = j
      BY DEF RouteInv
    <3>2. Q = {} \/ \E i : Q = {i}
      <4> HIDE DEF Q
      <4> QED BY <3>1
    <3> QED BY <2>0, <3>2
  <2>3. W # {} => Q = {} /\ ~Reported(c)
    BY DEF RouteInv, Queued
  <2>4. Q # {} => W = {} /\ ~Reported(c)
    BY DEF RouteInv, Queued
  <2>5. InFlight(c) = Cardinality(W) + Cardinality(Q) + (IF Reported(c) THEN 1 ELSE 0)
    BY DEF InFlight, Reported
  <2> HIDE DEF W, Q
  <2> QED BY <2>0, <2>1, <2>2, <2>3, <2>4, <2>5
<1> QED BY <1>1, AnswersInvariant, TypeCorrect, PTL DEF OneRequestInv

\* The loop never dereferences the channel of a destroyed connection while
\* clients send one request each: whatever it has yet to dispatch is still in
\* users_, timeouts included (server.cpp:89).
THEOREM NoneDangling == OneRequest => (Spec => []NoDanglingChannel)
<1> SUFFICES ASSUME OneRequest PROVE Spec => []NoDanglingChannel
  OBVIOUS
<1>1. Init => NoDanglingChannel
  BY DEF Init, NoDanglingChannel
<1>2. TypeOK /\ OwnInv /\ OneRequestInv /\ NoDanglingChannel /\ [Next]_vars => NoDanglingChannel'
  <2> SUFFICES ASSUME TypeOK, OwnInv, OneRequestInv, NoDanglingChannel, [Next]_vars
               PROVE  NoDanglingChannel'
    OBVIOUS
  <2> USE DEF threadVars, poolVars, loopVars, mainVars, connVars, mapVars, dataVars
  <2>1. \A c \in Conns : Reported(c) => obj[c] = "live"
    <3> SUFFICES ASSUME NEW c \in Conns, Reported(c) PROVE obj[c] = "live"
      OBVIOUS
    <3>1. users[fdOf[c]] = c /\ c # None
      BY NamesAssumption DEF OneRequestInv, LoopInv
    <3>2. fdOf[c] # None
      <4>1. CASE events[c] # {} \/ c \in batch
        BY <4>1 DEF OwnInv, ChannelInv
      <4>2. CASE cur = c
        BY <3>1, <4>2 DEF OneRequestInv, LoopInv, StationInv, OwnInv, ChannelInv
      <4>3. CASE Passing(c)
        BY <3>1, <4>3 DEF Passing, OwnInv, HoldInv, FdInv, Destructor
      <4> QED BY <4>1, <4>2, <4>3 DEF Reported
    <3>3. fdOf[c] \in Fds
      BY <3>2 DEF TypeOK
    <3> QED BY <3>1, <3>3 DEF OwnInv, UsersInv
  <2>2. CASE Dispatch
    <3>1. \A x \in batch : x # Listen => obj[x] = "live"
      BY <2>1 DEF TypeOK, Reported
    <3> QED BY <2>2, <3>1 DEF Dispatch, NoDanglingChannel
  <2>3. ASSUME NEW c \in Conns, SetRevents(c) PROVE NoDanglingChannel'
    <3>1. obj[c] = "live"
      BY <2>1, <2>3 DEF SetRevents, Reported
    <3> QED BY <2>3, <3>1 DEF SetRevents, NoDanglingChannel
  <2>4. CASE ~Dispatch /\ ~\E c \in Conns : SetRevents(c)
    BY <2>4 DEF NoDanglingChannel, Next, MainStep, WorkerStep, Environment, Destroy, Tick,
       Callback, NextTick, Poll, PollTimeout, PollDone, BatchDone, Lookup, Enqueue, Release,
       Accept, AcceptStop, RemoveChannel, Cancel, CloseFd, Dequeue, HandleEvents, Adjust, Read,
       Parse, Answer, View, Write, Retrieve, Left, Modify, Close, CheckOut, CheckErr, Connect,
       Send, Drain, Hangup, Expire, vars, Crash
  <2> QED BY <2>2, <2>3, <2>4
<1> QED BY <1>1, <1>2, AnswersInvariant, Invariance, PTL DEF Spec

\* With one worker, whatever clients do and however small the send buffer, or
\* with one request for each connection, the client receives the units of its
\* answers in order, each once.
THEOREM WireWhole == OneWorker \/ OneRequest => (Spec => []WireIntegrity)
<1> SUFFICES ASSUME OneWorker \/ OneRequest PROVE Spec => []WireIntegrity
  OBVIOUS
<1>1. TypeOK /\ OwnInv /\ Serial /\ WireInv => WireIntegrity
  <2> SUFFICES ASSUME TypeOK, OwnInv, Serial, WireInv, NEW c \in Conns
               PROVE  /\ Len(wire[c]) <= Total(c)
                      /\ \A i \in 1 .. Len(wire[c]) : wire[c][i] = i
    BY DEF WireIntegrity
  <2>1. WireOf(c)
    BY DEF WireInv
  <2>2. CASE \E w \in Workers : task[w] = c /\ pc[w] = "retrieve"
    <3>1. PICK w \in Workers : task[w] = c /\ pc[w] = "retrieve"
      BY <2>2
    <3>2. io[w].n <= Unsent(c) /\ Len(wire[c]) = gone[c] + io[w].n /\ io[w].n \in Nat
      BY <2>1, <3>1 DEF WireOf, TypeOK
    <3> QED BY <2>1, <3>2, UnsentType DEF WireOf
  <2>3. CASE ~(\E w \in Workers : task[w] = c /\ pc[w] = "retrieve")
    <3>1. Len(wire[c]) = gone[c]
      BY <2>1, <2>3 DEF WireOf
    <3> QED BY <2>1, <3>1, UnsentType DEF WireOf
  <2> QED BY <2>2, <2>3
<1> QED BY <1>1, WireInvariant, Invariance, PTL

\* Under the same condition a handler closes only behind the whole answer,
\* or because the client went away.
THEOREM NothingTruncated == OneWorker \/ OneRequest => (Spec => NoTruncatedResponse)
<1> SUFFICES ASSUME OneWorker \/ OneRequest PROVE Spec => NoTruncatedResponse
  OBVIOUS
<1> DEFINE Whole == \A w \in Workers : LET c == task[w] IN
             pc[w] = "close" /\ pc'[w] # "close" /\ peer[c] = "open" => Len(wire[c]) = Total(c)
<1>1. TypeOK /\ OwnInv /\ Serial /\ WireInv /\ ClosingInv => Whole
  <2> SUFFICES ASSUME TypeOK, OwnInv, Serial, WireInv, ClosingInv, NEW w \in Workers,
                      pc[w] = "close", peer[task[w]] = "open"
               PROVE  Len(wire[task[w]]) = Total(task[w])
    OBVIOUS
  <2>1. PICK c \in Conns : c = task[w] /\ Unsent(c) = 0
    BY InHand DEF ClosingInv, Destructor
  <2>2. \A v \in Workers : v # w /\ task[v] = c => pc[v] = "idle"
    BY <2>1, InHand DEF Destructor
  <2>3. Len(wire[c]) = gone[c]
    BY <2>1, <2>2 DEF WireInv, WireOf
  <2> QED BY <2>1, <2>3, UnsentType
<1> QED BY <1>1, WireInvariant, Invariance, PTL DEF NoTruncatedResponse

\* Retrieve's assertion fails only because two workers share a connection:
\* under the same condition it holds (buffer.cpp:25).
THEOREM AssertHolds == OneWorker \/ OneRequest => (Spec => []RetrieveAssertHolds)
<1> SUFFICES ASSUME OneWorker \/ OneRequest PROVE Spec => []RetrieveAssertHolds
  OBVIOUS
<1>1. Init => RetrieveAssertHolds
  BY DEF Init, RetrieveAssertHolds
<1>2. TypeOK /\ OwnInv /\ Serial /\ WireInv /\ RetrieveAssertHolds /\ [Next]_vars
        => RetrieveAssertHolds'
  <2> SUFFICES ASSUME TypeOK, OwnInv, Serial, WireInv, RetrieveAssertHolds, [Next]_vars
               PROVE  RetrieveAssertHolds'
    OBVIOUS
  <2> USE DEF threadVars, poolVars, loopVars, mainVars, connVars, mapVars, dataVars
  <2>1. ASSUME NEW w \in Workers, Retrieve(w) PROVE RetrieveAssertHolds'
    BY <2>1, WireRetrieve DEF RetrieveAssertHolds
  <2>2. CASE ~(\E w \in Workers : Retrieve(w))
    BY <2>2 DEF RetrieveAssertHolds, Next, MainStep, WorkerStep, Environment, Destroy, Tick,
       Callback, NextTick, Poll, PollTimeout, SetRevents, PollDone, Dispatch, BatchDone, Lookup,
       Enqueue, Release, Accept, AcceptStop, RemoveChannel, Cancel, CloseFd, Dequeue,
       HandleEvents, Adjust, Read, Parse, Answer, View, Write, Left, Modify, Close, CheckOut,
       CheckErr, Connect, Send, Drain, Hangup, Expire, vars, Crash
  <2> QED BY <2>1, <2>2
<1> QED BY <1>1, <1>2, WireInvariant, Invariance, PTL DEF Spec
=============================================================================
