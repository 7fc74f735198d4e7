------------------------------- MODULE Server -------------------------------
(***************************************************************************)
(* The connection life cycle of the web server: the Reactor loop of        *)
(* server.cpp (Server::run on the main thread), the workers of             *)
(* threadpool.h that run channel::handle_events, the handlers and the      *)
(* destructor of HttpConn, the timer map of heap_timer.cpp, and, as the    *)
(* code uses them, epoll (edge triggered, one shot), the listening socket  *)
(* and the clients.  One action per access to state another thread shares. *)
(*                                                                         *)
(* Data is counted, never spelled out: a request is Segs segments, a       *)
(* response is RespLen units, the units of a connection are numbered in    *)
(* the order in which they enter its write buffer.                         *)
(***************************************************************************)
EXTENDS Naturals, Sequences, FiniteSets

CONSTANTS
  Conns,        \* every HttpConn ever made; each is created at most once
  Fds,          \* the file descriptors accept4 may return
  Workers,      \* the threads of the pool
  Main,         \* the thread that runs Server::run
  Listen,       \* the listening channel
  None,         \* a null shared_ptr, an absent timer, no connection
  RespLen,      \* units of one response
  SndBuf,       \* units the socket send buffer takes
  Segs,         \* segments of one request
  MaxRequests,  \* requests a client may send on one connection (bound)
  QueueCap,     \* capacity of the task queue
  Indigestible, \* the connections whose requests Parse may never be done with
  Polite,       \* clients wait for the server to close; none resets
  Timeouts      \* connections may stay idle until their timer expires

ASSUME NamesAssumption ==
  /\ Main \notin Workers
  /\ None \notin Conns \cup Fds
  /\ Listen \notin Conns \cup {None}
  /\ Indigestible \subseteq Conns

ASSUME SizesAssumption ==
  /\ {RespLen, SndBuf, Segs, MaxRequests, QueueCap} \subseteq Nat \ {0}
  /\ {Polite, Timeouts} \subseteq BOOLEAN

Threads == Workers \cup {Main}

VARIABLES
  pc,         \* where each thread is
  ret,        \* where a worker goes when HandleWrite or HandleClose returns
  io,         \* the view (then the result) of a worker's write: [from, n]
  dying,      \* the HttpConn whose destructor a thread is running
  queue,      \* the pool's task queue: the captured conn_ptr of each task
  task,       \* the conn_ptr captured by the task a worker last dequeued
  events,     \* epoll_events_: what epoll_wait reported, not yet in a channel
  batch,      \* active_channels still to be dispatched
  cur,        \* the channel being dispatched
  hold,       \* the conn_ptr the main thread holds: the lookup's, its future's
  fired,      \* the connection whose timer tick() popped, callback pending
  obj,        \* life of each HttpConn
  fdOf,       \* its fd_
  wants,      \* its channel's events_
  armed,      \* the events of its epoll registration, {} once the shot is used
  revents,    \* its channel's real_events_
  users,      \* users_: fd -> shared_ptr<HttpConn>
  timer,      \* heap_/ref_ of the timer: fd -> the connection it was set for
  due,        \* the fds whose timer has expired
  listenEdge, \* an edge of the listening socket is pending
  sent,       \* segments the client sent
  rcvd,       \* segments HandleRead read
  made,       \* responses appended to write_buffer_
  gone,       \* units retrieved from write_buffer_
  wire,       \* units handed to the socket, in order
  drained,    \* units the client received
  peer,       \* what the client did to its end: "open", "fin", "reset"
  fault       \* how the process died, "none" while it runs

threadVars == <<pc, ret, io, dying>>
poolVars   == <<queue, task>>
loopVars   == <<events, batch, cur, hold>>
mainVars   == <<loopVars, fired>>
connVars   == <<obj, fdOf, wants, armed, revents>>
mapVars    == <<users, timer, due>>
dataVars   == <<sent, rcvd, made, gone, wire, drained, peer>>
vars == <<pc, ret, io, dying, queue, task, events, batch, cur, hold, fired,
          obj, fdOf, wants, armed, revents, users, timer, due, listenEdge,
          sent, rcvd, made, gone, wire, drained, peer, fault>>

Destructor == {"remove", "cancel", "closefd"}
MainPcs    == {"tick", "callback", "poll", "block", "revents", "dispatch",
               "lookup", "enqueue", "release", "accept"} \cup Destructor
WorkerPcs  == {"idle", "events", "adjust", "read", "parse", "spin", "view",
               "write", "retrieve", "left", "more", "done", "close", "out",
               "err"} \cup Destructor

Events == {"IN", "OUT", "ERR"}
NoEvents == [c \in Conns |-> {}]

Init ==
  /\ pc = [t \in Threads |-> IF t = Main THEN "tick" ELSE "idle"]
  /\ ret = [w \in Workers |-> "idle"]
  /\ io = [w \in Workers |-> [from |-> 0, n |-> 0]]
  /\ dying = [t \in Threads |-> None]
  /\ queue = <<>>
  /\ task = [w \in Workers |-> None]
  /\ events = NoEvents /\ batch = {} /\ cur = None /\ hold = None
  /\ fired = None
  /\ obj = [c \in Conns |-> "unborn"]
  /\ fdOf = [c \in Conns |-> None]
  /\ wants = [c \in Conns |-> {"IN"}]
  /\ armed = NoEvents /\ revents = NoEvents
  /\ users = [f \in Fds |-> None]
  /\ timer = [f \in Fds |-> None]
  /\ due = {}
  /\ listenEdge = FALSE
  /\ sent = [c \in Conns |-> 0]
  /\ rcvd = [c \in Conns |-> 0]
  /\ made = [c \in Conns |-> 0]
  /\ gone = [c \in Conns |-> 0]
  /\ wire = [c \in Conns |-> <<>>]
  /\ drained = [c \in Conns |-> 0]
  /\ peer = [c \in Conns |-> "open"]
  /\ fault = "none"

(***************************************************************************)
(* Shared helpers.                                                         *)
(***************************************************************************)

\* Thread t goes on at l.
Goto(t, l) == pc' = [pc EXCEPT ![t] = l]

\* The process dies: what other threads would do next no longer matters.
Crash(how) == fault' = how

\* Mutant: tasks capture a raw pointer.
Referenced_RawPointer(c, u, q, tk, h) == \E f \in Fds : u[f] = c

\* Some shared_ptr owns c: users_, a queued task, a task a worker retains or
\* the main thread.
Referenced(c, u, q, tk, h) ==
  \/ \E f \in Fds : u[f] = c
  \/ \E i \in 1 .. Len(q) : q[i] = c
  \/ \E w \in Workers : tk[w] = c
  \/ h = c

\* Thread t lets go of a reference to c (None: of nothing); when it was the
\* last one t runs ~HttpConn before it goes on at l.
LetGo(t, c, u, q, tk, h, l) ==
  IF c # None /\ ~Referenced(c, u, q, tk, h)
    THEN /\ obj' = [obj EXCEPT ![c] = "dying"]
         /\ dying' = [dying EXCEPT ![t] = c]
         /\ Goto(t, "remove")
    ELSE /\ Goto(t, l)
         /\ UNCHANGED <<obj, dying>>

Open(c)   == obj[c] \in {"live", "dying"}
FreeFds   == {f \in Fds : \A c \in Conns : Open(c) => fdOf[c] # f}
Total(c)  == made[c] * RespLen

\* Mutant: operands swapped.
Unsent_Swapped(c) == gone[c] - Total(c)

\* readable_bytes() of the write buffer.
Unsent(c) == Total(c) - gone[c]

Room(c)   == SndBuf - (Len(wire[c]) - drained[c])

\* mutex_ is held across steps only while the timer callback's erase runs
\* ~HttpConn (the one for hold runs without it); every other critical
\* section is one action.
MutexFree == pc[Main] \in Destructor => hold # None

(***************************************************************************)
(* The main thread: Server::run.                                           *)
(***************************************************************************)

\* GetNextTick calls tick(): pop one expired timer under the timer's lock ...
Tick ==
  /\ pc[Main] = "tick"
  /\ \E f \in due :
       /\ fired' = timer[f]
       /\ timer' = [timer EXCEPT ![f] = None]
       /\ due' = due \ {f}
  /\ Goto(Main, "callback")
  /\ UNCHANGED <<ret, io, dying, poolVars, loopVars, connVars, users,
                 listenEdge, dataVars, fault>>

\* Mutant: the callback forgets the entry.
TimeoutErase_Forgotten(c) == users

\* The entry the timer callback of connection c leaves in users_.
TimeoutErase(c) == [users EXCEPT ![fdOf[c]] = None]

\* ... and run its callback outside that lock: users_.erase(client_fd).
Callback ==
  /\ pc[Main] = "callback"
  /\ users' = TimeoutErase(fired)
  /\ fired' = None
  /\ LetGo(Main, users[fdOf[fired]], TimeoutErase(fired), queue, task, hold, "tick")
  /\ UNCHANGED <<ret, io, poolVars, loopVars, fdOf, wants, armed, revents,
                 timer, due, listenEdge, dataVars, fault>>

\* Nothing (more) expired: GetNextTick returns the wait, or -1 without timers.
NextTick ==
  /\ pc[Main] = "tick" /\ due = {}
  /\ Goto(Main, IF \E f \in Fds : timer[f] # None THEN "poll" ELSE "block")
  /\ UNCHANGED <<ret, io, dying, poolVars, mainVars, connVars, mapVars,
                 listenEdge, dataVars, fault>>

\* What the socket of c is ready for.
Ready(c) ==
     (IF rcvd[c] < sent[c] \/ peer[c] # "open" THEN {"IN"} ELSE {})
  \cup (IF Room(c) > 0 \/ peer[c] = "reset" THEN {"OUT"} ELSE {})
  \cup (IF peer[c] = "reset" THEN {"ERR"} ELSE {})

\* What epoll_wait reports of c: a disarmed registration reports nothing,
\* an armed one always reports an error.
Report(c) == IF armed[c] = {} THEN {} ELSE Ready(c) \cap (armed[c] \cup {"ERR"})

Active == {c \in Conns : Report(c) # {}}

\* Mutant: enable_oneshot() forgotten.
Disarmed_NoOneshot == armed

\* EPOLLONESHOT: reporting c uses up its registration.
Disarmed == [c \in Conns |-> IF c \in Active THEN {} ELSE armed[c]]

\* Epoller::Poll: epoll_wait fills epoll_events_ with every ready channel ...
Poll ==
  /\ pc[Main] \in {"poll", "block"}
  /\ Active # {} \/ listenEdge
  /\ events' = [c \in Conns |-> Report(c)]
  /\ armed' = Disarmed
  /\ batch' = IF listenEdge THEN {Listen} ELSE {}
  /\ listenEdge' = FALSE
  /\ Goto(Main, "revents")
  /\ UNCHANGED <<ret, io, dying, poolVars, cur, hold, fired, obj, fdOf, wants,
                 revents, mapVars, dataVars, fault>>

\* ... and each is told its events through its raw pointer, and becomes active.
SetRevents(c) ==
  /\ pc[Main] = "revents" /\ events[c] # {}
  /\ \/ /\ obj[c] = "dead" /\ Crash("dangling")
        /\ UNCHANGED <<events, batch, revents>>
     \/ /\ obj[c] # "dead"
        /\ revents' = [revents EXCEPT ![c] = events[c]]
        /\ events' = [events EXCEPT ![c] = {}]
        /\ batch' = batch \cup {c}
        /\ UNCHANGED fault
  /\ UNCHANGED <<threadVars, poolVars, cur, hold, fired, obj, fdOf, wants,
                 armed, mapVars, listenEdge, dataVars>>

PollDone ==
  /\ pc[Main] = "revents" /\ events = NoEvents
  /\ Goto(Main, "dispatch")
  /\ UNCHANGED <<ret, io, dying, poolVars, mainVars, connVars, mapVars,
                 listenEdge, dataVars, fault>>

\* epoll_wait times out: the first deadline has come.
PollTimeout ==
  /\ pc[Main] = "poll" /\ Timeouts
  /\ Goto(Main, "tick")
  /\ UNCHANGED <<ret, io, dying, poolVars, mainVars, connVars, mapVars,
                 listenEdge, dataVars, fault>>

\* The loop over active_channels; get_fd() of a connection that has been
\* destroyed since Poll reads freed memory.
Dispatch ==
  /\ pc[Main] = "dispatch"
  /\ \E x \in batch :
       /\ batch' = batch \ {x}
       /\ IF x = Listen
            THEN Goto(Main, "accept") /\ UNCHANGED <<cur, fault>>
            ELSE IF obj[x] = "dead"
              THEN Crash("dangling") /\ UNCHANGED <<pc, cur>>
              ELSE cur' = x /\ Goto(Main, "lookup") /\ UNCHANGED fault
  /\ UNCHANGED <<ret, io, dying, poolVars, events, hold, fired, connVars,
                 mapVars, listenEdge, dataVars>>

BatchDone ==
  /\ pc[Main] = "dispatch" /\ batch = {}
  /\ Goto(Main, "tick")
  /\ UNCHANGED <<ret, io, dying, poolVars, mainVars, connVars, mapVars,
                 listenEdge, dataVars, fault>>

\* users_[channel->get_fd()], read without mutex_, is copied into the task.
Lookup ==
  /\ pc[Main] = "lookup"
  /\ hold' = users[fdOf[cur]]
  /\ cur' = None
  /\ Goto(Main, "enqueue")
  /\ UNCHANGED <<ret, io, dying, poolVars, events, batch, fired, connVars,
                 mapVars, listenEdge, dataVars, fault>>

\* A full queue makes threadpool::enqueue throw, which nothing catches.
Enqueue ==
  /\ pc[Main] = "enqueue"
  /\ IF Len(queue) = QueueCap
       THEN Crash("terminate") /\ UNCHANGED <<pc, queue>>
       ELSE /\ queue' = Append(queue, hold)
            /\ Goto(Main, "release")
            /\ UNCHANGED fault
  /\ UNCHANGED <<ret, io, dying, task, mainVars, connVars, mapVars,
                 listenEdge, dataVars>>

\* The task's shared_ptr and its future die with the statement, maybe after
\* the task; hold stays as long as the destructor it may start runs.
Release ==
  /\ pc[Main] = "release"
  /\ LetGo(Main, hold, users, queue, task, None, "dispatch")
  /\ hold' = dying'[Main]
  /\ UNCHANGED <<ret, io, poolVars, events, batch, cur, fired, fdOf, wants,
                 armed, revents, mapVars, listenEdge, dataVars, fault>>


\* What HandleNewConnection makes of the timers for connection c on fd f.
AddTimer(f, c) == [timer EXCEPT ![f] = c]

\* Mutant: connections are accepted on a thread of their own.
AcceptTurn_OwnThread == TRUE

\* run() calls the listening channel's handler itself, between two ticks.
AcceptTurn == pc[Main] = "accept"

\* One turn of the accept loop: HttpConn(client_fd), timer_.add, users_[fd].
Accept ==
  /\ AcceptTurn
  /\ \E c \in Conns, f \in FreeFds :
       /\ obj[c] = "backlog"
       /\ obj' = [obj EXCEPT ![c] = "live"]
       /\ fdOf' = [fdOf EXCEPT ![c] = f]
       /\ armed' = [armed EXCEPT ![c] = {"IN"}]
       /\ timer' = AddTimer(f, c)
       /\ due' = due \ {f}
       /\ users' = [users EXCEPT ![f] = c]
  /\ UNCHANGED <<threadVars, poolVars, mainVars, wants, revents, listenEdge,
                 dataVars, fault>>

\* EAGAIN (backlog empty) or EMFILE (no descriptor left) ends the loop.
AcceptStop ==
  /\ pc[Main] = "accept"
  /\ FreeFds = {} \/ \A c \in Conns : obj[c] # "backlog"
  /\ Goto(Main, "dispatch")
  /\ UNCHANGED <<ret, io, dying, poolVars, mainVars, connVars, mapVars,
                 listenEdge, dataVars, fault>>

(***************************************************************************)
(* ~HttpConn, run by whichever thread drops the last reference.            *)
(***************************************************************************)

RemoveChannel(t) ==
  /\ pc[t] = "remove"
  /\ armed' = [armed EXCEPT ![dying[t]] = {}]
  /\ Goto(t, "cancel")
  /\ UNCHANGED <<ret, io, dying, poolVars, mainVars, obj, fdOf, wants, revents,
                 mapVars, listenEdge, dataVars, fault>>

\* Mutant: the destructor leaves the timer behind.
CancelTimer_Forgotten(f) == timer

\* The timers left by timer_->cancel(fd_).
CancelTimer(f) == [timer EXCEPT ![f] = None]

Cancel(t) ==
  /\ pc[t] = "cancel"
  /\ timer' = CancelTimer(fdOf[dying[t]])
  /\ due' = due \ {fdOf[dying[t]]}
  /\ Goto(t, "closefd")
  /\ UNCHANGED <<ret, io, dying, poolVars, mainVars, connVars, users,
                 listenEdge, dataVars, fault>>

\* close(fd_): the descriptor may be handed out again from here on.
CloseFd(t) ==
  /\ pc[t] = "closefd"
  /\ obj' = [obj EXCEPT ![dying[t]] = "dead"]
  /\ dying' = [dying EXCEPT ![t] = None]
  /\ hold' = IF t = Main THEN None ELSE hold
  /\ Goto(t, IF t # Main THEN "events" ELSE IF hold = None THEN "tick" ELSE "dispatch")
  /\ UNCHANGED <<ret, io, poolVars, events, batch, cur, fired, fdOf, wants,
                 armed, revents, mapVars, listenEdge, dataVars, fault>>

(***************************************************************************)
(* A worker: the loop of threadpool.h and channel::handle_events.          *)
(***************************************************************************)

\* dequeue(task) overwrites the task the worker has kept since its last one:
\* only now does that task's conn_ptr go away.
Dequeue(w) ==
  /\ pc[w] = "idle" /\ queue # <<>>
  /\ LET tk == [task EXCEPT ![w] = Head(queue)] IN
       /\ queue' = Tail(queue)
       /\ task' = tk
       /\ LetGo(w, task[w], users, Tail(queue), tk, hold, "events")
  /\ UNCHANGED <<ret, io, mainVars, fdOf, wants, armed, revents, mapVars,
                 listenEdge, dataVars, fault>>

HandleEvents(w) ==
  /\ pc[w] = "events"
  /\ IF task[w] = None
       THEN Goto(w, "idle") /\ UNCHANGED ret
       ELSE LET r == revents[task[w]] IN
            \/ /\ "IN" \in r
               /\ Goto(w, "adjust") /\ UNCHANGED ret
            \/ /\ "IN" \notin r /\ "ERR" \in r
               /\ Goto(w, "close") /\ ret' = [ret EXCEPT ![w] = "idle"]
            \/ /\ "IN" \notin r /\ "ERR" \notin r
               /\ Goto(w, "out") /\ UNCHANGED ret
  /\ UNCHANGED <<io, dying, poolVars, mainVars, connVars, mapVars,
                 listenEdge, dataVars, fault>>

\* HandleRead: timer_->adjust moves the deadline, if there still is a timer.
Adjust(w) ==
  /\ pc[w] = "adjust"
  /\ due' = due \ {fdOf[task[w]]}
  /\ Goto(w, "read")
  /\ UNCHANGED <<ret, io, dying, poolVars, mainVars, connVars, users, timer,
                 listenEdge, dataVars, fault>>

\* HandleRead: one readv takes all there is; 0 closes, -1 does nothing.
Read(w) ==
  /\ pc[w] = "read"
  /\ LET c == task[w] IN
     \/ /\ rcvd[c] < sent[c]
        /\ rcvd' = [rcvd EXCEPT ![c] = sent[c]]
        /\ Goto(w, "parse") /\ UNCHANGED ret
     \/ /\ rcvd[c] = sent[c] /\ peer[c] = "fin"
        /\ Goto(w, "close") /\ ret' = [ret EXCEPT ![w] = "out"]
        /\ UNCHANGED rcvd
     \/ /\ rcvd[c] = sent[c] /\ peer[c] # "fin"
        /\ Goto(w, "out") /\ UNCHANGED <<ret, rcvd>>
  /\ UNCHANGED <<io, dying, poolVars, mainVars, connVars, mapVars,
                 listenEdge, sent, made, gone, wire, drained, peer, fault>>

\* Another worker holds pointers into the write buffer of c.
BufferInUse(w, c) ==
  \E v \in Workers \ {w} : task[v] = c /\ pc[v] \in {"write", "retrieve"}

\* Mutant: one segment too many is waited for.
Answerable_OffByOne(c) == rcvd[c] > (made[c] + 1) * Segs

\* What Parse has to see of well formed, bodiless requests to be done with one.
Answerable(c) == rcvd[c] >= (made[c] + 1) * Segs

\* HandleRead appends a response, a 400 for what Parse refuses, and writes.
\* Appending while another worker uses the buffer is a data race.
Answer(w, c) ==
  /\ made' = [made EXCEPT ![c] = @ + 1]
  /\ ret' = [ret EXCEPT ![w] = "out"]
  /\ Goto(w, "view")
  /\ \/ UNCHANGED fault
     \/ BufferInUse(w, c) /\ Crash("race")

\* HandleRead: Parse and what follows.  An incomplete request just returns:
\* nothing arms the channel again.  Of a request it cannot digest (malformed,
\* or with a body) Parse makes an error, nothing, or it never returns: its
\* loop goes round over a line it does not consume.
Parse(w) ==
  /\ pc[w] = "parse"
  /\ LET c == task[w] IN
     \/ (Answerable(c) \/ c \in Indigestible) /\ Answer(w, c)
     \/ /\ ~Answerable(c) \/ c \in Indigestible
        /\ Goto(w, "out")
        /\ UNCHANGED <<made, ret, fault>>
     \/ /\ c \in Indigestible
        /\ Goto(w, "spin")
        /\ UNCHANGED <<made, ret, fault>>
  /\ UNCHANGED <<io, dying, poolVars, mainVars, connVars, mapVars,
                 listenEdge, sent, rcvd, gone, wire, drained, peer>>

\* HandleWrite: peek the write buffer; an empty one is left alone.
View(w) ==
  /\ pc[w] = "view"
  /\ LET c == task[w] IN
     IF Unsent(c) = 0
       THEN Goto(w, ret[w]) /\ UNCHANGED io
       ELSE /\ io' = [io EXCEPT ![w] = [from |-> gone[c], n |-> Unsent(c)]]
            /\ Goto(w, "write")
  /\ UNCHANGED <<ret, dying, poolVars, mainVars, connVars, mapVars,
                 listenEdge, dataVars, fault>>

Units(from, n) == [i \in 1 .. n |-> from + i]
Least(a, b) == IF a < b THEN a ELSE b

\* HandleWrite: write(fd_).  EAGAIN returns without arming the channel; a
\* reset connection closes, or raises SIGPIPE, which nothing ignores.
Write(w) ==
  /\ pc[w] = "write"
  /\ LET c == task[w]
         n == Least(io[w].n, Room(c))
     IN \/ /\ peer[c] = "reset"
           /\ \/ Goto(w, "close") /\ UNCHANGED fault
              \/ Crash("sigpipe") /\ UNCHANGED pc
           /\ UNCHANGED <<io, wire>>
        \/ /\ peer[c] # "reset" /\ Room(c) = 0
           /\ Goto(w, ret[w]) /\ UNCHANGED <<io, wire, fault>>
        \/ /\ peer[c] # "reset" /\ Room(c) > 0
           /\ wire' = [wire EXCEPT ![c] = @ \o Units(io[w].from, n)]
           /\ io' = [io EXCEPT ![w].n = n]
           /\ Goto(w, "retrieve") /\ UNCHANGED fault
  /\ UNCHANGED <<ret, dying, poolVars, mainVars, connVars, mapVars,
                 listenEdge, sent, rcvd, made, gone, drained, peer>>

\* Mutant: Retrieve forgotten.
Retrieved_Forgotten(c, n) == gone

\* What write_buffer_.Retrieve(n) leaves.
Retrieved(c, n) == [gone EXCEPT ![c] = @ + n]

\* HandleWrite: Retrieve, which asserts ...
Retrieve(w) ==
  /\ pc[w] = "retrieve"
  /\ LET c == task[w]
     IN IF io[w].n > Unsent(c)
          THEN Crash("assert") /\ UNCHANGED <<pc, gone>>
          ELSE /\ gone' = Retrieved(c, io[w].n)
               /\ Goto(w, "left")
               /\ UNCHANGED fault
  /\ UNCHANGED <<ret, io, dying, poolVars, mainVars, connVars, mapVars,
                 listenEdge, sent, rcvd, made, wire, drained, peer>>

\* Mutant: disable_writing() lost.
Wanted_KeepsOut(c) == wants[c] \cup {"OUT"}

\* The channel's events_ after disable_writing() or enable_writing().
Wanted(c) == IF Unsent(c) = 0 THEN wants[c] \ {"OUT"} ELSE wants[c] \cup {"OUT"}

\* ... reads readable_bytes() and turns the interest in writing on or off ...
Left(w) ==
  /\ pc[w] = "left"
  /\ LET c == task[w] IN
       /\ wants' = [wants EXCEPT ![c] = Wanted(c)]
       /\ Goto(w, IF Unsent(c) = 0 THEN "done" ELSE "more")
  /\ UNCHANGED <<ret, io, dying, poolVars, mainVars, obj, fdOf, armed, revents,
                 mapVars, listenEdge, dataVars, fault>>

\* Mutant: no modify_channel after a partial write.
Rearm_Forgotten(w) == IF pc[w] = "done" THEN wants[task[w]] ELSE {}

\* What modify_channel arms the registration for.
Rearm(w) == wants[task[w]]

\* Mutant: closed after any write.
AfterWrite_AlwaysCloses(w) == "close"

\* An emptied buffer closes: is_keep_alive_ is never set.
AfterWrite(w) == IF pc[w] = "done" THEN "close" ELSE ret[w]

\* ... arms the channel again, and closes once the buffer is empty.
Modify(w) ==
  /\ pc[w] \in {"more", "done"}
  /\ armed' = [armed EXCEPT ![task[w]] = Rearm(w)]
  /\ Goto(w, AfterWrite(w))
  /\ UNCHANGED <<ret, io, dying, poolVars, mainVars, obj, fdOf, wants, revents,
                 mapVars, listenEdge, dataVars, fault>>

\* HandleClose: users_.erase(client_fd) under mutex_, which the lookup of
\* the main thread does not take.
Close(w) ==
  /\ pc[w] = "close" /\ MutexFree
  /\ users' = [users EXCEPT ![fdOf[task[w]]] = None]
  /\ Goto(w, ret[w])
  /\ \/ UNCHANGED fault
     \/ pc[Main] = "lookup" /\ Crash("race")
  /\ UNCHANGED <<ret, io, dying, poolVars, mainVars, connVars, timer, due,
                 listenEdge, dataVars>>

\* handle_events reads real_events_ again after the read callback ...
CheckOut(w) ==
  /\ pc[w] = "out"
  /\ \/ /\ "OUT" \in revents[task[w]]
        /\ ret' = [ret EXCEPT ![w] = "err"]
        /\ Goto(w, "view")
     \/ /\ "OUT" \notin revents[task[w]]
        /\ Goto(w, "err") /\ UNCHANGED ret
  /\ UNCHANGED <<io, dying, poolVars, mainVars, connVars, mapVars,
                 listenEdge, dataVars, fault>>

\* ... and once more after the write callback.
CheckErr(w) ==
  /\ pc[w] = "err"
  /\ \/ /\ "ERR" \in revents[task[w]]
        /\ ret' = [ret EXCEPT ![w] = "idle"]
        /\ Goto(w, "close")
     \/ /\ "ERR" \notin revents[task[w]]
        /\ Goto(w, "idle") /\ UNCHANGED ret
  /\ UNCHANGED <<io, dying, poolVars, mainVars, connVars, mapVars,
                 listenEdge, dataVars, fault>>

(***************************************************************************)
(* The clients, the kernel's side of the sockets, and time.                *)
(***************************************************************************)

Connect(c) ==
  /\ obj[c] = "unborn"
  /\ obj' = [obj EXCEPT ![c] = "backlog"]
  /\ listenEdge' = TRUE
  /\ UNCHANGED <<threadVars, poolVars, mainVars, fdOf, wants, armed, revents,
                 mapVars, dataVars, fault>>

Connected(c) == obj[c] = "backlog" \/ Open(c)

Send(c) ==
  /\ Connected(c) /\ peer[c] = "open"
  /\ sent[c] < Segs * MaxRequests
  /\ sent' = [sent EXCEPT ![c] = @ + 1]
  /\ UNCHANGED <<threadVars, poolVars, mainVars, connVars, mapVars,
                 listenEdge, rcvd, made, gone, wire, drained, peer, fault>>

Drain(c) ==
  /\ peer[c] # "reset" /\ drained[c] < Len(wire[c])
  /\ drained' = [drained EXCEPT ![c] = @ + 1]
  /\ UNCHANGED <<threadVars, poolVars, mainVars, connVars, mapVars,
                 listenEdge, sent, rcvd, made, gone, wire, peer, fault>>

Hangup(c) ==
  /\ ~Polite /\ Connected(c)
  /\ \/ peer[c] = "open" /\ peer' = [peer EXCEPT ![c] = "fin"]
     \/ peer[c] # "reset" /\ peer' = [peer EXCEPT ![c] = "reset"]
  /\ UNCHANGED <<threadVars, poolVars, mainVars, connVars, mapVars,
                 listenEdge, sent, rcvd, made, gone, wire, drained, fault>>

Expire(f) ==
  /\ Timeouts /\ timer[f] # None /\ f \notin due
  /\ due' = due \cup {f}
  /\ UNCHANGED <<threadVars, poolVars, mainVars, connVars, users, timer,
                 listenEdge, dataVars, fault>>

(***************************************************************************)
(* The specification.                                                      *)
(***************************************************************************)

Destroy(t) == RemoveChannel(t) \/ Cancel(t) \/ CloseFd(t)

MainStep ==
  \/ Tick \/ Callback \/ NextTick \/ Poll \/ PollTimeout
  \/ (\E c \in Conns : SetRevents(c)) \/ PollDone \/ Dispatch \/ BatchDone
  \/ Lookup \/ Enqueue \/ Release \/ Accept \/ AcceptStop \/ Destroy(Main)

WorkerStep(w) ==
  \/ Dequeue(w) \/ HandleEvents(w) \/ Adjust(w) \/ Read(w) \/ Parse(w)
  \/ View(w) \/ Write(w) \/ Retrieve(w) \/ Left(w) \/ Modify(w) \/ Close(w)
  \/ CheckOut(w) \/ CheckErr(w) \/ Destroy(w)

Environment ==
  \/ \E c \in Conns : Connect(c) \/ Send(c) \/ Drain(c) \/ Hangup(c)
  \/ \E f \in Fds : Expire(f)

Next ==
  /\ fault = "none"
  /\ MainStep \/ (\E w \in Workers : WorkerStep(w)) \/ Environment

Spec == Init /\ [][Next]_vars

\* The operating system runs every thread, and clients read what they are
\* sent; nothing obliges a client to connect or to send.
Fairness ==
  /\ WF_vars(fault = "none" /\ MainStep)
  /\ \A w \in Workers : WF_vars(fault = "none" /\ WorkerStep(w))
  /\ \A c \in Conns : WF_vars(fault = "none" /\ Drain(c))

FairSpec == Spec /\ Fairness

\* Time passes: a deadline nobody moves is reached.
TimedSpec == FairSpec /\ \A f \in Fds : WF_vars(fault = "none" /\ Expire(f))

(***************************************************************************)
(* Properties.                                                             *)
(***************************************************************************)

\* Every variable keeps its type: threads are where such a thread can be, what
\* is wanted, armed and reported are sets of events.
TypeOK ==
  /\ pc \in [Threads -> MainPcs \cup WorkerPcs]
  /\ pc[Main] \in MainPcs /\ \A w \in Workers : pc[w] \in WorkerPcs
  /\ ret \in [Workers -> {"idle", "out", "err"}]
  /\ io \in [Workers -> [from : Nat, n : Nat]]
  /\ dying \in [Threads -> Conns \cup {None}]
  /\ queue \in Seq(Conns \cup {None})
  /\ task \in [Workers -> Conns \cup {None}]
  /\ batch \subseteq Conns \cup {Listen}
  /\ {cur, hold, fired} \subseteq Conns \cup {None}
  /\ events \in [Conns -> SUBSET Events] /\ wants \in [Conns -> SUBSET Events]
  /\ obj \in [Conns -> {"unborn", "backlog", "live", "dying", "dead"}]
  /\ fdOf \in [Conns -> Fds \cup {None}]
  /\ armed \in [Conns -> SUBSET Events] /\ revents \in [Conns -> SUBSET Events]
  /\ users \in [Fds -> Conns \cup {None}]
  /\ timer \in [Fds -> Conns \cup {None}]
  /\ due \subseteq Fds /\ listenEdge \in BOOLEAN
  /\ sent \in [Conns -> Nat] /\ rcvd \in [Conns -> Nat]
  /\ made \in [Conns -> Nat] /\ gone \in [Conns -> Nat]
  /\ wire \in [Conns -> Seq(Nat)] /\ drained \in [Conns -> Nat]
  /\ peer \in [Conns -> {"open", "fin", "reset"}]
  /\ fault \in {"none", "assert", "race", "dangling", "sigpipe", "terminate"}

\* A timer never outlives its connection's descriptor: the entry of fd f
\* belongs to the connection that owns f now, never to an earlier one whose
\* number was reused (http_conn.h:30-34, server.cpp:48).
TimerMatchesConnection ==
  \A f \in Fds : timer[f] # None => Open(timer[f]) /\ fdOf[timer[f]] = f

\* No immortal connection: whatever users_ still owns has its timer in the
\* heap, or that timer has fired and the callback is about to erase it.
NoImmortalEntry ==
  \A f \in Fds : users[f] # None => timer[f] = users[f] \/ fired = users[f]

\* The timeout callback captures a number, not a connection: when it runs,
\* users_ holds under that number the connection that timed out or nothing,
\* although tick() let go of the timer's lock in between (heap_timer.cpp:124).
FiredTimerHitsOwn ==
  fired # None => users[fdOf[fired]] \in {None, fired}

\* The close callback captures a number too: an entry is erased only by the
\* timeout or by the handler of the very connection it holds.
OnlyOwnErase ==
  [][\A f \in Fds : users[f] # None /\ users'[f] # users[f] =>
       \/ fired = users[f]
       \/ \E w \in Workers : pc[w] = "close" /\ task[w] = users[f]]_vars

\* A timeout that erases a connection while it waits in the queue or while a
\* worker is in its handler destroys nothing: its task keeps it alive.
TasksAreLive ==
  /\ \A w \in Workers : task[w] # None => obj[task[w]] = "live"
  /\ \A i \in 1 .. Len(queue) : queue[i] # None => obj[queue[i]] = "live"

\* Worker w has taken a task of c and is not done with it: an idle worker
\* only keeps the task, one in a destructor has yet to start with it.
Busy(w, c) == task[w] = c /\ pc[w] # "idle"

\* The main thread is about to queue the task it made for c.
Passing(c) == pc[Main] = "enqueue" /\ hold = c

\* The events of a connection that are on their way to a handler or in one.
InFlight(c) ==
    Cardinality({w \in Workers : Busy(w, c)})
  + Cardinality({i \in 1 .. Len(queue) : queue[i] = c})
  + (IF events[c] # {} \/ c \in batch \/ cur = c \/ Passing(c) THEN 1 ELSE 0)

\* EPOLLONESHOT: a connection is handled by one thread at a time, from the
\* report of an event to the end of its handler (http_conn.h:24).
OneHandler == \A c \in Conns : InFlight(c) <= 1

\* The client receives the bytes of the responses in order, each once.
WireIntegrity ==
  \A c \in Conns :
    /\ Len(wire[c]) <= Total(c)
    /\ \A i \in 1 .. Len(wire[c]) : wire[c][i] = i

\* Retrieve never takes more than the buffer holds: assert(len <=
\* readable_bytes()) (buffer.cpp:25).
RetrieveAssertHolds == fault # "assert"

\* The main loop never touches a channel of a destroyed connection
\* (server.cpp:89).
NoDanglingChannel == fault # "dangling"

\* A connection is closed by its handler only after the whole answer was
\* written, or because the client went away: no response is cut short.
NoTruncatedResponse ==
  [][\A w \in Workers : LET c == task[w] IN
       pc[w] = "close" /\ pc'[w] # "close" /\ peer[c] = "open"
         => Len(wire[c]) = Total(c)]_vars

\* How the process dies under polite clients: of the unsynchronised users_
\* lookup (server.cpp:89), or of a channel whose connection was closed after a
\* handler armed it again for the rest of an answer (http_conn.cpp:85).
Died == fault \in {"race", "dangling"}

\* A client that sent a request Parse digests receives the whole response,
\* whatever the clients it shares the workers with send, unless the process
\* dies of one of these, or every worker is lost in Parse
\* (http_request.cpp:82).
Answered ==
  \A c \in Conns \ Indigestible :
    (sent[c] = Segs) ~>
      (drained[c] = RespLen \/ Died \/ \A w \in Workers : pc[w] = "spin")


\* "The timer closes timed out inactive connections" (readme.md:19): a client
\* whose whole request was sent is answered, or its connection is closed when
\* its timer fires.  Neither: a read of the first part leaves the channel
\* disarmed (http_conn.cpp:53), and the timeout only erases the users_ entry,
\* while the task an idle worker keeps (threadpool.h:33) holds the connection.
AnsweredOrClosed ==
  \A c \in Conns :
    (sent[c] = Segs) ~> (drained[c] = RespLen \/ obj[c] = "dead" \/ Died)

(***************************************************************************)
(* The invariant behind the ownership properties (proved in ServerProofs). *)
(***************************************************************************)

\* A descriptor has one open connection; it is set once, at accept.
FdInv ==
  /\ \A c \in Conns : fdOf[c] = None <=> obj[c] \in {"unborn", "backlog"}
  /\ \A c, d \in Conns : c # d /\ Open(c) /\ Open(d) => fdOf[c] # fdOf[d]

\* A timer belongs to the open connection of its descriptor, and is gone
\* once the destructor is past cancel.
TimerInv ==
  /\ \A f \in Fds : timer[f] # None =>
       /\ Open(timer[f]) /\ fdOf[timer[f]] = f
       /\ \A t \in Threads : pc[t] = "closefd" => dying[t] # timer[f]
  /\ \A f \in due : timer[f] # None

\* users_ holds live connections under their own descriptors, with a timer.
UsersInv ==
  \A f \in Fds : users[f] # None =>
    /\ obj[users[f]] = "live" /\ fdOf[users[f]] = f
    /\ timer[f] = users[f] \/ fired = users[f]

FiredInv ==
  /\ pc[Main] = "callback" <=> fired # None
  /\ fired # None => fdOf[fired] # None /\ users[fdOf[fired]] \in {None, fired}

\* One thread at a time destroys a connection.
DyingInv ==
  /\ \A t \in Threads : pc[t] \in Destructor <=> dying[t] # None
  /\ \A t \in Threads : dying[t] # None => obj[dying[t]] = "dying"
  /\ \A s, t \in Threads : s # t /\ dying[s] # None => dying[s] # dying[t]

\* Queued and running tasks keep their connection alive.
TaskInv ==
  /\ TasksAreLive
  /\ \A w \in Workers : pc[w] \notin {"idle", "events"} \cup Destructor => task[w] # None

\* So does the main thread, until it runs the destructor of what it held.
HoldInv ==
  hold # None =>
    \/ pc[Main] \in {"enqueue", "release"} /\ obj[hold] = "live"
    \/ pc[Main] \in Destructor /\ dying[Main] = hold

\* Only a connection that was accepted is registered, reported or looked up.
ChannelInv ==
  /\ \A c \in Conns : armed[c] # {} \/ events[c] # {} \/ c \in batch => fdOf[c] # None
  /\ pc[Main] = "lookup" => cur # None /\ fdOf[cur] # None

\* Nothing is retrieved that was not appended.
BufferInv == \A c \in Conns : gone[c] <= Total(c)

OwnInv == /\ FdInv /\ TimerInv /\ UsersInv /\ FiredInv /\ DyingInv
          /\ TaskInv /\ HoldInv /\ ChannelInv /\ BufferInv

(***************************************************************************)
(* The invariants behind OneHandler, NoDanglingChannel, WireIntegrity and  *)
(* NoTruncatedResponse (proved in ServerProofs, under OneRequest or, for   *)
(* the last two, OneWorker: without either the code breaks them).          *)
(***************************************************************************)

\* Clients that send one request, whose answer fits the send buffer, and wait.
OneRequest ==
  /\ Polite /\ MaxRequests = 1 /\ RespLen <= SndBuf
  /\ Indigestible = {} \/ Segs = 1

OneWorker == \A v, w \in Workers : v = w

\* Two workers are never busy with one connection.
Serial ==
  \A c \in Conns : \A v, w \in Workers : Busy(v, c) /\ Busy(w, c) => v = w

\* c is reported by epoll, and its task not queued yet.
Reported(c) == events[c] # {} \/ c \in batch \/ cur = c \/ Passing(c)
Queued(c)   == \E i \in 1 .. Len(queue) : queue[i] = c

\* A report of c is at one station of the loop.
Apart(c) ==
  /\ ~(c \in batch /\ cur = c) /\ (events[c] # {} => c \notin batch)
  /\ Passing(c) => events[c] = {} /\ c \notin batch

\* An event of c is in one place at a time.
RouteInv ==
  /\ Serial
  /\ \A c \in Conns :
       /\ Apart(c) /\ (Reported(c) => ~Queued(c))
       /\ Reported(c) \/ Queued(c) => \A w \in Workers : ~Busy(w, c)
       /\ \A i, j \in 1 .. Len(queue) : queue[i] = c /\ queue[j] = c => i = j

\* No event of c was ever reported.
Untouched(c) ==
  ~Reported(c) /\ ~Queued(c) /\ \A w \in Workers : task[w] # c

\* The main thread is in its loop over active_channels.
InLoop ==
  \/ pc[Main] \in {"revents", "dispatch", "lookup", "enqueue", "release", "accept"}
  \/ hold # None

\* The main thread has nothing left to pass on when it ticks ...
StationInv ==
  /\ events # NoEvents => pc[Main] = "revents"
  /\ batch # {} => InLoop
  /\ cur # None => pc[Main] = "lookup"

\* ... and what is reported is in users_.
LoopInv ==
  /\ StationInv
  /\ \A c \in Conns : Reported(c) => users[fdOf[c]] = c

\* A registration is armed before the first event or after the last.
ArmedInv ==
  \A c \in Conns : armed[c] # {} =>
    /\ armed[c] = {"IN"}
    /\ \/ rcvd[c] = Segs
       \/ /\ Untouched(c)
          /\ users[fdOf[c]] = c \/ (dying[Main] = c /\ pc[Main] = "remove")

\* No answer of c was made yet, and one may still be.
Early(c) ==
  \/ obj[c] \in {"unborn", "backlog"}
  \/ armed[c] # {} /\ rcvd[c] # Segs
  \/ Reported(c) \/ Queued(c)
  \/ \E w \in Workers :
       task[w] = c /\ pc[w] \in {"events", "adjust", "read", "parse"} \cup Destructor

\* Clients stay, send one request and receive no more than was written.
ClientInv ==
  \A c \in Conns :
    /\ peer[c] = "open" /\ wants[c] = {"IN"}
    /\ revents[c] \subseteq {"IN"} /\ events[c] \subseteq {"IN"}
    /\ rcvd[c] <= sent[c] /\ sent[c] <= Segs
    /\ drained[c] <= Len(wire[c])

\* The one request has its one answer, which is written whole.
AnswerInv ==
  /\ \A c \in Conns :
       /\ Early(c) => made[c] = 0
       /\ made[c] # 0 => made[c] = 1 /\ rcvd[c] = Segs
       /\ made[c] = 0 => gone[c] = 0
  /\ \A w \in Workers :
       /\ pc[w] = "parse" => rcvd[task[w]] # 0
       /\ pc[w] \in {"view", "write", "retrieve"} => made[task[w]] = 1 /\ gone[task[w]] = 0
       /\ pc[w] = "retrieve" => io[w].n = RespLen
       /\ pc[w] \in {"left", "done"} => made[task[w]] = 1 /\ Unsent(task[w]) = 0
       /\ pc[w] # "more"

OneRequestInv == RouteInv /\ LoopInv /\ ArmedInv /\ ClientInv /\ AnswerInv

\* The wire of c holds what was retrieved, in order, and what a worker is
\* about to retrieve.
WireOf(c) ==
  /\ \A i \in 1 .. Len(wire[c]) : wire[c][i] = i
  /\ \A w \in Workers : task[w] = c =>
       /\ pc[w] = "write" => io[w] = [from |-> gone[c], n |-> Unsent(c)]
       /\ pc[w] = "retrieve" => io[w].n <= Unsent(c) /\ Len(wire[c]) = gone[c] + io[w].n
  /\ (\A w \in Workers : task[w] = c => pc[w] # "retrieve") => Len(wire[c]) = gone[c]

WireInv == \A c \in Conns : WireOf(c)

\* A handler is about to close because the client left or has its answer.
ClosingInv ==
  /\ \A c \in Conns : "ERR" \in revents[c] \cup events[c] => peer[c] # "open"
  /\ \A w \in Workers : pc[w] = "done" => Unsent(task[w]) = 0
  /\ \A w \in Workers : pc[w] = "close" => peer[task[w]] # "open" \/ Unsent(task[w]) = 0
=============================================================================
