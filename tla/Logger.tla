------------------------------- MODULE Logger -------------------------------
(***************************************************************************)
(* Log of logger.h and logger.cpp: write on any thread, async_write on a   *)
(* thread of its own, init and the destructor, over the queue that         *)
(* TicketQueue specifies and lock_free_queue.hpp implements.  log_file_    *)
(* keeps lines in its own buffer until that is full, flushed or closed; a  *)
(* process may be killed at any moment and started again on the same file. *)
(* Lines below log_level_ are never written and left out.                  *)
(***************************************************************************)
EXTENDS Naturals, Sequences

CONSTANTS
  Writers,   \* the threads that call write
  Async,     \* the thread that runs async_write
  Capacity,  \* maxQueueSize, the slots of log_queue_
  StreamCap, \* lines the buffer of log_file_ holds
  MaxCalls,  \* lines per writer (bound)
  MaxStarts, \* how often the process is started (bound)
  NoTicket, NoValue

ASSUME LoggerAssumption ==
  /\ Async \notin Writers
  /\ Capacity \in Nat /\ Capacity >= 2
  /\ {StreamCap, MaxCalls, MaxStarts} \subseteq Nat
  /\ NoTicket \notin Nat

Values == Writers \X (1 .. MaxCalls)

VARIABLES
  order, storing, taken, fetching, got, \* log_queue_
  process, \* "down", "up", or "exit" while the destructor runs
  opened,  \* log_file_.is_open(), and is_open_, which init sets after it
  isAsync, \* is_async_
  stop,    \* stop_thread_
  pc,      \* where each writer is in write
  calls,   \* how many lines each writer has begun
  at,      \* where async_write is, "none" without its thread
  stream,  \* the lines in the buffer of log_file_
  file,    \* the lines in the file
  starts,  \* how often the process was started
  past,    \* history: the lines in the file at the last start
  refused, \* history: the lines enqueue refused
  killed   \* history: the lines the process was killed with

queueVars == <<order, storing, taken, fetching, got>>
fileVars  == <<stream, file>>
logVars   == <<opened, isAsync, stop>>
history   == <<past, refused, killed>>
vars == <<order, storing, taken, fetching, got, process, opened, isAsync, stop,
          pc, calls, at, stream, file, starts, past, refused, killed>>

Queue == INSTANCE TicketQueue WITH Producers <- Writers, Consumers <- {Async}

Init ==
  /\ Queue!TQInit
  /\ pc = [w \in Writers |-> "idle"]
  /\ at = "none" /\ stream = <<>>
  /\ opened = FALSE /\ isAsync = FALSE /\ stop = FALSE
  /\ process = "down" /\ starts = 0
  /\ calls = [w \in Writers |-> 0]
  /\ file = <<>> /\ past = <<>>
  /\ refused = {} /\ killed = {}

(***************************************************************************)
(* init                                                                    *)
(***************************************************************************)

\* Mutant: std::ios::app forgotten.
Opened_Truncated == <<>>

\* What open with std::ios::app leaves of the file.
Opened == file

\* The server starts and calls init; the file may fail to open, then is_open_
\* stays false and write returns at once.
Start ==
  /\ process = "down" /\ starts < MaxStarts
  /\ process' = "up" /\ starts' = starts + 1
  /\ \/ /\ opened' = TRUE /\ isAsync' \in BOOLEAN
        /\ at' = IF isAsync' THEN "loop" ELSE "none"
        /\ file' = Opened
     \/ opened' = FALSE /\ UNCHANGED <<isAsync, at, file>>
  /\ past' = file
  /\ UNCHANGED <<queueVars, stop, pc, calls, stream, refused, killed>>

(***************************************************************************)
(* log_file_, a std::ofstream                                              *)
(***************************************************************************)

\* log_file_ << line: the stream keeps the line while it has room, else hands
\* all it has to the file.
Insert(line) ==
  IF Len(stream) < StreamCap
    THEN stream' = Append(stream, line) /\ UNCHANGED file
    ELSE stream' = <<>> /\ file' = Append(file \o stream, line)

\* log_file_.flush() hands all to the file.
Flushed == stream' = <<>> /\ file' = file \o stream

(***************************************************************************)
(* write                                                                   *)
(***************************************************************************)

Line(w) == <<w, calls[w]>>

Goto(w, l) == pc' = [pc EXCEPT ![w] = l]

\* The line is formatted and printed on the console.
Begin(w) ==
  /\ process = "up" /\ opened
  /\ pc[w] = "idle" /\ calls[w] < MaxCalls
  /\ calls' = [calls EXCEPT ![w] = @ + 1]
  /\ Goto(w, IF isAsync THEN "enqueue" ELSE "file")
  /\ UNCHANGED <<queueVars, process, logVars, at, fileVars, starts, history>>

\* No slot is free: all hold lines, or the next one is still being emptied.
Full ==
  \/ Len(order) = taken + Capacity
  \/ fetching[Async] # NoTicket /\ fetching[Async] + Capacity = Len(order)

\* enqueue wins a position ...
Accept(w) ==
  /\ pc[w] = "enqueue" /\ ~Full
  /\ Queue!Claim(w) /\ order' = Append(order, Line(w))
  /\ Goto(w, "store")
  /\ UNCHANGED <<process, logVars, calls, at, fileVars, starts, history>>

\* ... and publishes the line there.
Store(w) ==
  /\ pc[w] = "store" /\ Queue!Store(w)
  /\ Goto(w, "idle")
  /\ UNCHANGED <<process, logVars, calls, at, fileVars, starts, history>>

\* Mutant: a line that finds no room is stored in a slot it has not won.
AfterRefusal_Store == "store"

\* enqueue's answer is thrown away: the line is gone.
AfterRefusal == "idle"

Refuse(w) ==
  /\ pc[w] = "enqueue" /\ Full
  /\ refused' = refused \cup {Line(w)}
  /\ Goto(w, AfterRefusal)
  /\ UNCHANGED <<queueVars, process, logVars, calls, at, fileVars, starts,
                 past, killed>>

\* Without the thread: the line is inserted and flushed under mutex_.
WriteFile(w) ==
  /\ pc[w] = "file"
  /\ stream' = <<>> /\ file' = Append(file \o stream, Line(w))
  /\ Goto(w, "idle")
  /\ UNCHANGED <<queueVars, process, logVars, calls, at, starts, history>>

\* flush, under mutex_.
Flush ==
  /\ process = "up" /\ opened /\ Flushed
  /\ UNCHANGED <<queueVars, process, logVars, pc, calls, at, starts, history>>

(***************************************************************************)
(* async_write: the loop, then the drain, each with its dequeue            *)
(***************************************************************************)

\* dequeue takes the front line ...
Take ==
  /\ at \in {"loop", "drain"} /\ Queue!Take(Async)
  /\ at' = IF at = "loop" THEN "fetch" ELSE "drainFetch"
  /\ UNCHANGED <<process, logVars, pc, calls, fileVars, starts, history>>

Fetch ==
  /\ at \in {"fetch", "drainFetch"} /\ Queue!Fetch(Async)
  /\ at' = IF at = "fetch" THEN "insert" ELSE "drainInsert"
  /\ UNCHANGED <<process, logVars, pc, calls, fileVars, starts, history>>

\* ... which goes to the stream, unflushed.
InsertLine ==
  /\ at \in {"insert", "drainInsert"} /\ Insert(got[Async])
  /\ at' = IF at = "insert" THEN "loop" ELSE "drain"
  /\ UNCHANGED <<queueVars, process, logVars, pc, calls, starts, history>>

\* dequeue finds nothing: no line, or the front one is still being stored.
Empty == \/ taken = Len(order)
         \/ \E w \in Writers : storing[w] = taken

\* Mutants: the queue is not drained after the loop; stop_thread_ is not seen.
AfterStop_NoDrain == IF stop THEN "flush" ELSE "loop"
AfterStop_Deaf == "loop"

\* stop_thread_ ends the loop.
AfterStop == IF stop THEN "drain" ELSE "loop"

Idle ==
  /\ \/ at = "loop" /\ Empty /\ at' = "stop"
     \/ at = "stop" /\ at' = AfterStop
     \/ at = "drain" /\ Empty /\ at' = "flush"
  /\ UNCHANGED <<queueVars, process, logVars, pc, calls, fileVars, starts, history>>

LastFlush ==
  /\ at = "flush" /\ Flushed
  /\ at' = "done"
  /\ UNCHANGED <<queueVars, process, logVars, pc, calls, starts, history>>

(***************************************************************************)
(* The end of the process                                                  *)
(***************************************************************************)

\* ~Log runs after main, when no other thread writes any more.
Exit ==
  /\ process = "up" /\ \A w \in Writers : pc[w] = "idle"
  /\ process' = "exit" /\ stop' = TRUE
  /\ UNCHANGED <<queueVars, opened, isAsync, pc, calls, at, fileVars, starts, history>>

\* Nothing of the process remains but its file.
Gone ==
  /\ process' = "down"
  /\ pc' = [w \in Writers |-> "idle"]
  /\ at' = "none" /\ stream' = <<>>
  /\ opened' = FALSE /\ isAsync' = FALSE /\ stop' = FALSE
  /\ order' = <<>> /\ storing' = [w \in Writers |-> NoTicket]
  /\ taken' = 0 /\ fetching' = [c \in {Async} |-> NoTicket]
  /\ got' = [c \in {Async} |-> NoValue]
  /\ UNCHANGED <<calls, starts, past, refused>>

\* The destructor has joined the thread and closes the file.
Close ==
  /\ process = "exit" /\ at \in {"none", "done"}
  /\ Gone /\ file' = file \o stream /\ UNCHANGED killed

Lines(s) == {s[i] : i \in DOMAIN s}

\* The lines in the queue that async_write has not taken.
Waiting(o, n) == {o[i] : i \in n + 1 .. Len(o)}

\* The line async_write has taken and not yet inserted.
InHand == CASE at \in {"fetch", "drainFetch"}   -> <<order[taken]>>
            [] at \in {"insert", "drainInsert"} -> <<got[Async]>>
            [] OTHER -> <<>>

\* The lines of calls that have not returned, and of those that have but
\* whose line is not in the file.
Unsafe ==
  {Line(w) : w \in {x \in Writers : pc[x] # "idle"}}
    \cup Waiting(order, taken) \cup Lines(InHand) \cup Lines(stream)

\* A signal, or an exception nobody catches.
Kill ==
  /\ process # "down"
  /\ killed' = killed \cup Unsafe
  /\ Gone /\ UNCHANGED file

(***************************************************************************)
(* The specification                                                       *)
(***************************************************************************)

Write(w) == Begin(w) \/ Accept(w) \/ Store(w) \/ Refuse(w) \/ WriteFile(w)

AsyncWrite == Take \/ Fetch \/ InsertLine \/ Idle \/ LastFlush

Next ==
  \/ \E w \in Writers : Write(w)
  \/ AsyncWrite \/ Flush \/ Start \/ Exit \/ Close \/ Kill

Spec == Init /\ [][Next]_vars

\* Every thread runs on; a call that has begun ends.
Fairness ==
  /\ \A w \in Writers : WF_vars(pc[w] # "idle" /\ Write(w))
  /\ WF_vars(AsyncWrite) /\ WF_vars(Close)

FairSpec == Spec /\ Fairness

(***************************************************************************)
(* Properties                                                              *)
(***************************************************************************)

\* Every variable keeps its type, and a writer at its store holds a ticket.
TypeOK ==
  /\ order \in Seq(Values) /\ taken \in 0 .. Len(order)
  /\ storing \in [Writers -> Nat \cup {NoTicket}]
  /\ fetching \in [{Async} -> Nat \cup {NoTicket}]
  /\ got \in [{Async} -> Values \cup {NoValue}]
  /\ process \in {"down", "up", "exit"}
  /\ {opened, isAsync, stop} \subseteq BOOLEAN
  /\ pc \in [Writers -> {"idle", "enqueue", "store", "file"}]
  /\ \A w \in Writers : pc[w] = "store" <=> storing[w] # NoTicket
  /\ calls \in [Writers -> 0 .. MaxCalls]
  /\ at \in {"none", "loop", "fetch", "insert", "stop", "drain", "drainFetch",
             "drainInsert", "flush", "done"}
  /\ stream \in Seq(Values) /\ file \in Seq(Values) /\ past \in Seq(Values)
  /\ starts \in 0 .. MaxStarts
  /\ refused \subseteq Values /\ killed \subseteq Values

\* The file of the asynchronous log grows by the lines in the order in which
\* enqueue accepted them: none is written twice, out of turn or by another
\* thread past the queue, and no start touches what earlier processes wrote.
FileInOrder ==
  isAsync =>
    file \o stream \o InHand = past \o SubSeq(order, 1, taken)

\* A line is lost only if the queue had no room for it or the process was
\* killed on it: after the destructor every other line of a finished write is
\* in the file, also those that came between the last empty dequeue and the
\* stop (logger.cpp:7-15, 66-86); a synchronous write that has returned
\* survives even a kill (logger.h:79-80).
LostOnlyIfRefusedOrKilled ==
  process = "down" =>
    \A w \in Writers : \A k \in 1 .. calls[w] :
      <<w, k>> \in Lines(file) \cup refused \cup killed

\* The destructor joins async_write, which sees stop_thread_ and comes to its
\* end: the process exits (logger.cpp:7-15).
DestructorReturns == (process = "exit") ~> (process = "down")
=============================================================================
