---------------------------- MODULE LoggerProofs ----------------------------
(***************************************************************************)
(* For any number of writers and lines and any size of the queue and the   *)
(* stream: the file grows in the order of the queue, and a line is lost    *)
(* only if the queue refused it or the process was killed on it.           *)
(***************************************************************************)
EXTENDS Logger, SequenceTheorems, TLAPS

(***************************************************************************)
(* The invariant.                                                          *)
(***************************************************************************)

Stopping == {"drain", "drainFetch", "drainInsert", "flush", "done"}

\* Which threads there are and where they can be, by the life of the process.
ModeInv ==
  /\ isAsync <=> at # "none"
  /\ \A w \in Writers : /\ pc[w] \in {"enqueue", "store"} => isAsync
                        /\ pc[w] = "file" => ~isAsync
                        /\ pc[w] # "idle" => calls[w] > 0
  /\ process = "down" => ~isAsync /\ stream = <<>>
  /\ process # "up" => \A w \in Writers : pc[w] = "idle"
  /\ at \in Stopping => stop
  /\ stop => process = "exit"
  /\ ~isAsync => order = <<>> /\ taken = 0
  /\ at \in {"flush", "done"} => taken = Len(order)

\* What async_write holds is the line it took last.
HandInv ==
  /\ fetching[Async] # NoTicket <=> at \in {"fetch", "drainFetch"}
  /\ at \in {"fetch", "drainFetch"} => taken > 0 /\ fetching[Async] = taken - 1
  /\ at \in {"insert", "drainInsert"} => taken > 0 /\ got[Async] = order[taken]

\* A line that is being stored is in the queue, and not yet taken.
StoreInv ==
  \A w \in Writers : pc[w] = "store" =>
    storing[w] \in taken .. Len(order) - 1 /\ order[storing[w] + 1] = Line(w)

\* Every line that was begun is safe, or on its way, or lost for a reason.
Accounted == Lines(file) \cup refused \cup killed \cup Unsafe

LostInv == \A w \in Writers : \A k \in 1 .. calls[w] : <<w, k>> \in Accounted

Base == TypeOK /\ ModeInv /\ HandInv /\ StoreInv

Inv == Base /\ FileInOrder /\ LostInv

(***************************************************************************)
(* Sequences of lines.                                                     *)
(***************************************************************************)

LEMMA LinesConcat ==
  ASSUME NEW s \in Seq(Values), NEW t \in Seq(Values)
  PROVE  Lines(s \o t) = Lines(s) \cup Lines(t)
  <1>1. /\ Len(s \o t) = Len(s) + Len(t) /\ Len(s) \in Nat /\ Len(t) \in Nat
        /\ DOMAIN (s \o t) = 1 .. Len(s) + Len(t)
        /\ DOMAIN s = 1 .. Len(s) /\ DOMAIN t = 1 .. Len(t)
        /\ \A i \in 1 .. Len(s) + Len(t) :
             (s \o t)[i] = IF i <= Len(s) THEN s[i] ELSE t[i - Len(s)]
    BY ConcatProperties, LenProperties
  <1>2. Lines(s \o t) \subseteq Lines(s) \cup Lines(t)
    BY <1>1 DEF Lines
  <1>3. Lines(s) \subseteq Lines(s \o t)
    BY <1>1 DEF Lines
  <1>4. ASSUME NEW j \in DOMAIN t PROVE t[j] \in Lines(s \o t)
    <2>1. j + Len(s) \in 1 .. Len(s) + Len(t) /\ (s \o t)[j + Len(s)] = t[j]
      BY <1>1
    <2> QED BY <1>1, <2>1 DEF Lines
  <1> QED BY <1>2, <1>3, <1>4 DEF Lines

LEMMA LinesAppend ==
  ASSUME NEW s \in Seq(Values), NEW v \in Values
  PROVE  Lines(Append(s, v)) = Lines(s) \cup {v}
  <1>1. <<v>> \in Seq(Values) /\ Lines(<<v>>) = {v}
    BY DEF Lines
  <1>2. Append(s, v) = s \o <<v>>
    BY AppendIsConcat
  <1>3. Lines(s \o <<v>>) = Lines(s) \cup Lines(<<v>>)
    BY <1>1, LinesConcat
  <1> QED BY <1>1, <1>2, <1>3

\* A line enters the queue at the back ...
LEMMA WaitAppend ==
  ASSUME NEW o \in Seq(Values), NEW v \in Values, NEW n \in 0 .. Len(o)
  PROVE  Waiting(Append(o, v), n) = Waiting(o, n) \cup {v}
  <1>1. /\ Len(o) \in Nat /\ Len(Append(o, v)) = Len(o) + 1
        /\ \A i \in 1 .. Len(o) : Append(o, v)[i] = o[i]
        /\ Append(o, v)[Len(o) + 1] = v
    BY AppendProperties, LenProperties
  <1> QED BY <1>1 DEF Waiting

\* ... and leaves it at the front.
LEMMA WaitTake ==
  ASSUME NEW o \in Seq(Values), NEW n \in 0 .. Len(o) - 1
  PROVE  Waiting(o, n) = Waiting(o, n + 1) \cup {o[n + 1]}
  <1>1. Len(o) \in Nat
    BY LenProperties
  <1> QED BY <1>1 DEF Waiting

(***************************************************************************)
(* Types, threads and tickets: one step per action.                        *)
(***************************************************************************)

\* A writer that is not idle has a line.
LEMMA LineType ==
  ASSUME Base, NEW w \in Writers, pc[w] # "idle"
  PROVE  Line(w) \in Values
  <1>1. calls[w] \in 0 .. MaxCalls
    BY DEF Base, TypeOK
  <1>2. calls[w] > 0
    BY DEF Base, ModeInv
  <1>3. calls[w] \in 1 .. MaxCalls
    BY <1>1, <1>2, LoggerAssumption
  <1> QED BY <1>3 DEF Line, Values

LEMMA BaseInit == Init => Base
  <1> SUFFICES ASSUME Init PROVE Base
    OBVIOUS
  <1> USE LoggerAssumption DEF Init, Queue!TQInit
  <1>1. TypeOK
    <2>1. <<>> \in Seq(Values) /\ Len(<<>>) = 0
      BY EmptySeq
    <2>2. /\ order \in Seq(Values) /\ taken \in 0 .. Len(order)
          /\ stream \in Seq(Values) /\ file \in Seq(Values) /\ past \in Seq(Values)
      BY <2>1
    <2>3. /\ storing \in [Writers -> Nat \cup {NoTicket}]
          /\ fetching \in [{Async} -> Nat \cup {NoTicket}]
          /\ got \in [{Async} -> Values \cup {NoValue}]
      OBVIOUS
    <2>4. /\ pc \in [Writers -> {"idle", "enqueue", "store", "file"}]
          /\ \A w \in Writers : pc[w] = "store" <=> storing[w] # NoTicket
      OBVIOUS
    <2>5. calls \in [Writers -> 0 .. MaxCalls] /\ starts \in 0 .. MaxStarts
      OBVIOUS
    <2>6. {opened, isAsync, stop} \subseteq BOOLEAN
      OBVIOUS
    <2> QED BY <2>2, <2>3, <2>4, <2>5, <2>6 DEF TypeOK
  <1>2. ModeInv /\ HandInv /\ StoreInv
    BY DEF ModeInv, HandInv, StoreInv, Stopping
  <1> QED BY <1>1, <1>2 DEF Base

LEMMA BaseBegin ==
  ASSUME Base, NEW w \in Writers, Begin(w)
  PROVE  Base'
  <1> USE LoggerAssumption
      DEF Begin, Goto, queueVars, logVars, fileVars, history
  <1>1. TypeOK'
    BY DEF Base, TypeOK
  <1>2. ModeInv'
    BY DEF Base, TypeOK, ModeInv, Stopping
  <1>3. HandInv' /\ StoreInv'
    BY DEF Base, TypeOK, HandInv, StoreInv, Line
  <1> QED BY <1>1, <1>2, <1>3 DEF Base

LEMMA BaseAccept ==
  ASSUME Base, NEW w \in Writers, Accept(w)
  PROVE  /\ Base' /\ Line(w) \in Values
         /\ Len(order') = Len(order) + 1
         /\ \A i \in 1 .. Len(order) : order'[i] = order[i]
  <1> USE LoggerAssumption
      DEF Accept, Goto, logVars, fileVars, history, Queue!Claim
  <1>0. Line(w) \in Values /\ order \in Seq(Values) /\ Len(order) \in Nat
    BY LineType, LenProperties DEF Base, TypeOK
  <1>1. /\ order' \in Seq(Values) /\ Len(order') = Len(order) + 1
        /\ \A i \in 1 .. Len(order) : order'[i] = order[i]
        /\ order'[Len(order) + 1] = Line(w)
    BY <1>0, AppendProperties
  <1>2. TypeOK'
    BY <1>0, <1>1 DEF Base, TypeOK
  <1>3. ModeInv'
    BY <1>0, <1>1 DEF Base, TypeOK, ModeInv, Stopping
  <1>4. HandInv'
    BY <1>0, <1>1 DEF Base, TypeOK, HandInv
  <1>5. StoreInv'
    BY <1>0, <1>1 DEF Base, TypeOK, StoreInv, Line
  <1> QED BY <1>0, <1>1, <1>2, <1>3, <1>4, <1>5 DEF Base

LEMMA BaseStore ==
  ASSUME Base, NEW w \in Writers, Store(w)
  PROVE  Base'
  <1> USE LoggerAssumption
      DEF Store, Goto, logVars, fileVars, history, Queue!Store
  <1>1. TypeOK'
    BY DEF Base, TypeOK
  <1>2. ModeInv'
    BY DEF Base, TypeOK, ModeInv, Stopping
  <1>3. HandInv' /\ StoreInv'
    BY DEF Base, TypeOK, HandInv, StoreInv, Line
  <1> QED BY <1>1, <1>2, <1>3 DEF Base

LEMMA BaseRefuse ==
  ASSUME Base, NEW w \in Writers, Refuse(w)
  PROVE  Base'
  <1> USE LoggerAssumption
      DEF Refuse, AfterRefusal, Goto, queueVars, logVars, fileVars
  <1>0. Line(w) \in Values
    BY LineType
  <1>1. TypeOK'
    BY <1>0 DEF Base, TypeOK
  <1>2. ModeInv'
    BY DEF Base, TypeOK, ModeInv, Stopping
  <1>3. HandInv' /\ StoreInv'
    BY DEF Base, TypeOK, HandInv, StoreInv, Line
  <1> QED BY <1>1, <1>2, <1>3 DEF Base

LEMMA BaseWriteFile ==
  ASSUME Base, NEW w \in Writers, WriteFile(w)
  PROVE  Base' /\ Line(w) \in Values /\ file \o stream \in Seq(Values)
  <1> USE LoggerAssumption
      DEF WriteFile, Goto, queueVars, logVars, history
  <1>0. Line(w) \in Values /\ file \o stream \in Seq(Values)
    BY LineType, ConcatProperties DEF Base, TypeOK
  <1>1. stream' \in Seq(Values) /\ file' \in Seq(Values)
    BY <1>0, AppendProperties
  <1>2. TypeOK'
    BY <1>1 DEF Base, TypeOK
  <1>3. ModeInv'
    BY DEF Base, TypeOK, ModeInv, Stopping
  <1>4. HandInv' /\ StoreInv'
    BY DEF Base, TypeOK, HandInv, StoreInv, Line
  <1> QED BY <1>0, <1>2, <1>3, <1>4 DEF Base

LEMMA BaseFlush ==
  ASSUME Base, Flush
  PROVE  Base'
  <1> USE LoggerAssumption DEF Flush, Flushed, queueVars, logVars, history
  <1>1. stream' \in Seq(Values) /\ file' \in Seq(Values)
    BY ConcatProperties, EmptySeq DEF Base, TypeOK
  <1>2. TypeOK'
    BY <1>1 DEF Base, TypeOK
  <1>3. ModeInv'
    BY DEF Base, TypeOK, ModeInv, Stopping
  <1>4. HandInv' /\ StoreInv'
    BY DEF Base, TypeOK, HandInv, StoreInv, Line
  <1> QED BY <1>2, <1>3, <1>4 DEF Base

LEMMA BaseTake ==
  ASSUME Base, Take
  PROVE  Base'
  <1> USE LoggerAssumption DEF Take, logVars, fileVars, history, Queue!Take
  <1>0. Len(order) \in Nat /\ taken \in Nat /\ taken < Len(order)
    BY LenProperties DEF Base, TypeOK
  <1>1. TypeOK'
    BY <1>0 DEF Base, TypeOK
  <1>2. ModeInv'
    BY <1>0 DEF Base, TypeOK, ModeInv, Stopping
  <1>3. HandInv'
    BY <1>0 DEF Base, TypeOK, HandInv
  <1>4. StoreInv'
    <2>1. ASSUME NEW w \in Writers, pc[w] = "store"
          PROVE  storing[w] \in taken + 1 .. Len(order) - 1
      BY <1>0, <2>1 DEF Base, StoreInv
    <2> QED BY <2>1 DEF Base, StoreInv, Line
  <1> QED BY <1>1, <1>2, <1>3, <1>4 DEF Base

\* What the thread reads from its slot is the line it has taken.
LEMMA BaseFetch ==
  ASSUME Base, Fetch
  PROVE  Base' /\ got'[Async] = order[taken]
  <1> USE LoggerAssumption DEF Fetch, logVars, fileVars, history, Queue!Fetch
  <1>0. /\ order \in Seq(Values) /\ Len(order) \in Nat
        /\ taken \in 1 .. Len(order) /\ fetching[Async] = taken - 1
    BY LenProperties DEF Base, TypeOK, HandInv
  <1>1. order[fetching[Async] + 1] = order[taken] /\ order[taken] \in Values
    BY <1>0, ElementOfSeq
  <1>2. TypeOK'
    BY <1>1 DEF Base, TypeOK
  <1>3. ModeInv'
    BY DEF Base, TypeOK, ModeInv, Stopping
  <1>4. HandInv' /\ got'[Async] = order[taken]
    BY <1>0, <1>1 DEF Base, TypeOK, HandInv
  <1>5. StoreInv'
    BY DEF Base, StoreInv, Line
  <1> QED BY <1>2, <1>3, <1>4, <1>5 DEF Base

LEMMA BaseInsert ==
  ASSUME Base, InsertLine
  PROVE  Base' /\ got[Async] \in Values
  <1> USE LoggerAssumption DEF InsertLine, Insert, queueVars, logVars, history
  <1>0. got[Async] \in Values
    <2>1. order \in Seq(Values) /\ taken \in 1 .. Len(order) /\ got[Async] = order[taken]
      BY LenProperties DEF Base, TypeOK, HandInv
    <2> QED BY <2>1, ElementOfSeq
  <1>1. stream' \in Seq(Values) /\ file' \in Seq(Values)
    <2>1. stream \in Seq(Values) /\ file \in Seq(Values)
      BY DEF Base, TypeOK
    <2>2. file \o stream \in Seq(Values)
      BY <2>1, ConcatProperties
    <2>3. /\ Append(stream, got[Async]) \in Seq(Values)
          /\ Append(file \o stream, got[Async]) \in Seq(Values)
          /\ <<>> \in Seq(Values)
      BY <1>0, <2>1, <2>2, AppendProperties, EmptySeq
    <2> QED BY <2>1, <2>3
  <1>2. TypeOK'
    BY <1>1 DEF Base, TypeOK
  <1>3. ModeInv'
    BY DEF Base, TypeOK, ModeInv, Stopping
  <1>4. HandInv' /\ StoreInv'
    BY DEF Base, TypeOK, HandInv, StoreInv, Line
  <1> QED BY <1>0, <1>2, <1>3, <1>4 DEF Base

\* A thread that drains finds the queue empty only when it is: nobody is at
\* its store any more.
LEMMA BaseIdle ==
  ASSUME Base, Idle
  PROVE  Base'
  <1> USE LoggerAssumption
      DEF Idle, AfterStop, queueVars, logVars, fileVars, history
  <1>1. TypeOK'
    BY DEF Base, TypeOK
  <1>2. ASSUME at = "drain", Empty
        PROVE  taken = Len(order)
    <2>1. taken \in Nat /\ \A w \in Writers : storing[w] = NoTicket
      BY <1>2, LenProperties DEF Base, TypeOK, ModeInv, Stopping
    <2> QED BY <1>2, <2>1 DEF Empty
  <1>3. ModeInv'
    BY <1>2 DEF Base, TypeOK, ModeInv, Stopping
  <1>4. HandInv' /\ StoreInv'
    BY DEF Base, TypeOK, HandInv, StoreInv, Line
  <1> QED BY <1>1, <1>3, <1>4 DEF Base

LEMMA BaseLastFlush ==
  ASSUME Base, LastFlush
  PROVE  Base'
  <1> USE LoggerAssumption DEF LastFlush, Flushed, queueVars, logVars, history
  <1>1. stream' \in Seq(Values) /\ file' \in Seq(Values)
    BY ConcatProperties, EmptySeq DEF Base, TypeOK
  <1>2. TypeOK'
    BY <1>1 DEF Base, TypeOK
  <1>3. ModeInv'
    BY DEF Base, TypeOK, ModeInv, Stopping
  <1>4. HandInv' /\ StoreInv'
    BY DEF Base, TypeOK, HandInv, StoreInv, Line
  <1> QED BY <1>2, <1>3, <1>4 DEF Base

LEMMA BaseStart ==
  ASSUME Base, Start
  PROVE  Base'
  <1> USE LoggerAssumption DEF Start, Opened, queueVars
  <1>1. TypeOK'
    <2>1. {opened', isAsync', stop'} \subseteq BOOLEAN
      BY DEF Base, TypeOK
    <2>2. /\ starts' \in 0 .. MaxStarts /\ file' \in Seq(Values)
          /\ past' \in Seq(Values) /\ process' \in {"down", "up", "exit"}
          /\ at' \in {"none", "loop", "fetch", "insert", "stop", "drain",
                      "drainFetch", "drainInsert", "flush", "done"}
      BY DEF Base, TypeOK
    <2> QED BY <2>1, <2>2 DEF Base, TypeOK
  <1>2. ModeInv'
    BY DEF Base, TypeOK, ModeInv, Stopping
  <1>3. HandInv' /\ StoreInv'
    BY DEF Base, TypeOK, ModeInv, HandInv, StoreInv, Line
  <1> QED BY <1>1, <1>2, <1>3 DEF Base

LEMMA BaseExit ==
  ASSUME Base, Exit
  PROVE  Base'
  <1> USE LoggerAssumption DEF Exit, queueVars, fileVars, history
  <1>1. TypeOK'
    BY DEF Base, TypeOK
  <1>2. ModeInv'
    BY DEF Base, TypeOK, ModeInv, Stopping
  <1>3. HandInv' /\ StoreInv'
    BY DEF Base, TypeOK, HandInv, StoreInv, Line
  <1> QED BY <1>1, <1>2, <1>3 DEF Base

\* However the process ends, the next one starts afresh.
LEMMA BaseGone ==
  ASSUME Base, Gone, file' \in Seq(Values), killed' \subseteq Values
  PROVE  Base'
  <1> USE LoggerAssumption DEF Gone
  <1>1. TypeOK'
    <2>1. <<>> \in Seq(Values) /\ Len(<<>>) = 0
      BY EmptySeq
    <2>2. /\ order' \in Seq(Values) /\ taken' \in 0 .. Len(order')
          /\ stream' \in Seq(Values) /\ past' \in Seq(Values)
      BY <2>1 DEF Base, TypeOK
    <2>3. /\ storing' \in [Writers -> Nat \cup {NoTicket}]
          /\ fetching' \in [{Async} -> Nat \cup {NoTicket}]
          /\ got' \in [{Async} -> Values \cup {NoValue}]
      OBVIOUS
    <2>4. /\ pc' \in [Writers -> {"idle", "enqueue", "store", "file"}]
          /\ \A w \in Writers : pc'[w] = "store" <=> storing'[w] # NoTicket
      OBVIOUS
    <2>5. /\ calls' \in [Writers -> 0 .. MaxCalls] /\ starts' \in 0 .. MaxStarts
          /\ refused' \subseteq Values
      BY DEF Base, TypeOK
    <2>6. {opened', isAsync', stop'} \subseteq BOOLEAN
      OBVIOUS
    <2> QED BY <2>2, <2>3, <2>4, <2>5, <2>6 DEF TypeOK
  <1>2. ModeInv' /\ HandInv' /\ StoreInv'
    BY DEF ModeInv, HandInv, StoreInv, Stopping
  <1> QED BY <1>1, <1>2 DEF Base

(***************************************************************************)
(* The file grows in the order of the queue: one step per action.          *)
(***************************************************************************)

\* What is in hand at each place of async_write.
LEMMA Holding ==
  ASSUME Base
  PROVE  /\ at \in {"fetch", "drainFetch"} =>
               taken \in 1 .. Len(order) /\ InHand = <<order[taken]>>
         /\ at \in {"insert", "drainInsert"} =>
               /\ taken \in 1 .. Len(order)
               /\ InHand = <<order[taken]>> /\ got[Async] = order[taken]
         /\ at \notin {"fetch", "drainFetch", "insert", "drainInsert"} => InHand = <<>>
         /\ InHand \in Seq(Values)
  <1>0. order \in Seq(Values) /\ Len(order) \in Nat /\ taken \in 0 .. Len(order)
    BY LenProperties DEF Base, TypeOK
  <1>1. ASSUME at \in {"fetch", "drainFetch"}
        PROVE  taken \in 1 .. Len(order) /\ InHand = <<order[taken]>>
    BY <1>0, <1>1 DEF Base, HandInv, InHand
  <1>2. ASSUME at \in {"insert", "drainInsert"}
        PROVE  /\ taken \in 1 .. Len(order)
               /\ InHand = <<order[taken]>> /\ got[Async] = order[taken]
    BY <1>0, <1>2 DEF Base, HandInv, InHand
  <1>3. ASSUME at \notin {"fetch", "drainFetch", "insert", "drainInsert"}
        PROVE  InHand = <<>>
    BY <1>3 DEF InHand
  <1>4. taken \in 1 .. Len(order) => <<order[taken]>> \in Seq(Values)
    BY <1>0, ElementOfSeq
  <1>5. <<>> \in Seq(Values)
    BY EmptySeq
  <1> QED BY <1>1, <1>2, <1>3, <1>4, <1>5

\* A step of another thread does not change what is in hand.
LEMMA SameHand ==
  ASSUME Base, at' = at, got' = got, taken' = taken,
         \A i \in 1 .. Len(order) : order'[i] = order[i]
  PROVE  InHand' = InHand
  <1>1. CASE at \in {"fetch", "drainFetch"}
    <2>1. order'[taken'] = order[taken]
      BY <1>1, Holding
    <2> QED BY <1>1, <2>1 DEF InHand
  <1>2. CASE at \notin {"fetch", "drainFetch"}
    BY <1>2 DEF InHand
  <1> QED BY <1>1, <1>2

\* Nor does a step that changes neither the queue nor the files touch the order.
LEMMA OrderSame ==
  ASSUME Base, FileInOrder, UNCHANGED <<isAsync, file, stream, past, queueVars, at>>
  PROVE  FileInOrder'
  <1>1. InHand' = InHand
    BY SameHand DEF queueVars
  <1> QED BY <1>1 DEF FileInOrder, queueVars

\* A line at the back of the queue is behind all that was taken.
LEMMA OrderAccept ==
  ASSUME Base, FileInOrder, NEW w \in Writers, Accept(w)
  PROVE  FileInOrder'
  <1> USE DEF Accept, logVars, fileVars, history, Queue!Claim
  <1>0. /\ order \in Seq(Values) /\ Len(order) \in Nat /\ taken \in 0 .. Len(order)
        /\ Line(w) \in Values
    BY LenProperties, BaseAccept DEF Base, TypeOK
  <1>1. InHand' = InHand
    BY SameHand, BaseAccept
  <1>2. SubSeq(order', 1, taken) = SubSeq(order, 1, taken)
    <2>1. order' = order \o <<Line(w)>> /\ <<Line(w)>> \in Seq(Values)
      BY <1>0, AppendIsConcat
    <2>2. CASE taken = 0
      BY <2>2, SubSeqEmpty
    <2>3. CASE taken # 0
      <3>1. 1 \in 1 .. Len(order) /\ taken \in 1 .. Len(order)
        BY <1>0, <2>3
      <3> QED BY <1>0, <2>1, <3>1, SubSeqOfConcat1
    <2> QED BY <2>2, <2>3
  <1> QED BY <1>1, <1>2 DEF FileInOrder

\* Only async_write writes to the file of an asynchronous log; a flush moves
\* lines from the stream to the file.
LEMMA OrderFlushed ==
  ASSUME Base, FileInOrder, Flushed, InHand' = InHand,
         UNCHANGED <<isAsync, past, queueVars>>
  PROVE  FileInOrder'
  <1>1. file \in Seq(Values) /\ stream \in Seq(Values) /\ file \o stream \in Seq(Values)
    BY ConcatProperties DEF Base, TypeOK
  <1>2. file' \o stream' = file \o stream
    BY <1>1, ConcatEmptySeq DEF Flushed
  <1> QED BY <1>2 DEF FileInOrder, queueVars

LEMMA OrderTake ==
  ASSUME Base, FileInOrder, Take
  PROVE  FileInOrder'
  <1> USE DEF Take, logVars, fileVars, history, Queue!Take
  <1>0. /\ order \in Seq(Values) /\ Len(order) \in Nat
        /\ taken \in Nat /\ taken + 1 \in 1 .. Len(order) /\ 1 \in 1 .. Len(order)
    BY LenProperties DEF Base, TypeOK
  <1>1. InHand = <<>> /\ InHand' = <<order[taken + 1]>>
    BY DEF InHand
  <1>2. SubSeq(order, 1, taken + 1) = SubSeq(order, 1, taken) \o <<order[taken + 1]>>
    <2>1. SubSeq(order, 1, taken + 1)
            = SubSeq(order, 1, (taken + 1) - 1) \o <<order[taken + 1]>>
      BY <1>0, SubSeqRecursiveSecond
    <2>2. (taken + 1) - 1 = taken
      BY <1>0
    <2> QED BY <2>1, <2>2
  <1>3. file \o stream \in Seq(Values) /\ (file \o stream) \o <<>> = file \o stream
    BY ConcatProperties, ConcatEmptySeq DEF Base, TypeOK
  <1>4. past \o (SubSeq(order, 1, taken) \o <<order[taken + 1]>>)
          = (past \o SubSeq(order, 1, taken)) \o <<order[taken + 1]>>
    <2>1. SubSeq(order, 1, taken) \in Seq(Values)
      BY <1>0, ElementOfSeq, SubSeqProperties
    <2>2. past \in Seq(Values) /\ <<order[taken + 1]>> \in Seq(Values)
      BY <1>0, ElementOfSeq DEF Base, TypeOK
    <2> DEFINE p == SubSeq(order, 1, taken)  t == <<order[taken + 1]>>
    <2>3. past \in Seq(Values) /\ p \in Seq(Values) /\ t \in Seq(Values)
      BY <2>1, <2>2
    <2> HIDE DEF p, t
    <2>4. (past \o p) \o t = past \o (p \o t)
      BY <2>3, ConcatAssociative
    <2> QED BY <2>4 DEF p, t
  <1>5. isAsync => file \o stream = past \o SubSeq(order, 1, taken)
    BY <1>1, <1>3 DEF FileInOrder
  <1> QED BY <1>1, <1>2, <1>4, <1>5 DEF FileInOrder

LEMMA OrderFetch ==
  ASSUME Base, FileInOrder, Fetch
  PROVE  FileInOrder'
  <1> USE DEF Fetch, logVars, fileVars, history, Queue!Fetch
  <1>1. InHand = <<order[taken]>>
    BY Holding
  <1>2. InHand' = <<order[taken]>>
    BY BaseFetch DEF InHand
  <1> QED BY <1>1, <1>2 DEF FileInOrder

LEMMA OrderInsert ==
  ASSUME Base, FileInOrder, InsertLine
  PROVE  FileInOrder'
  <1> USE DEF InsertLine, Insert, queueVars, logVars, history
  <1> DEFINE v == got[Async]
  <1>1. InHand = <<v>> /\ InHand' = <<>>
    BY DEF InHand
  <1>2. /\ v \in Values /\ <<v>> \in Seq(Values)
        /\ file \in Seq(Values) /\ stream \in Seq(Values)
        /\ file \o stream \in Seq(Values) /\ <<>> \in Seq(Values)
    BY BaseInsert, ConcatProperties, EmptySeq DEF Base, TypeOK
  <1>3. file' \o stream' = (file \o stream) \o <<v>> /\ file' \o stream' \in Seq(Values)
    <2>1. CASE Len(stream) < StreamCap
      <3>1. file' \o stream' = file \o (stream \o <<v>>)
        BY <1>2, <2>1, AppendIsConcat
      <3> QED BY <1>2, <3>1, ConcatAssociative, ConcatProperties
    <2>2. CASE ~(Len(stream) < StreamCap)
      <3>1. file' = (file \o stream) \o <<v>> /\ stream' = <<>>
        BY <1>2, <2>2, AppendIsConcat
      <3>2. file' \in Seq(Values)
        BY <1>2, <3>1, ConcatProperties
      <3> QED BY <3>1, <3>2, ConcatEmptySeq
    <2> QED BY <2>1, <2>2
  <1>4. (file' \o stream') \o <<>> = file' \o stream'
    BY <1>3, ConcatEmptySeq
  <1> HIDE DEF v
  <1> QED BY <1>1, <1>3, <1>4 DEF FileInOrder

\* A start finds an empty queue and adds nothing to the file.
LEMMA OrderStart ==
  ASSUME Base, FileInOrder, Start
  PROVE  FileInOrder'
  <1> USE DEF Start, Opened, queueVars
  <1>1. CASE opened' = FALSE /\ UNCHANGED <<isAsync, at, file>>
    BY <1>1 DEF Base, ModeInv, FileInOrder
  <1>2. CASE at' = (IF isAsync' THEN "loop" ELSE "none") /\ file' = file
    <2>1. InHand' = <<>> /\ taken' = 0 /\ stream' = <<>> /\ file' = past'
      BY <1>2 DEF InHand, Base, ModeInv
    <2>2. SubSeq(order', 1, taken') = <<>>
      BY <2>1, SubSeqEmpty
    <2>3. past' \in Seq(Values) /\ past' \o <<>> = past'
      BY ConcatEmptySeq DEF Base, TypeOK
    <2> QED BY <2>1, <2>2, <2>3 DEF FileInOrder
  <1> QED BY <1>1, <1>2

LEMMA OrderStep ==
  ASSUME Base, FileInOrder, [Next]_vars
  PROVE  FileInOrder'
  <1>1. ASSUME NEW w \in Writers, Write(w)
        PROVE  FileInOrder'
    <2>1. CASE Begin(w)
      BY <2>1, OrderSame DEF Begin, logVars, fileVars, history
    <2>2. CASE Accept(w)
      BY <2>2, OrderAccept
    <2>3. CASE Store(w)
      <3>1. InHand' = InHand
        BY <2>3, SameHand DEF Store, Queue!Store
      <3> QED BY <2>3, <3>1
              DEF Store, Queue!Store, logVars, fileVars, history, FileInOrder
    <2>4. CASE Refuse(w)
      BY <2>4, OrderSame DEF Refuse, logVars, fileVars
    <2>5. CASE WriteFile(w)
      BY <2>5 DEF WriteFile, logVars, Base, ModeInv, FileInOrder
    <2> QED BY <1>1, <2>1, <2>2, <2>3, <2>4, <2>5 DEF Write
  <1>2. CASE Idle
    <2>1. InHand' = InHand
      BY <1>2 DEF Idle, AfterStop, InHand
    <2> QED BY <1>2, <2>1 DEF Idle, logVars, fileVars, history, queueVars, FileInOrder
  <1>3. CASE LastFlush
    <2>1. InHand' = InHand
      BY <1>3 DEF LastFlush, InHand
    <2> QED BY <1>3, <2>1, OrderFlushed DEF LastFlush, logVars, history
  <1>4. CASE Flush
    <2>1. InHand' = InHand
      BY <1>4, SameHand DEF Flush, queueVars
    <2> QED BY <1>4, <2>1, OrderFlushed DEF Flush, logVars, history
  <1>5. CASE Exit
    BY <1>5, OrderSame DEF Exit, fileVars, history
  <1>6. CASE Close \/ Kill
    BY <1>6 DEF Close, Kill, Gone, FileInOrder
  <1>7. CASE UNCHANGED vars
    BY <1>7, OrderSame DEF vars, queueVars
  <1> QED BY <1>1, <1>2, <1>3, <1>4, <1>5, <1>6, <1>7, OrderTake, OrderFetch,
             OrderInsert, OrderStart DEF Next, AsyncWrite

(***************************************************************************)
(* No line is lost without a reason: one step per action.                  *)
(***************************************************************************)

Begun == {w \in Writers : pc[w] # "idle"}

\* The parts of Unsafe.
LEMMA UnsafeIs ==
  Unsafe = {Line(w) : w \in Begun} \cup Waiting(order, taken)
             \cup Lines(InHand) \cup Lines(stream)
  BY DEF Unsafe, Begun

\* A step that begins no line keeps LostInv if it forgets no line.
LEMMA LostKept ==
  ASSUME LostInv, calls' = calls, Accounted \subseteq Accounted'
  PROVE  LostInv'
  BY DEF LostInv

\* Unsafe lines are lines.
LEMMA UnsafeType ==
  ASSUME Base
  PROVE  Unsafe \subseteq Values
  <1>0. /\ order \in Seq(Values) /\ Len(order) \in Nat /\ taken \in 0 .. Len(order)
        /\ stream \in Seq(Values) /\ InHand \in Seq(Values)
    BY LenProperties, Holding DEF Base, TypeOK
  <1>1. \A w \in Begun : Line(w) \in Values
    BY LineType DEF Begun
  <1>2. Waiting(order, taken) \subseteq Values
    BY <1>0, ElementOfSeq DEF Waiting
  <1>3. \A s \in Seq(Values) : Lines(s) \subseteq Values
    BY LenProperties, ElementOfSeq DEF Lines
  <1> QED BY <1>0, <1>1, <1>2, <1>3, UnsafeIs

LEMMA LostBegin ==
  ASSUME Base, LostInv, NEW w \in Writers, Begin(w)
  PROVE  LostInv'
  <1> USE DEF Begin, Goto, queueVars, logVars, fileVars, history
  <1>1. InHand' = InHand
    BY SameHand
  <1>2. Line(w)' = <<w, calls[w] + 1>> /\ w \in Begun'
    BY DEF Base, TypeOK, Line, Begun
  <1>3. \A x \in Begun : x \in Begun' /\ Line(x)' = Line(x)
    BY DEF Base, TypeOK, Line, Begun
  <1>4. Unsafe \subseteq Unsafe' /\ Line(w)' \in Unsafe'
    BY <1>1, <1>2, <1>3, UnsafeIs DEF Unsafe, Begun
  <1>5. Accounted \subseteq Accounted' /\ <<w, calls[w] + 1>> \in Accounted'
    BY <1>2, <1>4 DEF Accounted
  <1>6. ASSUME NEW x \in Writers, NEW k \in 1 .. calls'[x]
        PROVE  k \in 1 .. calls[x] \/ (x = w /\ k = calls[w] + 1)
    BY <1>6 DEF Base, TypeOK
  <1> QED BY <1>5, <1>6 DEF LostInv

LEMMA LostAccept ==
  ASSUME Base, LostInv, NEW w \in Writers, Accept(w)
  PROVE  LostInv'
  <1> USE DEF Accept, Goto, logVars, fileVars, history, Queue!Claim
  <1>1. InHand' = InHand
    BY SameHand, BaseAccept
  <1>2. Begun' = Begun /\ \A x \in Begun : Line(x)' = Line(x)
    BY DEF Base, TypeOK, Line, Begun
  <1>3. Waiting(order, taken) \subseteq Waiting(order', taken')
    <2>1. /\ order \in Seq(Values) /\ taken \in 0 .. Len(order) /\ Line(w) \in Values
          /\ order' = Append(order, Line(w)) /\ taken' = taken
      BY BaseAccept DEF Base, TypeOK
    <2>2. Waiting(Append(order, Line(w)), taken) = Waiting(order, taken) \cup {Line(w)}
      BY <2>1, WaitAppend
    <2> QED BY <2>1, <2>2
  <1>4. Unsafe \subseteq Unsafe'
    BY <1>1, <1>2, <1>3, UnsafeIs DEF Unsafe, Begun
  <1> QED BY <1>4, LostKept DEF Accounted

\* The line of an enqueue that returns is in the queue.
LEMMA LostStore ==
  ASSUME Base, LostInv, NEW w \in Writers, Store(w)
  PROVE  LostInv'
  <1> USE DEF Store, Goto, logVars, fileVars, history, Queue!Store
  <1>1. InHand' = InHand
    BY SameHand
  <1>2. Line(w) \in Waiting(order, taken)
    <2>1. storing[w] \in taken .. Len(order) - 1 /\ order[storing[w] + 1] = Line(w)
      BY DEF Base, StoreInv
    <2>2. taken \in Nat /\ Len(order) \in Nat
      BY LenProperties DEF Base, TypeOK
    <2>3. storing[w] + 1 \in taken + 1 .. Len(order)
      BY <2>1, <2>2
    <2> QED BY <2>1, <2>3 DEF Waiting
  <1>3. \A x \in Begun : x # w => x \in Begun' /\ Line(x)' = Line(x)
    BY DEF Base, TypeOK, Line, Begun
  <1>4. Unsafe \subseteq Unsafe'
    BY <1>1, <1>2, <1>3, UnsafeIs DEF Unsafe, Begun
  <1> QED BY <1>4, LostKept DEF Accounted

LEMMA LostRefuse ==
  ASSUME Base, LostInv, NEW w \in Writers, Refuse(w)
  PROVE  LostInv'
  <1> USE DEF Refuse, AfterRefusal, Goto, queueVars, logVars, fileVars
  <1>1. InHand' = InHand
    BY SameHand
  <1>2. \A x \in Begun : x # w => x \in Begun' /\ Line(x)' = Line(x)
    BY DEF Base, TypeOK, Line, Begun
  <1>3. Unsafe \subseteq Unsafe' \cup {Line(w)}
    BY <1>1, <1>2, UnsafeIs DEF Unsafe, Begun
  <1> QED BY <1>3, LostKept DEF Accounted

\* A synchronous write that returns has its line in the file.
LEMMA LostWriteFile ==
  ASSUME Base, LostInv, NEW w \in Writers, WriteFile(w)
  PROVE  LostInv'
  <1> USE DEF WriteFile, Goto, queueVars, logVars, history
  <1>0. file \in Seq(Values) /\ stream \in Seq(Values)
    BY DEF Base, TypeOK
  <1>1. InHand' = InHand
    BY SameHand
  <1>2. \A x \in Begun : x # w => x \in Begun' /\ Line(x)' = Line(x)
    BY DEF Base, TypeOK, Line, Begun
  <1>3. Lines(file') = Lines(file) \cup Lines(stream) \cup {Line(w)}
    <2>1. file \o stream \in Seq(Values) /\ Line(w) \in Values
      BY BaseWriteFile
    <2>2. Lines(Append(file \o stream, Line(w))) = Lines(file \o stream) \cup {Line(w)}
      BY <2>1, LinesAppend
    <2>3. Lines(file \o stream) = Lines(file) \cup Lines(stream)
      BY <1>0, LinesConcat
    <2> QED BY <2>2, <2>3
  <1>4. Unsafe \subseteq Unsafe' \cup Lines(file')
    BY <1>1, <1>2, <1>3, UnsafeIs DEF Unsafe, Begun
  <1> QED BY <1>3, <1>4, LostKept DEF Accounted

\* A flush leaves no line behind.
LEMMA LostFlushed ==
  ASSUME Base, LostInv, Flushed, InHand' = InHand,
         UNCHANGED <<queueVars, pc, calls, history>>
  PROVE  LostInv'
  <1> USE DEF Flushed, queueVars, history
  <1>0. file \in Seq(Values) /\ stream \in Seq(Values)
    BY DEF Base, TypeOK
  <1>1. Lines(file') = Lines(file) \cup Lines(stream)
    BY <1>0, LinesConcat
  <1>2. Begun' = Begun /\ \A x \in Begun : Line(x)' = Line(x)
    BY DEF Line, Begun
  <1>3. Unsafe \subseteq Unsafe' \cup Lines(file')
    BY <1>1, <1>2, UnsafeIs DEF Unsafe, Begun
  <1> QED BY <1>1, <1>3, LostKept DEF Accounted

\* async_write carries a line from the queue ...
LEMMA LostTake ==
  ASSUME Base, LostInv, Take
  PROVE  LostInv'
  <1> USE DEF Take, logVars, fileVars, history, Queue!Take
  <1>0. /\ order \in Seq(Values) /\ Len(order) \in Nat
        /\ taken \in 0 .. Len(order) - 1 /\ taken' = taken + 1
    BY LenProperties DEF Base, TypeOK
  <1>1. Waiting(order, taken) = Waiting(order, taken + 1) \cup {order[taken + 1]}
    BY <1>0, WaitTake
  <1>2. InHand = <<>> /\ InHand' = <<order[taken + 1]>>
    BY <1>0 DEF InHand
  <1>3. Lines(InHand) = {} /\ order[taken + 1] \in Lines(InHand')
    BY <1>2 DEF Lines
  <1>4. Begun' = Begun /\ \A x \in Begun : Line(x)' = Line(x)
    BY DEF Line, Begun
  <1>5. Unsafe \subseteq Unsafe'
    BY <1>0, <1>1, <1>3, <1>4, UnsafeIs DEF Unsafe, Begun
  <1> QED BY <1>5, LostKept DEF Accounted

LEMMA LostFetch ==
  ASSUME Base, LostInv, Fetch
  PROVE  LostInv'
  <1> USE DEF Fetch, logVars, fileVars, history, Queue!Fetch
  <1>1. InHand' = InHand
    <2>1. InHand = <<order[taken]>>
      BY Holding
    <2> QED BY <2>1, BaseFetch DEF InHand
  <1>2. Begun' = Begun /\ \A x \in Begun : Line(x)' = Line(x)
    BY DEF Line, Begun
  <1>3. Unsafe \subseteq Unsafe'
    BY <1>1, <1>2, UnsafeIs DEF Unsafe, Begun
  <1> QED BY <1>3, LostKept DEF Accounted

\* ... to the stream, which hands what it has to the file when it is full.
LEMMA LostInsert ==
  ASSUME Base, LostInv, InsertLine
  PROVE  LostInv'
  <1> USE DEF InsertLine, Insert, queueVars, logVars, history
  <1> DEFINE v == got[Async]
  <1>0. /\ file \in Seq(Values) /\ stream \in Seq(Values) /\ v \in Values
        /\ file \o stream \in Seq(Values)
    BY BaseInsert, ConcatProperties DEF Base, TypeOK
  <1>1. Lines(InHand) = {v}
    BY DEF InHand, Lines
  <1>2. Lines(file) \cup Lines(stream) \cup {v} \subseteq Lines(file') \cup Lines(stream')
    <2>1. Lines(Append(stream, v)) = Lines(stream) \cup {v}
      BY <1>0, LinesAppend
    <2>2. Lines(Append(file \o stream, v)) = Lines(file \o stream) \cup {v}
      BY <1>0, LinesAppend
    <2>3. Lines(file \o stream) = Lines(file) \cup Lines(stream)
      BY <1>0, LinesConcat
    <2> QED BY <2>1, <2>2, <2>3
  <1>3. Begun' = Begun /\ \A x \in Begun : Line(x)' = Line(x)
    BY DEF Line, Begun
  <1>4. Unsafe \subseteq Unsafe' \cup Lines(file') /\ Lines(file) \subseteq Accounted'
    BY <1>1, <1>2, <1>3, UnsafeIs DEF Unsafe, Begun, Accounted
  <1> QED BY <1>4, LostKept DEF Accounted

\* A step that moves no line.
LEMMA LostSame ==
  ASSUME Base, LostInv, InHand' = InHand,
         UNCHANGED <<queueVars, pc, calls, fileVars, refused, killed>>
  PROVE  LostInv'
  <1> USE DEF queueVars, fileVars
  <1>1. Begun' = Begun /\ \A x \in Begun : Line(x)' = Line(x)
    BY DEF Line, Begun
  <1>2. Unsafe \subseteq Unsafe'
    BY <1>1, UnsafeIs DEF Unsafe, Begun
  <1> QED BY <1>2, LostKept DEF Accounted

\* When the destructor closes the file, what is not in it is in the stream:
\* nobody writes, and the thread has drained the queue.
LEMMA LostClose ==
  ASSUME Base, LostInv, Close
  PROVE  LostInv'
  <1>0. /\ file \in Seq(Values) /\ stream \in Seq(Values) /\ order \in Seq(Values)
        /\ Len(order) \in Nat /\ taken \in 0 .. Len(order)
    BY LenProperties DEF Base, TypeOK
  <1>1. Begun = {}
    BY DEF Close, Base, ModeInv, Begun
  <1>2. taken = Len(order)
    <2>1. CASE at = "done"
      BY <2>1 DEF Base, ModeInv
    <2>2. CASE at = "none"
      BY <2>2, <1>0 DEF Base, ModeInv
    <2> QED BY <2>1, <2>2 DEF Close
  <1>3. Waiting(order, taken) = {}
    BY <1>0, <1>2 DEF Waiting
  <1>4. Lines(InHand) = {}
    BY DEF Close, InHand, Lines
  <1>5. Unsafe = Lines(stream)
    BY <1>1, <1>3, <1>4, UnsafeIs
  <1>6. Lines(file') = Lines(file) \cup Lines(stream)
    BY <1>0, LinesConcat DEF Close
  <1> QED BY <1>5, <1>6, LostKept DEF Close, Gone, Accounted

LEMMA LostStep ==
  ASSUME Base, LostInv, [Next]_vars
  PROVE  LostInv'
  <1>1. ASSUME NEW w \in Writers, Write(w)
        PROVE  LostInv'
    BY <1>1, LostBegin, LostAccept, LostStore, LostRefuse, LostWriteFile DEF Write
  <1>2. CASE Idle
    <2>1. InHand' = InHand
      BY <1>2 DEF Idle, AfterStop, InHand
    <2> QED BY <1>2, <2>1, LostSame DEF Idle, history
  <1>3. CASE LastFlush
    <2>1. InHand' = InHand
      BY <1>3 DEF LastFlush, InHand
    <2> QED BY <1>3, <2>1, LostFlushed DEF LastFlush
  <1>4. CASE Flush
    <2>1. InHand' = InHand
      BY <1>4, SameHand DEF Flush, queueVars
    <2> QED BY <1>4, <2>1, LostFlushed DEF Flush
  <1>5. CASE Exit
    <2>1. InHand' = InHand
      BY <1>5, SameHand DEF Exit, queueVars
    <2> QED BY <1>5, <2>1, LostSame DEF Exit, history
  <1>6. CASE Start
    <2>1. InHand' = InHand
      <3>1. at = "none" /\ at' \in {"none", "loop"}
        BY <1>6 DEF Start, Base, ModeInv
      <3> QED BY <3>1 DEF InHand
    <2>2. file' = file /\ stream' = stream
      BY <1>6 DEF Start, Opened
    <2> QED BY <1>6, <2>1, <2>2, LostSame DEF Start, fileVars
  <1>7. CASE Kill
    BY <1>7, LostKept DEF Kill, Gone, Accounted
  <1>8. CASE UNCHANGED vars
    <2>1. InHand' = InHand
      BY <1>8, SameHand DEF vars
    <2> QED BY <1>8, <2>1, LostSame DEF vars, queueVars, fileVars
  <1> QED BY <1>1, <1>2, <1>3, <1>4, <1>5, <1>6, <1>7, <1>8, LostTake, LostFetch,
             LostInsert, LostClose DEF Next, AsyncWrite

(***************************************************************************)
(* The theorems.                                                           *)
(***************************************************************************)

LEMMA BaseStep ==
  ASSUME Base, [Next]_vars
  PROVE  Base'
  <1>1. ASSUME NEW w \in Writers, Write(w)
        PROVE  Base'
    BY <1>1, BaseBegin, BaseAccept, BaseStore, BaseRefuse, BaseWriteFile DEF Write
  <1>2. CASE Close
    <2>1. file' \in Seq(Values) /\ killed' \subseteq Values
      BY <1>2, ConcatProperties DEF Close, Base, TypeOK
    <2> QED BY <1>2, <2>1, BaseGone DEF Close
  <1>3. CASE Kill
    <2>1. file' \in Seq(Values) /\ killed' \subseteq Values
      BY <1>3, UnsafeType DEF Kill, Base, TypeOK
    <2> QED BY <1>3, <2>1, BaseGone DEF Kill
  <1>4. CASE UNCHANGED vars
    BY <1>4 DEF vars, Base, TypeOK, ModeInv, HandInv, StoreInv, Line
  <1> QED BY <1>1, <1>2, <1>3, <1>4, BaseTake, BaseFetch, BaseInsert, BaseIdle,
             BaseLastFlush, BaseFlush, BaseStart, BaseExit DEF Next, AsyncWrite

LEMMA InitInv == Init => Inv
  <1> SUFFICES ASSUME Init PROVE Inv
    OBVIOUS
  <1>1. ~isAsync /\ \A w \in Writers : calls[w] = 0
    BY DEF Init
  <1>2. FileInOrder /\ LostInv
    BY <1>1 DEF FileInOrder, LostInv
  <1> QED BY <1>2, BaseInit DEF Inv

LEMMA Invariance == Spec => []Inv
  <1>1. Inv /\ [Next]_vars => Inv'
    BY BaseStep, OrderStep, LostStep DEF Inv
  <1> QED BY InitInv, <1>1, PTL DEF Spec

\* The variables keep their types, and a writer that is at its store holds a
\* ticket of the queue.
THEOREM Types == Spec => []TypeOK
  <1>1. Inv => TypeOK
    BY DEF Inv, Base
  <1> QED BY Invariance, <1>1, PTL

\* The file of the asynchronous log holds the lines in the order in which
\* enqueue accepted them, each once, behind what earlier processes wrote
\* (logger.cpp:66-86).
THEOREM InOrder == Spec => []FileInOrder
  <1>1. Inv => FileInOrder
    BY DEF Inv
  <1> QED BY Invariance, <1>1, PTL

\* When the process has ended, every line of a write is in the file, unless
\* the queue refused it or the process was killed on it (logger.cpp:7-15, 66-86).
THEOREM NothingElseLost == Spec => []LostOnlyIfRefusedOrKilled
  <1>1. ASSUME Inv PROVE LostOnlyIfRefusedOrKilled
    <2>1. ASSUME process = "down" PROVE Unsafe = {}
      <3>1. Begun = {} /\ at = "none" /\ stream = <<>> /\ order = <<>> /\ taken = 0
        BY <1>1, <2>1 DEF Inv, Base, ModeInv, Begun
      <3>2. Waiting(order, taken) = {}
        BY <3>1 DEF Waiting
      <3>3. Lines(InHand) = {} /\ Lines(stream) = {}
        BY <3>1 DEF InHand, Lines
      <3> QED BY <3>1, <3>2, <3>3, UnsafeIs
    <2> QED BY <1>1, <2>1 DEF Inv, LostInv, Accounted, LostOnlyIfRefusedOrKilled
  <1> QED BY Invariance, <1>1, PTL
=============================================================================
