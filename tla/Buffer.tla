------------------------------- MODULE Buffer -------------------------------
(***************************************************************************)
(* The growing buffer of buffer.cpp: a vector of bytes with a read and a   *)
(* write position, the window between them slides to the right until       *)
(* MakeSpace_ moves it back to the front or makes the vector longer.       *)
(* Positions count from 0 as in the code, mem[i + 1] is buffer_[i].        *)
(***************************************************************************)
EXTENDS Integers, Sequences

CONSTANTS
  Bytes,     \* what a byte can be
  Zero,      \* the byte a vector is filled with
  InitSize,  \* initBuffSize, 1024
  Extra      \* size of the second area of readv, 65535

ASSUME BufferAssumption ==
  Zero \in Bytes /\ InitSize \in Nat \ {0} /\ Extra \in Nat \ {0}

VARIABLES
  buf,  \* the Buffer: buffer_, read_pos_, write_pos_
  put,  \* history: every byte written into it, in order
  got   \* history: every byte retrieved from it, in order

bufferVars == <<buf, put, got>>

Buffers == [mem : Seq(Bytes), r : Nat, w : Nat]

BufferInit ==
  /\ buf = [mem |-> [i \in 1 .. InitSize |-> Zero], r |-> 0, w |-> 0]
  /\ put = <<>> /\ got = <<>>

Readable(b) == b.w - b.r
Writable(b) == Len(b.mem) - b.w

\* The bytes from peek() on.
Contents(b) == SubSeq(b.mem, b.r + 1, b.w)

\* buffer_.resize(n)
Resized(m, n) == [i \in 1 .. n |-> IF i <= Len(m) THEN m[i] ELSE Zero]

\* Mutant: the window is moved from the front of the buffer.
Moved_FromFront(b) == b.mem

\* std::copy of the window to the front of the vector.
Moved(b) == [i \in 1 .. Len(b.mem) |-> IF i <= Readable(b) THEN b.mem[b.r + i] ELSE b.mem[i]]

\* Mutant: the room in front of the window is forgotten.
TooSmall_NoPrepend(b, len) == Writable(b) < len

\* The vector itself must grow to take len more bytes.
TooSmall(b, len) == Writable(b) + b.r < len

\* MakeSpace_, called when len bytes do not fit behind the window.
MakeSpace(b, len) ==
  IF TooSmall(b, len)
    THEN [b EXCEPT !.mem = Resized(b.mem, b.w + len + 1)]
    ELSE [mem |-> Moved(b), r |-> 0, w |-> Readable(b)]

EnsureWriteable(b, len) == IF Writable(b) < len THEN MakeSpace(b, len) ELSE b

\* std::copy of s to BeginWrite(), then AfterWrite.
Stored(b, s) ==
  [b EXCEPT !.mem = [i \in 1 .. Len(b.mem) |->
                       IF b.w < i /\ i <= b.w + Len(s) THEN s[i - b.w] ELSE b.mem[i]],
            !.w = b.w + Len(s)]

Appended(b, s) == Stored(EnsureWriteable(b, Len(s)), s)

(***************************************************************************)
(* The operations.                                                         *)
(***************************************************************************)

BufferAppend(s) ==
  /\ buf' = Appended(buf, s)
  /\ put' = put \o s /\ UNCHANGED got

\* Mutant: the second area is appended without noting that the first is full.
Received_NotFilled(b, s) ==
  IF Len(s) <= Writable(b) THEN Stored(b, s)
  ELSE Appended(b, SubSeq(s, Writable(b) + 1, Len(s)))

\* The buffer after readv filled the room behind the window, then the area
\* on the stack, which is appended.
Received(b, s) ==
  IF Len(s) <= Writable(b) THEN Stored(b, s)
  ELSE Appended(Stored(b, SubSeq(s, 1, Writable(b))),
                SubSeq(s, Writable(b) + 1, Len(s)))

\* ReadFd reads s.
ReadFd(s) ==
  /\ Len(s) <= Writable(buf) + Extra
  /\ buf' = Received(buf, s)
  /\ put' = put \o s /\ UNCHANGED got

\* Retrieve moves the read position; it asserts that n bytes are readable.
Retrieve(n) ==
  /\ buf' = [buf EXCEPT !.r = @ + n]
  /\ got' = got \o SubSeq(buf.mem, buf.r + 1, buf.r + n) /\ UNCHANGED put

\* RetrieveUntil(end), which asserts that end is not before peek().
RetrieveUntil(end) == Retrieve(end - buf.r)

\* WriteFd: write takes n of the readable bytes, or fails and takes none.
WriteFd(n) == Retrieve(n)

\* RetrieveAll, which RetrieveAllToStr calls too: the window is given out, the
\* vector filled with zeros.
RetrieveAll ==
  /\ buf' = [mem |-> [i \in 1 .. Len(buf.mem) |-> Zero], r |-> 0, w |-> 0]
  /\ got' = got \o Contents(buf) /\ UNCHANGED put

BufferNext ==
  \/ \E s \in Seq(Bytes) : BufferAppend(s) \/ ReadFd(s)
  \/ \E n \in 0 .. Readable(buf) : Retrieve(n) \/ WriteFd(n)
  \/ \E end \in buf.r .. buf.w : RetrieveUntil(end)
  \/ RetrieveAll

BufferSpec == BufferInit /\ [][BufferNext]_bufferVars

(***************************************************************************)
(* Properties.                                                             *)
(***************************************************************************)

\* The window stays inside the vector: neither the asserts of Retrieve and
\* EnsureWriteable nor a copy ever reach beyond it.
BufferOK ==
  /\ buf \in Buffers /\ buf.r <= buf.w /\ buf.w <= Len(buf.mem)
  /\ put \in Seq(Bytes) /\ got \in Seq(Bytes)

\* A sliding window (readme.md:26) on the stream: whatever was written comes
\* out once and in order, across every move and every growth of the vector.
SlidingWindow ==
  /\ Len(put) = Len(got) + Readable(buf)
  /\ \A i \in 1 .. Len(put) :
       put[i] = IF i <= Len(got) THEN got[i] ELSE buf.mem[buf.r + (i - Len(got))]

\* The vector grows only when the bytes it has to hold outnumber it.
GrowsWhenFull ==
  [][Len(buf'.mem) > Len(buf.mem) => Readable(buf') > Len(buf.mem)]_bufferVars
=============================================================================
