---------------------------- MODULE BufferProofs ----------------------------
(***************************************************************************)
(* The growing buffer keeps every byte, for any sequence of appends, reads *)
(* and retrieves: what the operators of Buffer do to the window, then the  *)
(* steps, then the theorems.                                               *)
(***************************************************************************)
EXTENDS Buffer, SequenceTheorems, TLAPS

\* A buffer whose window is inside its vector.
Sound(b) == b \in Buffers /\ b.r <= b.w /\ b.w <= Len(b.mem)

\* c shows the same bytes as b, then those of s.
Extends(c, b, s) ==
  /\ Readable(c) = Readable(b) + Len(s)
  /\ \A i \in 1 .. Readable(b) : c.mem[c.r + i] = b.mem[b.r + i]
  /\ \A i \in 1 .. Len(s) : c.mem[c.r + (Readable(b) + i)] = s[i]

\* A vector that is longer than before was too short for what it holds now.
Needed(c, b, len) == Len(c.mem) > Len(b.mem) => Readable(b) + len > Len(b.mem)

\* What resize leaves: a vector of n bytes that starts with the old ones.
LEMMA ResizedIs ==
  ASSUME NEW m \in Seq(Bytes), NEW n \in Nat
  PROVE  /\ Resized(m, n) \in Seq(Bytes) /\ Len(Resized(m, n)) = n
         /\ \A i \in 1 .. n : i <= Len(m) => Resized(m, n)[i] = m[i]
  <1>1. \A i \in 1 .. n : (IF i <= Len(m) THEN m[i] ELSE Zero) \in Bytes
    BY BufferAssumption
  <1> QED BY <1>1 DEF Resized

\* What the copy to the front leaves: the window, at the front.
LEMMA MovedIs ==
  ASSUME NEW b, Sound(b)
  PROVE  /\ Moved(b) \in Seq(Bytes) /\ Len(Moved(b)) = Len(b.mem)
         /\ \A i \in 1 .. Readable(b) : Moved(b)[i] = b.mem[b.r + i]
  <1> /\ b.mem \in Seq(Bytes) /\ b.r \in Nat /\ b.w \in Nat /\ b.r <= b.w /\ b.w <= Len(b.mem)
    BY DEF Sound, Buffers
  <1>1. \A i \in 1 .. Len(b.mem) :
          (IF i <= Readable(b) THEN b.mem[b.r + i] ELSE b.mem[i]) \in Bytes
    BY DEF Readable
  <1> QED BY <1>1 DEF Moved, Readable

\* EnsureWriteable makes room for len bytes and shows the same window.
LEMMA EnsureIs ==
  ASSUME NEW b, Sound(b), NEW len \in Nat
  PROVE  LET c == EnsureWriteable(b, len) IN
         /\ Sound(c) /\ c.w + len <= Len(c.mem)
         /\ Readable(c) = Readable(b)
         /\ \A i \in 1 .. Readable(b) : c.mem[c.r + i] = b.mem[b.r + i]
         /\ Needed(c, b, len)
  <1> DEFINE c == EnsureWriteable(b, len)
  <1>0. /\ b \in Buffers /\ b.mem \in Seq(Bytes) /\ b.r \in Nat /\ b.w \in Nat
        /\ b.r <= b.w /\ b.w <= Len(b.mem) /\ Len(b.mem) \in Nat
    BY DEF Sound, Buffers
  <1>1. CASE ~(Writable(b) < len)
    BY <1>0, <1>1 DEF EnsureWriteable, Sound, Readable, Writable, Needed
  <1>2. CASE Writable(b) < len /\ TooSmall(b, len)
    <2> DEFINE m == Resized(b.mem, b.w + len + 1)
    <2>1. c = [b EXCEPT !.mem = m]
      BY <1>2 DEF EnsureWriteable, MakeSpace
    <2>2. /\ m \in Seq(Bytes) /\ Len(m) = b.w + len + 1
          /\ \A i \in 1 .. b.w + len + 1 : i <= Len(b.mem) => m[i] = b.mem[i]
      <3>1. b.w + len + 1 \in Nat BY <1>0
      <3> QED BY <1>0, <3>1, ResizedIs
    <2> HIDE DEF m
    <2>3. c \in Buffers /\ c.mem = m /\ c.r = b.r /\ c.w = b.w
      BY <1>0, <2>1, <2>2 DEF Buffers
    <2> HIDE DEF c
    <2>4. Sound(c) /\ c.w + len <= Len(c.mem) /\ Readable(c) = Readable(b)
      BY <1>0, <2>2, <2>3 DEF Sound, Readable
    <2>5. ASSUME NEW i \in 1 .. Readable(b) PROVE c.mem[c.r + i] = b.mem[b.r + i]
      <3>1. b.r + i \in 1 .. b.w + len + 1 /\ b.r + i <= Len(b.mem)
        BY <1>0 DEF Readable
      <3> QED BY <2>2, <2>3, <3>1
    <2>6. Needed(c, b, len)
      BY <1>0, <1>2 DEF TooSmall, Needed, Readable, Writable
    <2> QED BY <2>4, <2>5, <2>6 DEF c
  <1>3. CASE Writable(b) < len /\ ~TooSmall(b, len)
    <2> DEFINE m == Moved(b)
    <2>1. c = [mem |-> m, r |-> 0, w |-> Readable(b)]
      BY <1>3 DEF EnsureWriteable, MakeSpace
    <2>2. /\ m \in Seq(Bytes) /\ Len(m) = Len(b.mem)
          /\ \A i \in 1 .. Readable(b) : m[i] = b.mem[b.r + i]
      BY MovedIs
    <2> HIDE DEF m
    <2>3. c \in Buffers /\ c.mem = m /\ c.r = 0 /\ c.w = b.w - b.r
      BY <1>0, <2>1, <2>2 DEF Buffers, Readable
    <2> HIDE DEF c
    <2>4. Sound(c) /\ c.w + len <= Len(c.mem) /\ Readable(c) = Readable(b)
      BY <1>0, <1>3, <2>2, <2>3 DEF Sound, Readable, Writable, TooSmall
    <2>5. \A i \in 1 .. Readable(b) : c.mem[c.r + i] = b.mem[b.r + i]
      BY <1>0, <2>2, <2>3 DEF Readable
    <2>6. Needed(c, b, len)
      BY <2>2, <2>3 DEF Needed
    <2> QED BY <2>4, <2>5, <2>6 DEF c
  <1> QED BY <1>1, <1>2, <1>3

\* Bytes stored where there is room for them are shown behind the window.
LEMMA StoredIs ==
  ASSUME NEW b, Sound(b), NEW s \in Seq(Bytes), b.w + Len(s) <= Len(b.mem)
  PROVE  LET c == Stored(b, s) IN
         Sound(c) /\ Len(c.mem) = Len(b.mem) /\ c.w = b.w + Len(s) /\ Extends(c, b, s)
  <1> DEFINE c == Stored(b, s)
             m == [i \in 1 .. Len(b.mem) |->
                     IF b.w < i /\ i <= b.w + Len(s) THEN s[i - b.w] ELSE b.mem[i]]
  <1>0. /\ b \in Buffers /\ b.mem \in Seq(Bytes) /\ b.r \in Nat /\ b.w \in Nat
        /\ b.r <= b.w /\ b.w <= Len(b.mem) /\ Len(b.mem) \in Nat /\ Len(s) \in Nat
    BY DEF Sound, Buffers
  <1>1. \A i \in 1 .. Len(b.mem) :
          (IF b.w < i /\ i <= b.w + Len(s) THEN s[i - b.w] ELSE b.mem[i]) \in Bytes
    BY <1>0
  <1>2. m \in Seq(Bytes) /\ Len(m) = Len(b.mem)
    BY <1>0, <1>1
  <1>3. \A i \in 1 .. Len(b.mem) :
          m[i] = IF b.w < i /\ i <= b.w + Len(s) THEN s[i - b.w] ELSE b.mem[i]
    OBVIOUS
  <1>4. c = [b EXCEPT !.mem = m, !.w = b.w + Len(s)]
    BY DEF Stored
  <1> HIDE DEF m
  <1>5. c \in Buffers /\ c.mem = m /\ c.r = b.r /\ c.w = b.w + Len(s)
    <2> DEFINE w == b.w + Len(s)
    <2>1. b \in [mem : Seq(Bytes), r : Nat, w : Nat]
      BY <1>0 DEF Buffers
    <2>2. c = [b EXCEPT !.mem = m, !.w = w]
      BY <1>4
    <2>3. w \in Nat /\ m \in Seq(Bytes)
      BY <1>0, <1>2
    <2> HIDE DEF w, c
    <2>4. c.mem = m /\ c.r = b.r /\ c.w = w
      BY <2>1, <2>2
    <2>5. c \in [mem : Seq(Bytes), r : Nat, w : Nat]
      BY <2>1, <2>2, <2>3
    <2> QED BY <2>4, <2>5 DEF Buffers, w
  <1> HIDE DEF c
  <1>6. Sound(c)
    BY <1>0, <1>2, <1>5 DEF Sound
  <1>7. Extends(c, b, s)
    <2>1. Readable(c) = Readable(b) + Len(s)
      BY <1>0, <1>5 DEF Readable
    <2>2. ASSUME NEW i \in 1 .. Readable(b) PROVE c.mem[c.r + i] = b.mem[b.r + i]
      <3>1. b.r + i \in 1 .. Len(b.mem) /\ ~(b.w < b.r + i)
        BY <1>0 DEF Readable
      <3> QED BY <1>3, <1>5, <3>1
    <2>3. \A i \in 1 .. Len(s) : c.mem[c.r + (Readable(b) + i)] = s[i]
      <3> SUFFICES ASSUME NEW i \in 1 .. Len(s) PROVE c.mem[c.r + (Readable(b) + i)] = s[i]
        OBVIOUS
      <3>1. c.r + (Readable(b) + i) = b.w + i
        BY <1>0, <1>5 DEF Readable
      <3>2. b.w + i \in 1 .. Len(b.mem) /\ b.w < b.w + i /\ b.w + i <= b.w + Len(s)
        BY <1>0
      <3>3. (b.w + i) - b.w = i
        BY <1>0
      <3> QED BY <1>3, <1>5, <3>1, <3>2, <3>3
    <2> QED BY <2>1, <2>2, <2>3 DEF Extends
  <1> QED BY <1>2, <1>5, <1>6, <1>7 DEF c

\* Append shows the appended bytes behind the window.
LEMMA AppendedIs ==
  ASSUME NEW b, Sound(b), NEW s \in Seq(Bytes)
  PROVE  LET c == Appended(b, s) IN
         Sound(c) /\ Extends(c, b, s) /\ Needed(c, b, Len(s))
  <1> DEFINE d == EnsureWriteable(b, Len(s))
             c == Stored(d, s)
  <1>1. /\ Sound(d) /\ d.w + Len(s) <= Len(d.mem)
        /\ Readable(d) = Readable(b)
        /\ \A i \in 1 .. Readable(b) : d.mem[d.r + i] = b.mem[b.r + i]
        /\ Needed(d, b, Len(s))
    <2>1. Len(s) \in Nat OBVIOUS
    <2> QED BY <2>1, EnsureIs
  <1> HIDE DEF d
  <1>2. Sound(c) /\ Len(c.mem) = Len(d.mem) /\ Extends(c, d, s)
    BY <1>1, StoredIs
  <1> HIDE DEF c
  <1>3. Extends(c, b, s)
    BY <1>1, <1>2 DEF Extends
  <1>4. Needed(c, b, Len(s))
    BY <1>1, <1>2 DEF Needed
  <1> QED BY <1>2, <1>3, <1>4 DEF c, d, Appended

\* ReadFd shows what it read behind the window, also across its two areas.
LEMMA ReceivedIs ==
  ASSUME NEW b, Sound(b), NEW s \in Seq(Bytes)
  PROVE  LET c == Received(b, s) IN
         Sound(c) /\ Extends(c, b, s) /\ Needed(c, b, Len(s))
  <1>0. /\ b \in Buffers /\ b.mem \in Seq(Bytes) /\ b.r \in Nat /\ b.w \in Nat
        /\ b.r <= b.w /\ b.w <= Len(b.mem) /\ Len(b.mem) \in Nat /\ Len(s) \in Nat
    BY DEF Sound, Buffers
  <1>1. CASE Len(s) <= Writable(b)
    <2>1. b.w + Len(s) <= Len(b.mem)
      BY <1>0, <1>1 DEF Writable
    <2>2. LET c == Stored(b, s) IN Sound(c) /\ Len(c.mem) = Len(b.mem) /\ Extends(c, b, s)
      BY <2>1, StoredIs
    <2> QED BY <1>0, <1>1, <2>2 DEF Received, Needed
  <1>2. CASE ~(Len(s) <= Writable(b))
    <2> DEFINE k == Writable(b)
               s1 == SubSeq(s, 1, k)
               s2 == SubSeq(s, k + 1, Len(s))
               d == Stored(b, s1)
               c == Appended(d, s2)
    <2>1. k \in Nat /\ k < Len(s) /\ b.w + k = Len(b.mem)
      BY <1>0, <1>2 DEF Writable
    <2>2. Received(b, s) = c
      BY <1>2 DEF Received
    <2> HIDE DEF k
    <2>3. s1 \in Seq(Bytes) /\ Len(s1) = k /\ \A i \in 1 .. k : s1[i] = s[i]
      BY <2>1
    <2>4. /\ s2 \in Seq(Bytes) /\ Len(s2) = Len(s) - k
          /\ \A i \in 1 .. Len(s) - k : s2[i] = s[k + i]
      BY <2>1
    <2> HIDE DEF s1, s2
    <2>5. Sound(d) /\ Len(d.mem) = Len(b.mem) /\ d.w = b.w + k /\ Extends(d, b, s1)
      BY <1>0, <2>1, <2>3, StoredIs
    <2> HIDE DEF d
    <2>6. Sound(c) /\ Extends(c, d, s2) /\ Needed(c, d, Len(s2))
      BY <2>4, <2>5, AppendedIs
    <2> HIDE DEF c
    <2>7. Extends(c, b, s)
      <3>1. Readable(c) = Readable(b) + Len(s) /\ Readable(d) = Readable(b) + k /\ Readable(b) \in Nat
        BY <1>0, <2>1, <2>3, <2>4, <2>5, <2>6 DEF Extends, Readable
      <3>2. \A i \in 1 .. Readable(b) : c.mem[c.r + i] = b.mem[b.r + i]
        BY <2>1, <2>5, <2>6, <3>1 DEF Extends
      <3>3. ASSUME NEW i \in 1 .. Len(s) PROVE c.mem[c.r + (Readable(b) + i)] = s[i]
        <4>1. CASE i <= k
          <5>1. Readable(b) + i \in 1 .. Readable(d)
            BY <2>1, <3>1, <4>1
          <5>2. c.mem[c.r + (Readable(b) + i)] = d.mem[d.r + (Readable(b) + i)]
            BY <2>6, <5>1 DEF Extends
          <5>3. i \in 1 .. Len(s1)
            BY <2>1, <2>3, <4>1
          <5>4. d.mem[d.r + (Readable(b) + i)] = s1[i]
            BY <2>5, <5>3 DEF Extends
          <5> QED BY <2>1, <2>3, <4>1, <5>2, <5>4
        <4>2. CASE i > k
          <5>1. i - k \in 1 .. Len(s2) /\ k + (i - k) = i
            BY <1>0, <2>1, <2>4, <4>2
          <5>2. c.mem[c.r + (Readable(d) + (i - k))] = s2[i - k]
            BY <2>6, <5>1 DEF Extends
          <5>3. Readable(d) + (i - k) = Readable(b) + i
            BY <2>1, <3>1
          <5>4. s2[i - k] = s[i]
            BY <2>4, <5>1
          <5> QED BY <5>2, <5>3, <5>4
        <4> QED BY <2>1, <4>1, <4>2
      <3> QED BY <3>1, <3>2, <3>3 DEF Extends
    <2>8. Needed(c, b, Len(s))
      BY <1>0, <2>1, <2>3, <2>4, <2>5, <2>6 DEF Needed, Extends, Readable
    <2> QED BY <2>2, <2>6, <2>7, <2>8
  <1> QED BY <1>1, <1>2

WindowInv == BufferOK /\ SlidingWindow

\* A step that shows s behind the window, and appends it to the history.
LEMMA GrowStep ==
  ASSUME WindowInv, NEW s \in Seq(Bytes), Sound(buf'), Extends(buf', buf, s),
         put' = put \o s, got' = got
  PROVE  WindowInv'
  <1>0. /\ Sound(buf) /\ buf.r \in Nat /\ buf.w \in Nat /\ Readable(buf) \in Nat
        /\ put \in Seq(Bytes) /\ got \in Seq(Bytes) /\ Len(got) \in Nat /\ Len(s) \in Nat
        /\ Len(put) = Len(got) + Readable(buf)
    BY DEF WindowInv, BufferOK, SlidingWindow, Sound, Buffers, Readable
  <1>1. put' \in Seq(Bytes) /\ Len(put') = Len(put) + Len(s) /\ got' \in Seq(Bytes)
    <2>1. put \o s \in Seq(Bytes) /\ Len(put \o s) = Len(put) + Len(s)
      BY <1>0, ConcatProperties
    <2> QED BY <1>0, <2>1
  <1>2. BufferOK'
    BY <1>1 DEF BufferOK, Sound
  <1>3. Readable(buf') = Readable(buf) + Len(s)
    BY DEF Extends
  <1>4. Len(put') = Len(got') + Readable(buf)'
    BY <1>0, <1>1, <1>3 DEF Readable
  <1>5. ASSUME NEW i \in 1 .. Len(put')
        PROVE  put'[i] = IF i <= Len(got') THEN got'[i] ELSE buf'.mem[buf'.r + (i - Len(got'))]
    <2>1. CASE i <= Len(put)
      <3>1. put'[i] = put[i]
        BY <1>0, <1>1, <2>1
      <3>2. put[i] = IF i <= Len(got) THEN got[i] ELSE buf.mem[buf.r + (i - Len(got))]
        <4>1. i \in 1 .. Len(put)
          BY <1>0, <1>1, <2>1
        <4> QED BY <4>1 DEF WindowInv, SlidingWindow
      <3>3. i > Len(got) => i - Len(got) \in 1 .. Readable(buf)
        BY <1>0, <2>1
      <3>4. i > Len(got) =>
              buf'.mem[buf'.r + (i - Len(got))] = buf.mem[buf.r + (i - Len(got))]
        BY <3>3 DEF Extends
      <3> QED BY <1>0, <3>1, <3>2, <3>4
    <2>2. CASE i > Len(put)
      <3> DEFINE j == i - Len(put)
      <3>1. j \in 1 .. Len(s) /\ i = Len(put) + j
        <4>1. Len(put) \in Nat /\ Len(put') \in Nat
          BY <1>0, <1>1
        <4> QED BY <1>0, <1>1, <2>2, <4>1
      <3> HIDE DEF j
      <3>2. put'[i] = s[j]
        <4>1. \A k \in 1 .. Len(put) + Len(s) :
                (put \o s)[k] = IF k <= Len(put) THEN put[k] ELSE s[k - Len(put)]
          BY <1>0, ConcatProperties
        <4>2. /\ Len(put) + j \in 1 .. Len(put) + Len(s)
              /\ ~(Len(put) + j <= Len(put)) /\ (Len(put) + j) - Len(put) = j
          <5>1. Len(put) \in Nat /\ Len(s) \in Nat
            BY <1>0
          <5> QED BY <3>1, <5>1
        <4>3. (put \o s)[Len(put) + j] = s[j]
          BY <4>1, <4>2
        <4> QED BY <3>1, <4>3
      <3>3. buf'.mem[buf'.r + (Readable(buf) + j)] = s[j]
        BY <3>1 DEF Extends
      <3>4. i - Len(got) = Readable(buf) + j /\ i > Len(got)
        BY <1>0, <3>1
      <3> QED BY <1>0, <3>2, <3>3, <3>4
    <2> QED BY <1>0, <2>1, <2>2
  <1>6. SlidingWindow'
    BY <1>4, <1>5 DEF SlidingWindow
  <1> QED BY <1>2, <1>6 DEF WindowInv

\* Retrieving n readable bytes moves them from the window to the history.
LEMMA RetrieveStep ==
  ASSUME WindowInv, NEW n \in 0 .. Readable(buf), Retrieve(n)
  PROVE  WindowInv' /\ Len(buf'.mem) = Len(buf.mem)
  <1> DEFINE out == SubSeq(buf.mem, buf.r + 1, buf.r + n)
  <1>0. /\ buf \in Buffers /\ buf.mem \in Seq(Bytes) /\ buf.r \in Nat /\ buf.w \in Nat
        /\ buf.r <= buf.w /\ buf.w <= Len(buf.mem) /\ Len(buf.mem) \in Nat
        /\ put \in Seq(Bytes) /\ got \in Seq(Bytes) /\ Len(got) \in Nat
        /\ Len(put) = Len(got) + Readable(buf) /\ n \in Nat /\ buf.r + n <= buf.w
    BY DEF WindowInv, BufferOK, SlidingWindow, Buffers, Readable
  <1>1. buf' = [buf EXCEPT !.r = buf.r + n] /\ got' = got \o out /\ put' = put
    BY DEF Retrieve
  <1>2. buf' \in Buffers /\ buf'.mem = buf.mem /\ buf'.r = buf.r + n /\ buf'.w = buf.w
    <2> DEFINE r == buf.r + n
    <2>1. buf \in [mem : Seq(Bytes), r : Nat, w : Nat] /\ r \in Nat
      BY <1>0 DEF Buffers
    <2>2. buf' = [buf EXCEPT !.r = r]
      BY <1>1
    <2> HIDE DEF r
    <2>3. buf' \in [mem : Seq(Bytes), r : Nat, w : Nat]
      BY <2>1, <2>2
    <2>4. buf'.mem = buf.mem /\ buf'.r = r /\ buf'.w = buf.w
      BY <2>1, <2>2
    <2> QED BY <2>3, <2>4 DEF Buffers, r
  <1>3. out \in Seq(Bytes) /\ Len(out) = n /\ \A i \in 1 .. n : out[i] = buf.mem[buf.r + i]
    <2>1. /\ buf.r + 1 \in Nat /\ buf.r + n \in Nat
          /\ buf.r + 1 >= 1 /\ buf.r + n <= Len(buf.mem)
      BY <1>0
    <2>2. \A i \in buf.r + 1 .. buf.r + n : buf.mem[i] \in Bytes
      BY <1>0
    <2>3. /\ out \in Seq(Bytes)
          /\ Len(out) = IF buf.r + 1 <= buf.r + n THEN (buf.r + n) - (buf.r + 1) + 1 ELSE 0
          /\ \A i \in 1 .. (buf.r + n) - (buf.r + 1) + 1 : out[i] = buf.mem[(buf.r + 1) + i - 1]
      BY <2>1, <2>2, SubSeqProperties
    <2>4. /\ (buf.r + n) - (buf.r + 1) + 1 = n
          /\ \A i \in 1 .. n : (buf.r + 1) + i - 1 = buf.r + i
      BY <1>0
    <2>5. Len(out) = n
      BY <1>0, <2>3, <2>4
    <2>6. \A i \in 1 .. n : out[i] = buf.mem[buf.r + i]
      BY <2>3, <2>4
    <2> QED BY <2>3, <2>5, <2>6
  <1> HIDE DEF out
  <1>4. got' \in Seq(Bytes) /\ Len(got') = Len(got) + n
    <2>1. got \o out \in Seq(Bytes) /\ Len(got \o out) = Len(got) + Len(out)
      BY <1>0, <1>3, ConcatProperties
    <2> QED BY <1>0, <1>1, <1>3, <2>1
  <1>5. BufferOK'
    BY <1>0, <1>1, <1>2, <1>4 DEF BufferOK
  <1>6. Len(put') = Len(got') + Readable(buf)'
    BY <1>0, <1>1, <1>2, <1>4 DEF Readable
  <1>7. ASSUME NEW i \in 1 .. Len(put')
        PROVE  put'[i] = IF i <= Len(got') THEN got'[i] ELSE buf'.mem[buf'.r + (i - Len(got'))]
    <2>1. put'[i] = IF i <= Len(got) THEN got[i] ELSE buf.mem[buf.r + (i - Len(got))]
      BY <1>1 DEF WindowInv, SlidingWindow
    <2>2. CASE i <= Len(got)
      BY <1>0, <1>1, <1>3, <1>4, <2>1, <2>2
    <2>3. CASE i > Len(got) /\ i <= Len(got) + n
      <3>1. i - Len(got) \in 1 .. n
        BY <1>0, <2>3
      <3>2. got'[i] = out[i - Len(got)]
        BY <1>0, <1>1, <1>3, <2>3
      <3> QED BY <1>0, <1>3, <1>4, <2>1, <2>3, <3>1, <3>2
    <2>4. CASE i > Len(got) + n
      <3>1. buf'.r + (i - Len(got')) = buf.r + (i - Len(got))
        BY <1>0, <1>2, <1>4
      <3> QED BY <1>0, <1>2, <1>4, <2>1, <2>4, <3>1
    <2> QED BY <1>0, <2>2, <2>3, <2>4
  <1>8. SlidingWindow'
    BY <1>6, <1>7 DEF SlidingWindow
  <1> QED BY <1>2, <1>5, <1>8 DEF WindowInv

\* RetrieveAll moves the whole window to the history and empties the buffer.
LEMMA RetrieveAllStep ==
  ASSUME WindowInv, RetrieveAll
  PROVE  WindowInv' /\ Len(buf'.mem) = Len(buf.mem)
  <1> DEFINE out == SubSeq(buf.mem, buf.r + 1, buf.w)
             n == Readable(buf)
             m == [i \in 1 .. Len(buf.mem) |-> Zero]
  <1>0. /\ buf.mem \in Seq(Bytes) /\ buf.r \in Nat /\ buf.w \in Nat
        /\ buf.r <= buf.w /\ buf.w <= Len(buf.mem) /\ Len(buf.mem) \in Nat
        /\ put \in Seq(Bytes) /\ got \in Seq(Bytes) /\ Len(got) \in Nat
        /\ Len(put) = Len(got) + n /\ n \in Nat /\ buf.r + n = buf.w
    BY DEF WindowInv, BufferOK, SlidingWindow, Buffers, Readable
  <1>1. buf' = [mem |-> m, r |-> 0, w |-> 0] /\ got' = got \o out /\ put' = put
    BY DEF RetrieveAll, Contents
  <1>2. m \in Seq(Bytes) /\ Len(m) = Len(buf.mem)
    BY <1>0, BufferAssumption
  <1>3. out \in Seq(Bytes) /\ Len(out) = n /\ \A i \in 1 .. n : out[i] = buf.mem[buf.r + i]
    <2>1. /\ buf.r + 1 \in Nat /\ buf.w \in Nat
          /\ buf.r + 1 >= 1 /\ buf.w <= Len(buf.mem)
      BY <1>0
    <2>2. \A i \in buf.r + 1 .. buf.w : buf.mem[i] \in Bytes
      BY <1>0
    <2>3. /\ out \in Seq(Bytes)
          /\ Len(out) = IF buf.r + 1 <= buf.w THEN buf.w - (buf.r + 1) + 1 ELSE 0
          /\ \A i \in 1 .. buf.w - (buf.r + 1) + 1 : out[i] = buf.mem[(buf.r + 1) + i - 1]
      BY <2>1, <2>2, SubSeqProperties
    <2>4. /\ buf.w - (buf.r + 1) + 1 = n
          /\ \A i \in 1 .. n : (buf.r + 1) + i - 1 = buf.r + i
      BY <1>0
    <2>5. Len(out) = n
      BY <1>0, <2>3, <2>4
    <2>6. \A i \in 1 .. n : out[i] = buf.mem[buf.r + i]
      BY <2>3, <2>4
    <2> QED BY <2>3, <2>5, <2>6
  <1> HIDE DEF out, m
  <1>4. got' \in Seq(Bytes) /\ Len(got') = Len(put')
    <2>1. got \o out \in Seq(Bytes) /\ Len(got \o out) = Len(got) + Len(out)
      BY <1>0, <1>3, ConcatProperties
    <2> QED BY <1>0, <1>1, <1>3, <2>1
  <1>5. buf' \in Buffers /\ buf'.mem = m /\ buf'.r = 0 /\ buf'.w = 0
    BY <1>1, <1>2 DEF Buffers
  <1>6. BufferOK' /\ Readable(buf)' = 0
    BY <1>0, <1>1, <1>2, <1>4, <1>5 DEF BufferOK, Readable
  <1>7. ASSUME NEW i \in 1 .. Len(put')
        PROVE  put'[i] = got'[i]
    <2>1. put[i] = IF i <= Len(got) THEN got[i] ELSE buf.mem[buf.r + (i - Len(got))]
      BY <1>1 DEF WindowInv, SlidingWindow
    <2>2. CASE i <= Len(got)
      BY <1>0, <1>1, <1>3, <2>1, <2>2
    <2>3. CASE i > Len(got)
      <3>1. i - Len(got) \in 1 .. n
        BY <1>0, <1>1, <2>3
      <3>2. got'[i] = out[i - Len(got)]
        BY <1>0, <1>1, <1>3, <2>3
      <3> QED BY <1>1, <1>3, <2>1, <2>3, <1>0, <3>1, <3>2
    <2>4. i \in Nat
      OBVIOUS
    <2> QED BY <1>0, <2>2, <2>3, <2>4
  <1>8. SlidingWindow'
    <2>1. Len(got') \in Nat
      BY <1>0, <1>1, <1>4
    <2> QED BY <1>4, <1>6, <1>7, <2>1 DEF SlidingWindow
  <1> QED BY <1>2, <1>5, <1>6, <1>8 DEF WindowInv

\* Every step keeps the invariant, and none grows the vector without need.
LEMMA WindowStep ==
  ASSUME WindowInv, [BufferNext]_bufferVars
  PROVE  WindowInv' /\ (Len(buf'.mem) > Len(buf.mem) => Readable(buf') > Len(buf.mem))
  <1>0. Sound(buf)
    BY DEF WindowInv, BufferOK, Sound
  <1>1. ASSUME NEW s \in Seq(Bytes), BufferAppend(s)
        PROVE  WindowInv' /\ (Len(buf'.mem) > Len(buf.mem) => Readable(buf') > Len(buf.mem))
    <2>1. Sound(buf') /\ Extends(buf', buf, s) /\ Needed(buf', buf, Len(s))
      BY <1>0, <1>1, AppendedIs DEF BufferAppend
    <2>2. put' = put \o s /\ got' = got
      BY <1>1 DEF BufferAppend
    <2>3. WindowInv'
      BY <2>1, <2>2, GrowStep
    <2> QED BY <2>1, <2>3 DEF Needed, Extends
  <1>2. ASSUME NEW s \in Seq(Bytes), ReadFd(s)
        PROVE  WindowInv' /\ (Len(buf'.mem) > Len(buf.mem) => Readable(buf') > Len(buf.mem))
    <2>1. Sound(buf') /\ Extends(buf', buf, s) /\ Needed(buf', buf, Len(s))
      BY <1>0, <1>2, ReceivedIs DEF ReadFd
    <2>2. put' = put \o s /\ got' = got
      BY <1>2 DEF ReadFd
    <2>3. WindowInv'
      BY <2>1, <2>2, GrowStep
    <2> QED BY <2>1, <2>3 DEF Needed, Extends
  <1>3. ASSUME NEW n \in 0 .. Readable(buf), Retrieve(n)
        PROVE  WindowInv' /\ (Len(buf'.mem) > Len(buf.mem) => Readable(buf') > Len(buf.mem))
    <2>1. WindowInv' /\ Len(buf'.mem) = Len(buf.mem)
      BY <1>3, RetrieveStep
    <2>2. Len(buf.mem) \in Nat
      BY DEF WindowInv, BufferOK, Buffers
    <2> QED BY <2>1, <2>2
  <1>4. ASSUME NEW n \in 0 .. Readable(buf), WriteFd(n)
        PROVE  WindowInv' /\ (Len(buf'.mem) > Len(buf.mem) => Readable(buf') > Len(buf.mem))
    BY <1>3, <1>4 DEF WriteFd
  <1>5. ASSUME NEW end \in buf.r .. buf.w, RetrieveUntil(end)
        PROVE  WindowInv' /\ (Len(buf'.mem) > Len(buf.mem) => Readable(buf') > Len(buf.mem))
    <2> DEFINE n == end - buf.r
    <2>1. n \in 0 .. Readable(buf)
      BY DEF WindowInv, BufferOK, Buffers, Readable
    <2>2. Retrieve(n)
      BY <1>5 DEF RetrieveUntil
    <2> HIDE DEF n
    <2> QED BY <1>3, <2>1, <2>2
  <1>6. CASE RetrieveAll
    <2>1. WindowInv' /\ Len(buf'.mem) = Len(buf.mem)
      BY <1>6, RetrieveAllStep
    <2>2. Len(buf.mem) \in Nat
      BY DEF WindowInv, BufferOK, Buffers
    <2> QED BY <2>1, <2>2
  <1>7. CASE UNCHANGED bufferVars
    <2>1. Len(buf.mem) \in Nat
      BY DEF WindowInv, BufferOK, Buffers
    <2> QED BY <1>7, <2>1 DEF bufferVars, WindowInv, BufferOK, SlidingWindow, Readable
  <1> QED BY <1>1, <1>2, <1>3, <1>4, <1>5, <1>6, <1>7 DEF BufferNext

\* An empty buffer of zero bytes.
LEMMA WindowStart == BufferInit => WindowInv
  <1> SUFFICES ASSUME BufferInit PROVE WindowInv
    OBVIOUS
  <1> DEFINE m == [i \in 1 .. InitSize |-> Zero]
  <1>1. m \in Seq(Bytes) /\ Len(m) = InitSize
    BY BufferAssumption
  <1>2. buf = [mem |-> m, r |-> 0, w |-> 0] /\ put = <<>> /\ got = <<>>
    BY DEF BufferInit
  <1> HIDE DEF m
  <1>3. buf \in Buffers /\ buf.r = 0 /\ buf.w = 0 /\ buf.mem = m
    BY <1>1, <1>2 DEF Buffers
  <1> QED BY <1>1, <1>2, <1>3, BufferAssumption DEF WindowInv, BufferOK, SlidingWindow, Readable

LEMMA WindowInvariance == BufferSpec => []WindowInv
  <1>1. WindowInv /\ [BufferNext]_bufferVars => WindowInv'
    BY WindowStep
  <1> QED BY WindowStart, <1>1, PTL DEF BufferSpec

\* The window stays inside the vector: neither the asserts of buffer.cpp nor
\* a copy of it ever reach beyond the vector.
THEOREM WindowInside == BufferSpec => []BufferOK
  <1>1. WindowInv => BufferOK
    BY DEF WindowInv
  <1> QED BY WindowInvariance, <1>1, PTL

\* Every byte written into the buffer comes out of it once and in order,
\* across every move and every growth of the vector (buffer.cpp:85-139).
THEOREM WindowSlides == BufferSpec => []SlidingWindow
  <1>1. WindowInv => SlidingWindow
    BY DEF WindowInv
  <1> QED BY WindowInvariance, <1>1, PTL

\* MakeSpace_ grows the vector only for more bytes than it could ever hold.
THEOREM GrowthNeeded == BufferSpec => GrowsWhenFull
  <1>1. WindowInv /\ [BufferNext]_bufferVars =>
          [Len(buf'.mem) > Len(buf.mem) => Readable(buf') > Len(buf.mem)]_bufferVars
    BY WindowStep
  <1> QED BY WindowInvariance, <1>1, PTL DEF BufferSpec, GrowsWhenFull
=============================================================================
