-------------------------- MODULE FileServerProofs --------------------------
(***************************************************************************)
(* For any file, any Range header and any number of broken connections:    *)
(* the answer is what its head says, a valid range is answered exactly,    *)
(* and what a resuming client holds is a prefix of the file.               *)
(***************************************************************************)
EXTENDS FileServer, BufferProofs

(***************************************************************************)
(* The invariant.                                                          *)
(***************************************************************************)

\* The head HandleHttpRequest gives to path and range.
Response ==
  IF ErrorStatus # 0
    THEN [NoHead EXCEPT !.status = ErrorStatus, !.length = 1,
                        !.total = IF ErrorStatus = 416 THEN Total ELSE 0]
    ELSE [status |-> IF range = NoRange THEN 200 ELSE 206,
          start |-> Start, end |-> End, total |-> Total, length |-> ReadLen]

\* The body that goes with a head.
Part == [i \in 1 .. head.length |-> head.start + i - 1]
BodyOf == IF head.status \in {200, 206} THEN Part ELSE <<TextToken>>

\* Until it is answered a connection has seen no byte; then head and body
\* stay those of its request, of which the write buffer holds more and more,
\* and the client all when the connection is closed.
ResponseInv ==
  /\ pc \in {"none", "parsed"} =>
       head = NoHead /\ pieces = <<>> /\ put = <<>> /\ got = <<>>
  /\ pc \in {"append", "write", "closed"} => head = Response
  /\ pc = "append" =>
       /\ got = <<>>
       /\ \/ put = <<>> /\ pieces = <<<<HeadToken>>, BodyOf>>
          \/ put = <<HeadToken>> /\ pieces = <<BodyOf>>
  /\ pc \in {"write", "closed"} => pieces = <<>> /\ put = <<HeadToken>> \o BodyOf
  /\ pc = "closed" => Len(got) = Len(put)

\* What the client kept is a prefix of the file, all of it when it stops.
SavedInv ==
  /\ \A i \in 1 .. Len(saved) : saved[i] = i - 1
  /\ finished => Len(saved) = size /\ pc = "none"

FileInv == WindowInv /\ TypeOK /\ ResponseInv /\ SavedInv

(***************************************************************************)
(* The arithmetic of a range.                                              *)
(***************************************************************************)

\* size_t of width w.
LEMMA Wraps ==
  ASSUME NEW w \in Nat \ {0}, NEW n \in Int
  PROVE  /\ n % w \in 0 .. w - 1
         /\ 0 <= n /\ n < w => n % w = n
         /\ -w <= n /\ n < 0 => n % w = n + w
         /\ n = w => n % w = 0
  OBVIOUS

\* Without a range the answer is the whole file, also if that is empty.
LEMMA WholeFile ==
  ASSUME size \in Sizes, range = NoRange
  PROVE  /\ Start = 0 /\ ReadLen = size /\ End \in 0 .. Wrap - 1
         /\ ~Unsatisfiable /\ ~TooLong
  <1>1. size \in Nat /\ 2 * size + 1 < Wrap /\ Wrap \in Nat \ {0}
    BY FileAssumption
  <1>2. /\ Start = 0 /\ ~Unsatisfiable
        /\ End = (size - 1) % Wrap
    BY DEF Start, Unsatisfiable, End, LastByte
  <1>3. CASE size = 0
    <2>1. (size - 1) % Wrap = Wrap - 1
      <3>1. PICK n \in Int : n = size - 1 /\ -Wrap <= n /\ n < 0 /\ n + Wrap = Wrap - 1
        BY <1>1, <1>3
      <3>2. n % Wrap = n + Wrap
        BY <1>1, <3>1, Wraps
      <3> QED BY <3>1, <3>2
    <2>2. End - Start + 1 = Wrap
      BY <1>1, <1>2, <2>1
    <2>3. ReadLen = 0
      BY <1>1, <2>2, Wraps DEF ReadLen
    <2> QED BY <1>1, <1>2, <1>3, <2>1, <2>3 DEF TooLong
  <1>4. CASE size > 0
    <2>1. (size - 1) % Wrap = size - 1
      <3>1. PICK n \in Int : n = size - 1 /\ 0 <= n /\ n < Wrap
        BY <1>1, <1>4
      <3>2. n % Wrap = n
        BY <1>1, <3>1, Wraps
      <3> QED BY <3>1, <3>2
    <2>2. End - Start + 1 = size
      BY <1>1, <1>2, <2>1
    <2>3. ReadLen = size
      <3>1. PICK n \in Int : n = size /\ 0 <= n /\ n < Wrap
        BY <1>1
      <3>2. n % Wrap = n
        BY <1>1, <3>1, Wraps
      <3> QED BY <2>2, <3>1, <3>2 DEF ReadLen
    <2> QED BY <1>1, <1>2, <2>1, <2>3 DEF TooLong
  <1> QED BY <1>1, <1>3, <1>4

\* What a range asks for: its bounds are clipped to the file; a last in
\* front of the first gives no byte, or so many that no string holds them.
LEMMA PartOfFile ==
  ASSUME size \in Sizes, range \in Ranges, range # NoRange, ~Unsatisfiable
  PROVE  /\ Start \in Nat /\ Start < size /\ End \in 0 .. size - 1
         /\ End < Wrap /\ Start < Wrap
         /\ ~TooLong => ReadLen = End - Start + 1 /\ Start + ReadLen <= size
         /\ TooLong => End < Start
         /\ ReadLen \in 0 .. Wrap - 1
  <1>1. size \in Nat /\ 2 * size + 1 < Wrap /\ Wrap \in Nat \ {0}
    BY FileAssumption
  <1>2. range.first \in Nat \cup {Absent} /\ range.last \in Nat \cup {Absent}
    BY DEF Ranges
  <1>3. Start \in Nat /\ Start < size
    BY <1>1, <1>2, FileAssumption DEF Start, Parsed, Unsatisfiable
  <1>4. LastByte = size - 1
    <2>1. PICK n \in Int : n = size - 1 /\ 0 <= n /\ n < Wrap
      BY <1>1, <1>3
    <2>2. n % Wrap = n
      BY <1>1, <2>1, Wraps
    <2> QED BY <2>1, <2>2 DEF LastByte
  <1>5. End \in 0 .. size - 1
    <2>1. Parsed(range.last, LastByte) \in Nat
      BY <1>1, <1>2, <1>3, <1>4, FileAssumption DEF Parsed
    <2> QED BY <1>1, <1>3, <1>4, <2>1 DEF End, Clipped
  <1>6. CASE End - Start + 1 >= 0
    <2>1. ReadLen = End - Start + 1
      <3>1. PICK n \in Int : n = End - Start + 1 /\ 0 <= n /\ n < Wrap
        BY <1>1, <1>3, <1>5, <1>6
      <3>2. n % Wrap = n
        BY <1>1, <3>1, Wraps
      <3> QED BY <3>1, <3>2 DEF ReadLen
    <2>2. ~TooLong
      BY <1>1, <1>3, <1>5, <2>1 DEF TooLong
    <2> QED BY <1>1, <1>3, <1>5, <1>6, <2>1, <2>2
  <1>7. CASE End - Start + 1 < 0
    <2>1. ReadLen = End - Start + 1 + Wrap
      <3>1. PICK n \in Int : n = End - Start + 1 /\ -Wrap <= n /\ n < 0
        BY <1>1, <1>3, <1>5, <1>7
      <3>2. n % Wrap = n + Wrap
        BY <1>1, <3>1, Wraps
      <3> QED BY <3>1, <3>2 DEF ReadLen
    <2>2. TooLong
      BY <1>1, <1>3, <1>5, <2>1 DEF TooLong
    <2> QED BY <1>1, <1>3, <1>5, <1>7, <2>1, <2>2
  <1> QED BY <1>3, <1>5, <1>6, <1>7

Heads == [status : {0, 200, 206, 403, 404, 416, 500}, start : 0 .. Wrap - 1,
          end : 0 .. Wrap - 1, total : {0} \cup Sizes, length : 0 .. Wrap - 1]

\* An answer without an error is for the file itself.
LEMMA Served ==
  ASSUME path \in Paths
  PROVE  /\ ErrorStatus \in {0, 403, 404, 416, 500}
         /\ ErrorStatus = 0 => path = "file" /\ ~Unsatisfiable /\ ~TooLong
         /\ ErrorStatus = 416 => Unsatisfiable
         /\ path = "file" /\ Unsatisfiable => ErrorStatus = 416
         /\ path = "file" /\ ~Unsatisfiable /\ ~TooLong => ErrorStatus = 0
  BY DEF Paths, ErrorStatus

LEMMA ResponseIs ==
  ASSUME size \in Sizes, path \in Paths, range \in Ranges \cup {NoRange}
  PROVE  /\ Response \in Heads /\ Response.status # 0
         /\ Response.status \in {200, 206} =>
              Response.start + Response.length <= size
         /\ Response.status = 200 => Response.start = 0 /\ Response.length = size
         /\ Response.status = 206 => /\ Response.total = size /\ Response.start < size
                                     /\ Response.end - Response.start + 1 = Response.length
         /\ Response.status = 416 => Response.total = size
         /\ Response.status \notin {200, 206} => Response.length = 1
  <1>1. size \in Nat /\ 2 * size + 1 < Wrap /\ Wrap \in Nat
    BY FileAssumption
  <1>2. CASE ErrorStatus # 0
    <2>1. Response = [status |-> ErrorStatus, start |-> 0, end |-> 0,
                      total |-> IF ErrorStatus = 416 THEN size ELSE 0, length |-> 1]
      BY <1>2 DEF Response, NoHead, Total
    <2>2. ErrorStatus \in {403, 404, 416, 500}
      BY <1>2, Served
    <2>3. Response \in Heads
      BY <1>1, <2>1, <2>2 DEF Heads
    <2> QED BY <2>1, <2>2, <2>3
  <1>3. CASE ErrorStatus = 0 /\ range = NoRange
    <2>1. Response = [status |-> 200, start |-> Start, end |-> End, total |-> size,
                      length |-> ReadLen]
      BY <1>3 DEF Response, Total
    <2>2. Start = 0 /\ ReadLen = size /\ End \in 0 .. Wrap - 1
      BY <1>3, WholeFile
    <2>3. Response \in Heads
      BY <1>1, <2>1, <2>2 DEF Heads
    <2> QED BY <1>1, <2>1, <2>2, <2>3
  <1>4. CASE ErrorStatus = 0 /\ range # NoRange
    <2>1. Response = [status |-> 206, start |-> Start, end |-> End, total |-> size,
                      length |-> ReadLen]
      BY <1>4 DEF Response, Total
    <2>2. /\ Start \in Nat /\ Start < size /\ End \in 0 .. size - 1
          /\ ReadLen = End - Start + 1 /\ Start + ReadLen <= size /\ ReadLen \in 0 .. Wrap - 1
      BY <1>4, Served, PartOfFile
    <2>3. Response \in Heads
      BY <1>1, <2>1, <2>2 DEF Heads
    <2> QED BY <1>1, <2>1, <2>2, <2>3
  <1> QED BY <1>2, <1>3, <1>4

\* A valid range is answered with 416 or with what it names.
LEMMA ValidIs ==
  ASSUME size \in Sizes, path = "file", range \in Ranges, Valid(range)
  PROVE  IF range.first >= size THEN Response.status = 416
         ELSE /\ Response.status = 206 /\ Response.start = range.first
              /\ Response.end = IF range.last # Absent /\ range.last < size
                                THEN range.last ELSE size - 1
  <1>1. /\ size \in Nat /\ 2 * size + 1 < Wrap /\ Wrap \in Nat \ {0} /\ path \in Paths
        /\ range # NoRange /\ range.first \in Nat /\ range.first < Wrap
        /\ range.last \in Nat \cup {Absent}
        /\ range.last # Absent => range.last \in Nat /\ range.first <= range.last
    BY FileAssumption DEF Valid, Ranges, Paths
  <1>2. Start = range.first /\ (Unsatisfiable <=> range.first >= size)
    BY <1>1, FileAssumption DEF Start, Parsed, Unsatisfiable
  <1>3. CASE range.first >= size
    BY <1>1, <1>2, <1>3, Served DEF Response, NoHead
  <1>4. CASE range.first < size
    <2>1. LastByte = size - 1
      <3>1. PICK n \in Int : n = size - 1 /\ 0 <= n /\ n < Wrap
        BY <1>1, <1>4
      <3>2. n % Wrap = n
        BY <1>1, <3>1, Wraps
      <3> QED BY <3>1, <3>2 DEF LastByte
    <2>2. End = IF range.last # Absent /\ range.last < size THEN range.last ELSE size - 1
      BY <1>1, <1>4, <2>1 DEF End, Clipped, Parsed
    <2>3. End >= Start /\ ~Unsatisfiable
      BY <1>1, <1>2, <1>4, <2>2
    <2>4. ~TooLong
      <3>1. TooLong => End < Start
        BY <1>1, <2>3, PartOfFile
      <3>2. Start \in Int /\ End \in Int
        BY <1>1, <1>2, <2>2
      <3> QED BY <2>3, <3>1, <3>2
    <2>5. ErrorStatus = 0
      BY <1>1, <2>3, <2>4, Served
    <2> QED BY <1>1, <1>2, <1>4, <2>2, <2>5 DEF Response
  <1> QED BY <1>1, <1>3, <1>4

(***************************************************************************)
(* What FileInv says of the write buffer and of the client.                *)
(***************************************************************************)

\* The bytes that were sent are the first of those that were appended.
LEMMA GotIs ==
  ASSUME WindowInv
  PROVE  /\ put \in Seq(Bytes) /\ got \in Seq(Bytes) /\ Len(got) \in Nat /\ Len(put) \in Nat
         /\ Readable(buf) \in Nat /\ Len(put) = Len(got) + Readable(buf)
         /\ Len(got) <= Len(put) /\ \A i \in 1 .. Len(got) : got[i] = put[i]
  <1>1. /\ put \in Seq(Bytes) /\ got \in Seq(Bytes) /\ Len(got) \in Nat /\ Len(put) \in Nat
        /\ Readable(buf) \in Nat /\ Len(put) = Len(got) + Readable(buf)
    BY DEF WindowInv, BufferOK, SlidingWindow, Buffers, Readable
  <1>2. Len(got) <= Len(put)
    BY <1>1
  <1>3. \A i \in 1 .. Len(got) : i \in 1 .. Len(put) /\ i <= Len(got)
    BY <1>1
  <1> QED BY <1>1, <1>2, <1>3 DEF WindowInv, SlidingWindow

\* What the head of the connection says, and the body that goes with it.
LEMMA AnsweredIs ==
  ASSUME FileInv, pc \in {"append", "write", "closed"}
  PROVE  /\ head \in Heads /\ head.length \in Nat /\ head.start \in Nat /\ size \in Nat
         /\ head = Response /\ head.status # 0
         /\ head.status \in {200, 206} => head.start + head.length <= size
         /\ head.status = 200 => head.start = 0 /\ head.length = size
         /\ head.status = 206 => /\ head.total = size /\ head.start < size
                                 /\ head.end - head.start + 1 = head.length
         /\ head.status = 416 => head.total = size
         /\ BodyOf \in Seq(Bytes) /\ Len(BodyOf) = head.length
         /\ head.status \in {200, 206} =>
              \A i \in 1 .. head.length : /\ BodyOf[i] = head.start + i - 1
                                          /\ BodyOf[i] \in 0 .. size - 1
  <1>1. /\ size \in Sizes /\ path \in Paths /\ range \in Ranges \cup {NoRange}
        /\ head = Response
    BY DEF FileInv, TypeOK, ResponseInv
  <1>2. /\ head \in Heads /\ head.status # 0
        /\ head.status \in {200, 206} => head.start + head.length <= size
        /\ head.status = 200 => head.start = 0 /\ head.length = size
        /\ head.status = 206 => /\ head.total = size /\ head.start < size
                                /\ head.end - head.start + 1 = head.length
        /\ head.status = 416 => head.total = size
        /\ head.status \notin {200, 206} => head.length = 1
    BY <1>1, ResponseIs
  <1>3. size \in Nat /\ 0 .. size - 1 \subseteq Bytes /\ head.length \in Nat /\ head.start \in Nat
    BY <1>1, <1>2, FileAssumption DEF Heads
  <1>4. CASE head.status \in {200, 206}
    <2>1. BodyOf = [i \in 1 .. head.length |-> head.start + i - 1]
      BY <1>4 DEF BodyOf, Part
    <2>2. \A i \in 1 .. head.length : head.start + i - 1 \in 0 .. size - 1
      BY <1>2, <1>3, <1>4
    <2>3. BodyOf \in Seq(Bytes) /\ Len(BodyOf) = head.length
      BY <1>3, <2>1, <2>2
    <2> QED BY <1>1, <1>2, <1>3, <2>1, <2>2, <2>3
  <1>5. CASE head.status \notin {200, 206}
    <2>1. BodyOf = <<TextToken>> /\ TextToken \in Bytes
      BY <1>5, FileAssumption DEF BodyOf
    <2>2. BodyOf \in Seq(Bytes) /\ Len(BodyOf) = 1
      BY <2>1
    <2> QED BY <1>1, <1>2, <1>3, <1>5, <2>2
  <1> QED BY <1>4, <1>5

\* The head, then the body: what AppendToBuffer has put together.
LEMMA PutIs ==
  ASSUME FileInv, pc \in {"write", "closed"}
  PROVE  /\ Len(put) = head.length + 1 /\ put[1] = HeadToken
         /\ \A i \in 1 .. head.length : put[i + 1] = BodyOf[i]
         /\ Body = BodyOf
  <1>1. put = <<HeadToken>> \o BodyOf /\ HeadToken \in Bytes
    BY FileAssumption DEF FileInv, ResponseInv
  <1>2. BodyOf \in Seq(Bytes) /\ Len(BodyOf) = head.length /\ head.length \in Nat
    BY AnsweredIs
  <1>3. /\ put \in Seq(Bytes) /\ Len(put) = head.length + 1 /\ put[1] = HeadToken
        /\ \A i \in 1 .. head.length : put[i + 1] = BodyOf[i]
    <2> DEFINE b == BodyOf
    <2>1. b \in Seq(Bytes) /\ put = <<HeadToken>> \o b /\ Len(b) = head.length
      BY <1>1, <1>2
    <2> HIDE DEF b
    <2>2. /\ put \in Seq(Bytes) /\ Len(put) = Len(b) + 1 /\ put[1] = HeadToken
          /\ \A i \in 1 .. Len(b) : put[i + 1] = b[i]
      <3> DEFINE h == <<HeadToken>>
      <3>1. h \in Seq(Bytes) /\ Len(h) = 1 /\ h[1] = HeadToken /\ put = h \o b
        BY <1>1, <2>1
      <3> HIDE DEF h
      <3>2. /\ put \in Seq(Bytes) /\ Len(put) = 1 + Len(b)
            /\ \A i \in 1 .. 1 + Len(b) : put[i] = IF i <= 1 THEN h[i] ELSE b[i - 1]
        BY <2>1, <3>1, ConcatProperties
      <3>3. \A i \in 1 .. Len(b) : /\ i + 1 \in 1 .. 1 + Len(b) /\ ~(i + 1 <= 1)
                                  /\ (i + 1) - 1 = i
        BY <2>1
      <3>4. 1 \in 1 .. 1 + Len(b)
        BY <2>1
      <3> QED BY <2>1, <3>1, <3>2, <3>3, <3>4
    <2> QED BY <2>1, <2>2 DEF b
  <1>4. Body = BodyOf
    <2> DEFINE s == SubSeq(put, 2, Len(put))
    <2>1. /\ s \in Seq(Bytes) /\ Len(s) = head.length
          /\ \A i \in 1 .. head.length : s[i] = put[i + 1]
      BY <1>2, <1>3
    <2> HIDE DEF s
    <2>2. s = BodyOf
      BY <1>2, <1>3, <2>1, SeqEqual
    <2> QED BY <2>2 DEF s, Body
  <1> QED BY <1>3, <1>4

LEMMA SeqOfIts ==
  ASSUME NEW S, NEW s \in Seq(S), NEW T, \A i \in 1 .. Len(s) : s[i] \in T
  PROVE  s \in Seq(T)
  <1>1. Len(s) \in Nat /\ s = [i \in 1 .. Len(s) |-> s[i]]
    BY LenProperties
  <1> QED BY <1>1, IsASeq

\* What a client has, after any number of connections and at any point of
\* one; behind the end of a response that was whole it has the whole file.
LEMMA HaveIs ==
  ASSUME FileInv
  PROVE  /\ Have \in Seq(0 .. size - 1)
         /\ \A i \in 1 .. Len(Have) : Have[i] = i - 1
         /\ Whole => Len(Have) = size
  <1>0. /\ WindowInv /\ saved \in Seq(0 .. size - 1) /\ size \in Sizes /\ size \in Nat
        /\ \A i \in 1 .. Len(saved) : saved[i] = i - 1
    BY FileAssumption DEF FileInv, TypeOK, SavedInv
  <1>1. CASE got = <<>>
    BY <1>0, <1>1 DEF Have, Whole
  <1>2. CASE got # <<>>
    <2>1. pc \in {"write", "closed"}
      BY <1>2 DEF FileInv, TypeOK, ResponseInv
    <2> DEFINE t == Tail(got)
    <2>2. /\ t \in Seq(Bytes) /\ Len(t) = Len(got) - 1 /\ Len(got) \in Nat /\ Len(t) \in Nat
          /\ \A i \in 1 .. Len(t) : t[i] = got[i + 1] /\ i + 1 \in 1 .. Len(got)
          /\ Len(t) <= head.length /\ head.length \in Nat /\ head.start \in Nat
      <3>1. got \in Seq(Bytes) /\ Len(got) \in Nat /\ Len(got) <= Len(put) /\ Len(put) \in Nat
        BY <1>0, GotIs
      <3>2. Len(put) = head.length + 1 /\ head.length \in Nat /\ head.start \in Nat
        BY <2>1, PutIs, AnsweredIs
      <3>3. /\ t \in Seq(Bytes) /\ Len(t) = Len(got) - 1 /\ Len(t) \in Nat
            /\ \A i \in 1 .. Len(t) : t[i] = got[i + 1]
        BY <1>2, <3>1, HeadTailProperties
      <3> QED BY <3>1, <3>2, <3>3
    <2>3. ASSUME head.status \in {200, 206}
          PROVE  /\ \A i \in 1 .. Len(t) : t[i] = head.start + i - 1 /\ t[i] \in 0 .. size - 1
                 /\ t \in Seq(0 .. size - 1)
      <3>1. ASSUME NEW i \in 1 .. Len(t)
            PROVE  t[i] = head.start + i - 1 /\ t[i] \in 0 .. size - 1
        <4>1. i \in 1 .. head.length
          BY <2>2
        <4>2. t[i] = put[i + 1]
          BY <1>0, <2>2, GotIs
        <4>3. put[i + 1] = BodyOf[i]
          BY <2>1, <4>1, PutIs
        <4> QED BY <2>1, <2>3, <4>1, <4>2, <4>3, AnsweredIs
      <3> QED BY <2>2, <3>1, SeqOfIts
    <2> HIDE DEF t
    <2>4. CASE head.status = 200
      <3>1. Have = t
        BY <1>2, <2>4 DEF Have, t
      <3>2. head.start = 0 /\ head.length = size
        BY <2>1, <2>4, AnsweredIs
      <3>3. Whole => Len(t) = size
        BY <1>0, <2>2, <3>2 DEF Whole
      <3>4. \A i \in 1 .. Len(t) : 0 + i - 1 = i - 1
        BY <2>2
      <3> QED BY <2>3, <2>4, <3>1, <3>2, <3>3, <3>4
    <2>5. CASE head.status = 206 /\ head.start = Len(saved)
      <3>1. Have = saved \o t
        BY <1>2, <2>5 DEF Have, t
      <3>2. /\ Have \in Seq(0 .. size - 1) /\ Len(Have) = Len(saved) + Len(t)
            /\ \A i \in 1 .. Len(saved) + Len(t) :
                 Have[i] = IF i <= Len(saved) THEN saved[i] ELSE t[i - Len(saved)]
        BY <1>0, <2>3, <2>5, <3>1, ConcatProperties
      <3>3. Len(saved) \in Nat
        BY <1>0, LenProperties
      <3>4. ASSUME NEW i \in 1 .. Len(Have) PROVE Have[i] = i - 1
        <4>1. CASE i <= Len(saved)
          BY <1>0, <2>2, <3>2, <3>3, <4>1
        <4>2. CASE i > Len(saved)
          <5>1. PICK j \in 1 .. Len(t) : j = i - Len(saved)
            <6>1. i \in Nat /\ i <= Len(saved) + Len(t) /\ Len(t) \in Nat
              BY <2>2, <3>2, <3>3
            <6>2. i - Len(saved) \in 1 .. Len(t)
              BY <3>3, <4>2, <6>1
            <6> QED BY <6>2
          <5>2. t[j] = head.start + j - 1
            BY <2>3, <2>5, <5>1
          <5>3. Have[i] = t[j]
            BY <2>2, <3>2, <3>3, <4>2, <5>1
          <5> QED BY <2>5, <3>3, <5>1, <5>2, <5>3
        <4> QED BY <2>2, <3>2, <3>3, <4>1, <4>2
      <3>5. Whole => Len(Have) = size
        <4>1. head.end - head.start + 1 = head.length /\ head.total = size /\ head \in Heads
          BY <2>1, <2>5, AnsweredIs
        <4>2. Whole => Len(got) = 1 + head.length /\ head.end + 1 = head.total
          BY <2>5 DEF Whole
        <4>3. head.end \in Nat
          BY <4>1, FileAssumption DEF Heads
        <4>4. Len(got) = 1 + head.length => Len(t) = head.length
          BY <2>2
        <4>5. head.end + 1 = size => Len(saved) + head.length = size
          BY <1>0, <2>5, <3>3, <4>1, <4>3
        <4> QED BY <3>2, <4>1, <4>2, <4>4, <4>5
      <3> QED BY <3>2, <3>4, <3>5
    <2>6. CASE head.status # 200 /\ ~(head.status = 206 /\ head.start = Len(saved))
      <3>1. Have = saved
        BY <1>2, <2>6 DEF Have
      <3>2. Whole => head.total = Len(saved) /\ head.status = 416
        BY <2>6 DEF Whole
      <3>3. head.status = 416 => head.total = size
        BY <2>1, AnsweredIs
      <3> QED BY <1>0, <3>1, <3>2, <3>3
    <2> QED BY <2>4, <2>5, <2>6
  <1> QED BY <1>1, <1>2

LEMMA RangeExactIs == FileInv => RangeExact
  <1> SUFFICES ASSUME FileInv, path = "file", Valid(range), pc \in {"write", "closed"}
               PROVE  IF Named(range) = {} THEN head.status = 416
                      ELSE /\ head.status = 206
                           /\ {Body[i] : i \in 1 .. Len(Body)} = Named(range)
                           /\ \A i \in 1 .. Len(Body) : Body[i] = head.start + i - 1
    BY DEF RangeExact
  <1>1. /\ size \in Sizes /\ size \in Nat /\ range \in Ranges /\ range.first \in Nat
        /\ range.last # Absent => range.last \in Nat /\ range.first <= range.last
    BY FileAssumption DEF FileInv, TypeOK, Valid, Ranges
  <1>2. CASE range.first >= size
    <2>1. Named(range) = {}
      BY <1>1, <1>2 DEF Named
    <2>2. head.status = 416
      BY <1>1, <1>2, ValidIs, AnsweredIs
    <2> QED BY <2>1, <2>2
  <1>3. CASE range.first < size
    <2>1. /\ head.status = 206 /\ head.start = range.first
          /\ head.end = IF range.last # Absent /\ range.last < size THEN range.last ELSE size - 1
      BY <1>1, <1>3, ValidIs, AnsweredIs
    <2>2. /\ Body \in Seq(Bytes) /\ Len(Body) = head.length
          /\ \A i \in 1 .. head.length : Body[i] = head.start + i - 1
          /\ head.end - head.start + 1 = head.length
      BY <2>1, AnsweredIs, PutIs
    <2>3. range.first \in Named(range)
      BY <1>1, <1>3 DEF Named
    <2>4. \A i \in 1 .. head.length : Body[i] \in Named(range)
      <3> SUFFICES ASSUME NEW i \in 1 .. head.length PROVE Body[i] \in Named(range)
        OBVIOUS
      <3>1. Body[i] = range.first + i - 1 /\ i <= head.end - range.first + 1
        BY <1>1, <2>1, <2>2
      <3>2. head.end \in Int /\ head.end <= size - 1
            /\ (range.last # Absent => head.end <= range.last)
        BY <1>1, <1>3, <2>1
      <3>3. i \in Int /\ 1 <= i
        BY <2>2
      <3> DEFINE m == range.first + i - 1
      <3>4. m \in Int /\ range.first <= m /\ m <= head.end
        BY <1>1, <3>1, <3>2, <3>3
      <3>5. m \in 0 .. size - 1 /\ (range.last # Absent => m <= range.last)
        BY <1>1, <3>2, <3>4
      <3> HIDE DEF m
      <3>6. m \in Named(range)
        BY <3>4, <3>5 DEF Named
      <3> QED BY <3>1, <3>6 DEF m
    <2>5. \A n \in Named(range) : \E i \in 1 .. head.length : Body[i] = n
      <3> SUFFICES ASSUME NEW n \in Named(range)
                   PROVE  \E i \in 1 .. head.length : Body[i] = n
        OBVIOUS
      <3>1. n \in Nat /\ range.first <= n /\ n <= head.end
        BY <1>1, <1>3, <2>1 DEF Named
      <3>2. PICK i \in 1 .. head.length : i = n - range.first + 1
        BY <1>1, <1>3, <2>1, <2>2, <3>1
      <3>3. Body[i] = range.first + i - 1
        BY <2>1, <2>2
      <3> QED BY <1>1, <3>1, <3>2, <3>3
    <2>6. {Body[i] : i \in 1 .. Len(Body)} = Named(range)
      BY <2>2, <2>4, <2>5
    <2> QED BY <2>1, <2>2, <2>3, <2>6
  <1> QED BY <1>1, <1>2, <1>3

LEMMA LengthHonestIs == FileInv => LengthHonest
  <1> SUFFICES ASSUME FileInv, pc \in {"write", "closed"}
               PROVE  /\ Len(Body) = head.length
                      /\ head.status \in {200, 206} => head.length <= size
                      /\ head.status = 206 => head.length = head.end - head.start + 1
    BY DEF LengthHonest
  <1>1. Len(Body) = head.length
    BY AnsweredIs, PutIs
  <1>2. head.status \in {200, 206} => head.length <= size
    BY AnsweredIs
  <1>3. head.status = 206 => head.length = head.end - head.start + 1
    BY AnsweredIs
  <1> QED BY <1>1, <1>2, <1>3

(***************************************************************************)
(* The steps.                                                              *)
(***************************************************************************)

\* The answer depends on the request and the file alone.
LEMMA SameResponse ==
  ASSUME UNCHANGED <<size, path, range>>
  PROVE  Response' = Response
  BY DEF Response, ErrorStatus, Unsatisfiable, TooLong, Start, End, ReadLen, Parsed,
         Clipped, LastByte, Total

LEMMA SameBody ==
  ASSUME UNCHANGED head
  PROVE  BodyOf' = BodyOf
  BY DEF BodyOf, Part

\* A buffer as accept makes it.
LEMMA EmptyAgain ==
  ASSUME buf' = [mem |-> [i \in 1 .. InitSize |-> Zero], r |-> 0, w |-> 0],
         put' = <<>>, got' = <<>>
  PROVE  WindowInv'
  <1>1. BufferInit'
    BY DEF BufferInit
  <1>2. (BufferInit => WindowInv)'
    BY WindowStart, PTL
  <1> QED BY <1>1, <1>2

\* The pieces of an answer hold no byte the file has not.
LEMMA PiecesIn ==
  ASSUME FileInv, pc = "append"
  PROVE  \A i \in 1 .. Len(BodyOf) : BodyOf[i] \in {HeadToken, TextToken} \cup 0 .. size - 1
  <1>1. CASE head.status \in {200, 206}
    BY <1>1, AnsweredIs
  <1>2. CASE head.status \notin {200, 206}
    <2>1. BodyOf = <<TextToken>>
      BY <1>2 DEF BodyOf
    <2> QED BY <2>1
  <1> QED BY <1>1, <1>2

LEMMA HandleStep == FileInv /\ HandleHttpRequest => FileInv'
  <1> SUFFICES ASSUME FileInv, HandleHttpRequest PROVE FileInv'
    OBVIOUS
  <1>0. /\ WindowInv /\ TypeOK /\ SavedInv /\ pc = "parsed" /\ pc' = "append"
        /\ put = <<>> /\ got = <<>> /\ size \in Nat
        /\ UNCHANGED <<bufferVars, size, path, range, saved, finished, cuts, probes>>
    BY FileAssumption DEF FileInv, TypeOK, ResponseInv, HandleHttpRequest
  <1>1. head' = Response /\ Response' = Response
    BY <1>0, SameResponse DEF HandleHttpRequest, Response
  <1>2. /\ Response \in Heads
        /\ Response.status \in {200, 206} => Response.start + Response.length <= size
    BY <1>0, ResponseIs DEF TypeOK
  <1>3. CASE ErrorStatus # 0
    <2>1. pieces' = <<<<HeadToken>>, <<TextToken>>>> /\ ErrorStatus \notin {200, 206}
      BY <1>0, <1>3, Served DEF HandleHttpRequest, TypeOK
    <2>2. Response.status = ErrorStatus
      BY <1>3 DEF Response, NoHead
    <2>3. BodyOf' = <<TextToken>>
      BY <1>1, <2>1, <2>2 DEF BodyOf
    <2>4. pieces' = <<<<HeadToken>>, BodyOf'>>
      BY <2>1, <2>3
    <2>5. \A i \in 1 .. Len(pieces') : \A j \in 1 .. Len(pieces'[i]) :
             pieces'[i][j] \in {HeadToken, TextToken} \cup 0 .. size - 1
      BY <2>1
    <2>6. TypeOK'
      BY <1>0, <1>1, <1>2, <2>5 DEF TypeOK, BufferOK, bufferVars, Heads
    <2>7. ResponseInv'
      BY <1>0, <1>1, <2>4 DEF ResponseInv, bufferVars
    <2> QED BY <1>0, <2>6, <2>7
            DEF FileInv, SavedInv, bufferVars, WindowInv, BufferOK, SlidingWindow, Readable
  <1>4. CASE ErrorStatus = 0
    <2>1. pieces' = <<<<HeadToken>>, FileBytes>>
      BY <1>4 DEF HandleHttpRequest
    <2>2. Response.status \in {200, 206} /\ Response.start = Start /\ Response.length = ReadLen
      BY <1>4 DEF Response
    <2>3. BodyOf' = FileBytes
      BY <1>1, <2>2 DEF BodyOf, Part, FileBytes
    <2>4. pieces' = <<<<HeadToken>>, BodyOf'>>
      BY <2>1, <2>3
    <2>5. Start \in Nat /\ ReadLen \in Nat /\ Start + ReadLen <= size
      BY <1>2, <2>2, FileAssumption DEF Heads
    <2>6. \A j \in 1 .. Len(FileBytes) : FileBytes[j] \in 0 .. size - 1
      BY <1>0, <2>5 DEF FileBytes
    <2>7. \A i \in 1 .. Len(pieces') : \A j \in 1 .. Len(pieces'[i]) :
             pieces'[i][j] \in {HeadToken, TextToken} \cup 0 .. size - 1
      BY <2>1, <2>6
    <2>8. TypeOK'
      BY <1>0, <1>1, <1>2, <2>7 DEF TypeOK, BufferOK, bufferVars, Heads
    <2>9. ResponseInv'
      BY <1>0, <1>1, <2>4 DEF ResponseInv, bufferVars
    <2> QED BY <1>0, <2>8, <2>9
            DEF FileInv, SavedInv, bufferVars, WindowInv, BufferOK, SlidingWindow, Readable
  <1> QED BY <1>3, <1>4

LEMMA AppendStep == FileInv /\ AppendToBuffer => FileInv'
  <1> SUFFICES ASSUME FileInv, AppendToBuffer PROVE FileInv'
    OBVIOUS
  <1>0. /\ WindowInv /\ TypeOK /\ SavedInv /\ ResponseInv /\ pc = "append" /\ pieces # <<>>
        /\ UNCHANGED <<size, path, range, head, saved, finished, cuts, probes>>
        /\ BufferAppend(pieces[1]) /\ pieces' = Tail(pieces)
        /\ pc' = IF Len(pieces) = 1 THEN "write" ELSE "append"
    BY DEF FileInv, AppendToBuffer
  <1>1. /\ BodyOf \in Seq(Bytes) /\ BodyOf' = BodyOf /\ Response' = Response
        /\ head = Response /\ got = <<>> /\ HeadToken \in Bytes
    BY <1>0, AnsweredIs, SameBody, SameResponse, FileAssumption DEF ResponseInv
  <1>2. CASE put = <<>> /\ pieces = <<<<HeadToken>>, BodyOf>>
    <2>1. pieces[1] = <<HeadToken>> /\ pieces' = <<BodyOf>> /\ pc' = "append"
      BY <1>0, <1>2
    <2>2. <<HeadToken>> \in Seq(Bytes)
      BY <1>1
    <2>3. BufferNext /\ got' = got /\ put' = put \o <<HeadToken>>
      BY <1>0, <2>1, <2>2 DEF BufferNext, BufferAppend
    <2>4. WindowInv'
      BY <1>0, <2>3, WindowStep
    <2>5. put' = <<HeadToken>>
      BY <1>2, <2>2, <2>3, ConcatEmptySeq
    <2>6. \A i \in 1 .. Len(pieces') : \A j \in 1 .. Len(pieces'[i]) :
             pieces'[i][j] \in {HeadToken, TextToken} \cup 0 .. size - 1
      <3>1. \A j \in 1 .. Len(BodyOf) : BodyOf[j] \in {HeadToken, TextToken} \cup 0 .. size - 1
        BY <1>0, PiecesIn
      <3>2. Len(pieces') = 1 /\ pieces'[1] = BodyOf
        BY <2>1
      <3> QED BY <3>1, <3>2
    <2>7. TypeOK'
      BY <1>0, <2>1, <2>4, <2>6 DEF TypeOK, WindowInv
    <2>8. ResponseInv'
      BY <1>0, <1>1, <2>1, <2>3, <2>5 DEF ResponseInv
    <2> QED BY <1>0, <2>1, <2>4, <2>7, <2>8 DEF FileInv, SavedInv
  <1>3. CASE put = <<HeadToken>> /\ pieces = <<BodyOf>>
    <2>1. pieces[1] = BodyOf /\ pieces' = <<>> /\ pc' = "write"
      BY <1>0, <1>3
    <2>2. BufferNext /\ got' = got /\ put' = <<HeadToken>> \o BodyOf
      BY <1>0, <1>1, <1>3, <2>1 DEF BufferNext, BufferAppend
    <2>3. WindowInv'
      BY <1>0, <2>2, WindowStep
    <2>4. TypeOK'
      BY <1>0, <2>1, <2>3 DEF TypeOK, WindowInv
    <2>5. ResponseInv'
      BY <1>0, <1>1, <2>1, <2>2 DEF ResponseInv
    <2> QED BY <1>0, <2>1, <2>3, <2>4, <2>5 DEF FileInv, SavedInv
  <1> QED BY <1>0, <1>2, <1>3 DEF ResponseInv

LEMMA WriteStep == FileInv /\ HandleWrite => FileInv'
  <1> SUFFICES ASSUME FileInv, HandleWrite PROVE FileInv'
    OBVIOUS
  <1>0. /\ WindowInv /\ TypeOK /\ SavedInv /\ ResponseInv /\ pc = "write"
        /\ UNCHANGED <<size, path, range, head, pieces, saved, finished, cuts, probes>>
    BY DEF FileInv, HandleWrite
  <1>1. PICK n \in 1 .. Readable(buf) : Retrieve(n) /\ pc' = AfterWrite(n)
    BY DEF HandleWrite
  <1>2. n \in 0 .. Readable(buf) /\ Readable(buf) \in Nat /\ n \in Nat
    BY <1>0, GotIs
  <1>3. WindowInv' /\ put' = put
    BY <1>0, <1>1, <1>2, RetrieveStep DEF Retrieve
  <1>4. pc' \in {"write", "closed"} /\ (pc' = "closed" => n = Readable(buf))
    BY <1>1 DEF AfterWrite
  <1>5. Readable(buf') = Readable(buf) - n
    <2>1. buf \in [mem : Seq(Bytes), r : Nat, w : Nat]
      BY <1>0 DEF WindowInv, BufferOK, Buffers
    <2>2. buf' = [buf EXCEPT !.r = buf.r + n]
      BY <1>1 DEF Retrieve
    <2>3. buf'.r = buf.r + n /\ buf'.w = buf.w
      BY <2>1, <2>2
    <2> QED BY <1>2, <2>1, <2>3 DEF Readable
  <1>6. pc' = "closed" => Len(got') = Len(put')
    <2>1. Len(put') = Len(got') + Readable(buf') /\ Len(got') \in Nat
      BY <1>3 DEF WindowInv, SlidingWindow, BufferOK, Readable
    <2> QED BY <1>2, <1>4, <1>5, <2>1
  <1>7. BodyOf' = BodyOf /\ Response' = Response
    BY <1>0, SameBody, SameResponse
  <1>8. TypeOK'
    BY <1>0, <1>3, <1>4 DEF TypeOK, WindowInv
  <1>9. ResponseInv'
    BY <1>0, <1>3, <1>4, <1>6, <1>7 DEF ResponseInv
  <1>10. SavedInv'
    BY <1>0, <1>4 DEF SavedInv
  <1> QED BY <1>3, <1>8, <1>9, <1>10 DEF FileInv

\* A request on a new connection.
LEMMA RequestStep ==
  ASSUME FileInv, ~finished, UNCHANGED finished, NEW p \in Paths \cup {"above"},
         NEW r \in Ranges \cup {NoRange}, Request(p, r)
  PROVE  FileInv'
  <1>0. /\ WindowInv /\ TypeOK /\ SavedInv /\ ResponseInv /\ pc = "none" /\ pc' = "parsed"
        /\ path' \in Paths /\ range' = r
        /\ UNCHANGED <<bufferVars, size, head, pieces, saved, finished, cuts>>
    BY DEF FileInv, Request, Resolved, Paths
  <1>1. TypeOK'
    BY <1>0 DEF TypeOK, BufferOK, bufferVars
  <1>2. ResponseInv' /\ SavedInv'
    BY <1>0 DEF ResponseInv, SavedInv, bufferVars
  <1>3. WindowInv'
    BY <1>0 DEF bufferVars, WindowInv, BufferOK, SlidingWindow, Readable
  <1> QED BY <1>1, <1>2, <1>3 DEF FileInv

\* The connection is gone; the client keeps what it has.
LEMMA GoneStep ==
  ASSUME FileInv, Gone, pc # "none",
         UNCHANGED finished \/ finished' = (finished \/ Whole)
  PROVE  FileInv'
  <1>0. /\ WindowInv /\ TypeOK /\ SavedInv /\ pc' = "none" /\ saved' = Have
        /\ buf' = [mem |-> [i \in 1 .. InitSize |-> Zero], r |-> 0, w |-> 0]
        /\ put' = <<>> /\ got' = <<>> /\ head' = NoHead /\ pieces' = <<>>
        /\ UNCHANGED <<size, path, range, probes>> /\ size \in Nat
    BY FileAssumption DEF FileInv, TypeOK, Gone
  <1>1. WindowInv'
    BY <1>0, EmptyAgain
  <1>2. /\ Have \in Seq(0 .. size - 1) /\ \A i \in 1 .. Len(Have) : Have[i] = i - 1
        /\ Whole => Len(Have) = size
    BY HaveIs
  <1>3. NoHead \in Heads
    BY <1>0, FileAssumption DEF NoHead, Heads, TypeOK
  <1>4. finished' \in BOOLEAN /\ ~finished
    BY <1>0 DEF TypeOK, SavedInv
  <1>5. TypeOK'
    BY <1>0, <1>1, <1>2, <1>3, <1>4 DEF TypeOK, WindowInv, Heads
  <1>6. ResponseInv'
    BY <1>0 DEF ResponseInv
  <1>7. SavedInv'
    BY <1>0, <1>2, <1>4 DEF SavedInv
  <1> QED BY <1>1, <1>5, <1>6, <1>7 DEF FileInv

(***************************************************************************)
(* All steps, and the theorems.                                            *)
(***************************************************************************)

LEMMA FileStart == Init => FileInv
  <1> SUFFICES ASSUME Init PROVE FileInv
    OBVIOUS
  <1>1. WindowInv
    BY WindowStart DEF Init
  <1>2. NoHead \in Heads /\ size \in Nat
    BY FileAssumption DEF Init, NoHead, Heads
  <1>3. TypeOK
    <2>1. saved \in Seq(0 .. size - 1) /\ Len(pieces) = 0
      BY EmptySeq DEF Init
    <2>2. head \in Heads /\ path \in Paths
      BY <1>2 DEF Init, Paths
    <2>3. size \in Sizes /\ pc = "none" /\ range = NoRange /\ finished = FALSE
      BY DEF Init
    <2>4. \A i \in 1 .. Len(pieces) : FALSE
      BY <2>1
    <2>5. BufferOK
      BY <1>1 DEF WindowInv
    <2>6. \A i \in 1 .. Len(pieces) :
            \A j \in 1 .. Len(pieces[i]) : pieces[i][j] \in {HeadToken, TextToken} \cup 0 .. size - 1
      BY <2>4
    <2>7. finished \in BOOLEAN /\ range \in Ranges \cup {NoRange}
      BY <2>3
    <2>8. pc \in {"none", "parsed", "append", "write", "closed"}
      BY <2>3
    <2> QED BY <2>1, <2>2, <2>3, <2>5, <2>6, <2>7, <2>8 DEF TypeOK, Heads
  <1>4. ResponseInv /\ SavedInv
    BY DEF Init, BufferInit, ResponseInv, SavedInv
  <1> QED BY <1>1, <1>3, <1>4 DEF FileInv

LEMMA FileStep == FileInv /\ [Next]_vars => FileInv'
  <1> SUFFICES ASSUME FileInv, [Next]_vars PROVE FileInv'
    OBVIOUS
  <1>1. CASE HandleHttpRequest
    BY <1>1, HandleStep
  <1>2. CASE AppendToBuffer
    BY <1>2, AppendStep
  <1>3. CASE HandleWrite
    BY <1>3, WriteStep
  <1>4. CASE Resume
    <2>1. PICK r \in NextRanges : Request("file", r) /\ ~finished
      BY <1>4 DEF Resume
    <2>2. UNCHANGED finished
      BY <2>1 DEF Request
    <2>3. Len(saved) \in Nat /\ "file" \in Paths
      BY DEF FileInv, TypeOK, Paths
    <2>4. r \in Ranges \cup {NoRange}
      BY <2>1, <2>3, FileAssumption DEF NextRanges, Ranges
    <2> QED BY <2>1, <2>2, <2>3, <2>4, RequestStep
  <1>5. CASE Probe
    <2>1. PICK p \in Paths \cup {"above"}, r \in [first : Numbers \cup {Absent}, last : Numbers \cup {Absent}]
                                     \cup {NoRange} : Request(p, r) /\ ~finished
      BY <1>5 DEF Probe
    <2>2. UNCHANGED finished
      BY <2>1 DEF Request
    <2>3. r \in Ranges \cup {NoRange}
      BY <2>1, FileAssumption DEF Ranges
    <2> QED BY <2>1, <2>2, <2>3, RequestStep
  <1>6. CASE EndOfStream
    BY <1>6, GoneStep DEF EndOfStream
  <1>7. CASE Cut
    BY <1>7, GoneStep DEF Cut
  <1>8. CASE UNCHANGED vars
    <2>1. UNCHANGED <<buf, put, got, size, pc, path, range, head, pieces, saved, finished>>
      BY <1>8 DEF vars, bufferVars
    <2>2. BodyOf' = BodyOf /\ Response' = Response
      BY <2>1, SameBody, SameResponse
    <2>3. WindowInv'
      BY <2>1 DEF FileInv, WindowInv, BufferOK, SlidingWindow, Readable
    <2>4. TypeOK'
      BY <2>1 DEF FileInv, TypeOK, BufferOK
    <2>5. ResponseInv' /\ SavedInv'
      BY <2>1, <2>2 DEF FileInv, ResponseInv, SavedInv
    <2> QED BY <2>3, <2>4, <2>5 DEF FileInv
  <1> QED BY <1>1, <1>2, <1>3, <1>4, <1>5, <1>6, <1>7, <1>8 DEF Next

LEMMA FileInvariance == Spec => []FileInv
  <1> QED BY FileStart, FileStep, PTL DEF Spec

\* Every variable keeps its type for any file and any numbers a Range header
\* names: no byte is read that the file has not.
THEOREM Types == Spec => []TypeOK
  <1>1. FileInv => TypeOK
    BY DEF FileInv
  <1> QED BY <1>1, FileInvariance, PTL

\* HandleHttpRequest answers a valid range with exactly the bytes it names,
\* in order, or with 416 when there are none, and AppendToBuffer and
\* HandleWrite keep them through every move of the write buffer.
THEOREM RangesExact == Spec => []RangeExact
  <1> QED BY RangeExactIs, FileInvariance, PTL

\* Whatever the Range header holds, the body has the length that
\* Content-Length and Content-Range announce; the arithmetic of size_t that
\* a last in front of its first sets off never reaches the client.
THEOREM LengthsHonest == Spec => []LengthHonest
  <1> QED BY LengthHonestIs, FileInvariance, PTL

\* Over any number of broken connections a client that resumes holds a
\* prefix of the file, and stops only with all of it (readme.md:20).
THEOREM ResumesRight == Spec => []HaveIsPrefix
  <1>1. FileInv => HaveIsPrefix
    BY HaveIs DEF FileInv, SavedInv, HaveIsPrefix
  <1> QED BY <1>1, FileInvariance, PTL
=============================================================================
