------------------------- MODULE HttpRequestProofs -------------------------
(***************************************************************************)
(* For any stream, any Content-Length and any way the network cuts the     *)
(* stream: the first answer is the one the whole stream deserves, and the  *)
(* first request is eaten to its last byte and not beyond.                 *)
(***************************************************************************)
EXTENDS HttpRequest, BufferProofs, WellFoundedInduction

(***************************************************************************)
(* The invariant.                                                          *)
(***************************************************************************)

\* How much of the stream Parse has eaten.
Eaten == Len(got) + used

\* No line that ends in the first c tokens ends the headers or is malformed.
Clean(s, c) == \A e \in LineEnds(s) : e < c => e \notin BadEnds(s) \cup EmptyEnds(s)

\* One of them is a Content-Length header.
Told(s, c) == \E e \in LineEnds(s) : e < c /\ LineBefore(s, e) = <<"length">>

\* The headers of the first request are complete and well formed.
Headed(s) == BadEnds(s) = {} /\ EmptyEnds(s) # {}

\* While the first request is parsed, what state_ and headers_ say of it is
\* what the stream says up to the place that Parse has reached, which is the
\* start of a line.
FirstInv(s, c) ==
  /\ state = "REQUEST_LINE" => c = 0 /\ ~hasLength
  /\ state = "HEADER" => c - 1 \in LineEnds(s) /\ Clean(s, c) /\ (hasLength <=> Told(s, c))
  /\ state = "BODY" => Headed(s) /\ c = HeadEnd(s) /\ HasBody(s)
  /\ state = "DONE" => Headed(s) /\ c = RequestEnd(s)
  /\ state = "ERROR" => BadEnds(s) # {}

\* What has arrived is the start of the stream, and Parse begins each time
\* at the front of the buffer.
SentInv ==
  /\ Len(put) <= Len(stream) /\ \A i \in 1 .. Len(put) : put[i] = stream[i]
  /\ at = "read" => used = 0

HttpInv ==
  /\ WindowInv /\ TypeOK /\ SentInv
  /\ answers = <<>> => FirstInv(stream, Eaten)
  /\ FirstAnswerRight

(***************************************************************************)
(* Least and greatest elements.                                            *)
(***************************************************************************)

LEMMA MinIs ==
  ASSUME NEW T, T \subseteq Nat, T # {}
  PROVE  Min(T) \in T /\ \A m \in T : Min(T) <= m
  <1> DEFINE R == OpToRel(<, Nat)
  <1>1. \E n \in T : \A m \in T : <<m, n>> \notin R
    <2>1. IsWellFoundedOn(R, Nat)
      BY NatLessThanWellFounded
    <2> HIDE DEF R
    <2> QED BY <2>1, WFMin
  <1>2. \A m, n \in Nat : m < n => <<m, n>> \in R
    BY DEF OpToRel
  <1> HIDE DEF R
  <1>3. \A m, n \in Nat : <<m, n>> \notin R => n <= m
    BY <1>2
  <1>4. \E n \in T : \A m \in T : n <= m
    BY <1>1, <1>3
  <1> QED BY <1>4 DEF Min

LEMMA MinUnique ==
  ASSUME NEW T, T \subseteq Nat, NEW n \in T, \A m \in T : n <= m
  PROVE  Min(T) = n
  <1>1. Min(T) \in T /\ \A m \in T : Min(T) <= m
    BY DEF Min
  <1>2. Min(T) <= n /\ n <= Min(T) /\ Min(T) \in Nat /\ n \in Nat
    BY <1>1
  <1> QED BY <1>2

LEMMA MaxUnique ==
  ASSUME NEW T, T \subseteq Nat, NEW n \in T, \A m \in T : m <= n
  PROVE  Max(T) = n
  <1>1. Max(T) \in T /\ \A m \in T : Max(T) >= m
    <2>1. \A m \in T : n >= m
      OBVIOUS
    <2> QED BY <2>1 DEF Max
  <1>2. Max(T) <= n /\ n <= Max(T) /\ Max(T) \in Nat /\ n \in Nat
    BY <1>1
  <1> QED BY <1>2

(***************************************************************************)
(* The lines of a sequence.                                                *)
(***************************************************************************)

Tokens == Seq(Bytes)

LEMMA EndsIs ==
  ASSUME NEW s \in Tokens, NEW e \in LineEnds(s)
  PROVE  /\ e \in Nat \ {0} /\ e + 1 <= Len(s) /\ Len(s) \in Nat
         /\ s[e] = "CR" /\ s[e + 1] = "LF" /\ e + 1 \notin LineEnds(s)
  <1>1. Len(s) \in Nat
    BY LenProperties DEF Tokens
  <1> QED BY <1>1 DEF LineEnds

LEMMA EndsNat ==
  ASSUME NEW s \in Tokens
  PROVE  LineEnds(s) \subseteq Nat
  BY EndsIs

\* A line that starts at c + 1, at the front or behind a line end, and whose
\* end e is the first from there, is the line that ends at e.
LEMMA LineBeforeIs ==
  ASSUME NEW s \in Tokens, NEW c \in Nat, c = 0 \/ c - 1 \in LineEnds(s),
         NEW e \in LineEnds(s), c < e, \A d \in LineEnds(s) : d < e => d < c
  PROVE  LineBefore(s, e) = SubSeq(s, c + 1, e - 1)
  <1> DEFINE T == {0} \cup {d + 1 : d \in {d \in LineEnds(s) : d < e}}
  <1>1. T \subseteq Nat
    BY EndsNat
  <1>2. c \in T
    <2>1. CASE c = 0
      BY <2>1
    <2>2. CASE c - 1 \in LineEnds(s)
      <3>1. PICK d \in LineEnds(s) : d = c - 1
        BY <2>2
      <3>2. d < e /\ d + 1 = c
        BY <3>1, EndsIs
      <3> QED BY <3>1, <3>2
    <2> QED BY <2>1, <2>2
  <1>3. \A m \in T : m <= c
    <2>1. ASSUME NEW d \in LineEnds(s), d < e PROVE d + 1 <= c
      BY <2>1, EndsIs
    <2> QED BY <2>1
  <1>4. Max(T) = c
    <2> HIDE DEF T
    <2> QED BY <1>1, <1>2, <1>3, MaxUnique
  <1> QED BY <1>4 DEF LineBefore

(***************************************************************************)
(* What Parse sees.                                                        *)
(***************************************************************************)

LEMMA SentIs ==
  ASSUME HttpInv
  PROVE  /\ stream \in Tokens /\ Len(stream) \in Nat /\ Len(got) \in Nat /\ Len(put) \in Nat
         /\ used \in Nat /\ Readable(buf) \in Nat /\ used <= Readable(buf)
         /\ Len(put) = Len(got) + Readable(buf) /\ Len(put) <= Len(stream)
         /\ Eaten \in Nat /\ Eaten <= Len(put) /\ Length \in Nat
         /\ \A i \in 1 .. Len(put) : put[i] = stream[i]
  <1>1. stream \in Seq(Bytes)
    <2>1. stream \in Seq(Bytes \cap {"request", "header", "length", "junk", "byte", "CR", "LF"})
      BY StreamsAssumption DEF HttpInv, TypeOK
    <2> QED BY <2>1
  <1>2. /\ Len(got) \in Nat /\ Len(put) \in Nat /\ Readable(buf) \in Nat
        /\ Len(put) = Len(got) + Readable(buf)
    BY DEF HttpInv, WindowInv, BufferOK, SlidingWindow, Buffers, Readable
  <1>3. used \in Nat /\ used <= Readable(buf)
    BY <1>2 DEF HttpInv, TypeOK
  <1> QED BY <1>1, <1>2, <1>3, LenProperties, StreamsAssumption
          DEF HttpInv, SentInv, Eaten, Tokens

\* The data of the loop is the part of the stream that has arrived and is
\* not eaten.
LEMMA DataIs ==
  ASSUME HttpInv
  PROVE  /\ Data \in Tokens /\ Len(Data) = Len(put) - Eaten /\ Len(Data) \in Nat
         /\ \A j \in 1 .. Len(Data) : Data[j] = stream[Eaten + j]
  <1>1. /\ buf.mem \in Seq(Bytes) /\ buf.r \in Nat /\ buf.w \in Nat /\ Len(buf.mem) \in Nat
        /\ buf.r <= buf.w /\ buf.w <= Len(buf.mem) /\ Readable(buf) = buf.w - buf.r
    BY LenProperties DEF HttpInv, WindowInv, BufferOK, Buffers, Readable
  <1> DEFINE m == Contents(buf)
             n == Readable(buf)
  <1>2. /\ m \in Seq(Bytes) /\ Len(m) = n /\ n \in Nat
        /\ \A i \in 1 .. n : m[i] = buf.mem[buf.r + i]
    <2>1. \A i \in buf.r + 1 .. buf.w : buf.mem[i] \in Bytes
      <3>1. \A i \in buf.r + 1 .. buf.w : i \in 1 .. Len(buf.mem)
        BY <1>1
      <3> QED BY <1>1, <3>1, ElementOfSeq
    <2>2. /\ m \in Seq(Bytes)
          /\ Len(m) = IF buf.r + 1 <= buf.w THEN buf.w - (buf.r + 1) + 1 ELSE 0
          /\ \A i \in 1 .. buf.w - (buf.r + 1) + 1 : m[i] = buf.mem[(buf.r + 1) + i - 1]
      BY <1>1, <2>1, SubSeqProperties DEF Contents
    <2>3. buf.w - (buf.r + 1) + 1 = n /\ n \in Nat
      BY <1>1
    <2>4. \A i \in 1 .. n : (buf.r + 1) + i - 1 = buf.r + i
      BY <1>1, <2>3
    <2> QED BY <1>1, <2>2, <2>3, <2>4
  <1>3. \A i \in 1 .. n : m[i] = stream[Len(got) + i]
    <2> SUFFICES ASSUME NEW i \in 1 .. n PROVE m[i] = stream[Len(got) + i]
      OBVIOUS
    <2>1. PICK k \in 1 .. Len(put) : k = Len(got) + i /\ ~(k <= Len(got)) /\ k - Len(got) = i
      <3>1. Len(put) = Len(got) + n /\ Len(got) \in Nat /\ n \in Nat
        BY <1>2, SentIs
      <3> QED BY <3>1
    <2>2. put[k] = buf.mem[buf.r + i]
      BY <2>1 DEF HttpInv, WindowInv, SlidingWindow
    <2> QED BY <1>2, <2>1, <2>2, SentIs
  <1> HIDE DEF m, n
  <1>4. Data = SubSeq(m, used + 1, n)
    BY DEF Data, m, n
  <1>5. used \in Nat /\ used <= n /\ n = Len(put) - Len(got) /\ Len(got) \in Nat /\ Len(put) \in Nat
    BY SentIs DEF n
  <1> DEFINE t == SubSeq(m, used + 1, n)
  <1>6. /\ t \in Seq(Bytes) /\ Len(t) = n - used /\ n - used \in Nat
        /\ \A j \in 1 .. n - used : t[j] = m[used + j] /\ used + j \in 1 .. n
    <2>1. \A i \in used + 1 .. n : m[i] \in Bytes
      <3>1. \A i \in used + 1 .. n : i \in 1 .. Len(m)
        BY <1>2, <1>5
      <3> QED BY <1>2, <3>1, ElementOfSeq
    <2>2. /\ t \in Seq(Bytes)
          /\ Len(t) = IF used + 1 <= n THEN n - (used + 1) + 1 ELSE 0
          /\ \A j \in 1 .. n - (used + 1) + 1 : t[j] = m[(used + 1) + j - 1]
      BY <1>2, <1>5, <2>1, SubSeqProperties
    <2>3. n - (used + 1) + 1 = n - used /\ n - used \in Nat
      BY <1>2, <1>5
    <2>4. \A j \in 1 .. n - used : (used + 1) + j - 1 = used + j /\ used + j \in 1 .. n
      BY <1>2, <1>5
    <2>5. Len(t) = n - used
      <3>1. n \in Nat /\ used \in Nat /\ used <= n
        BY <1>2, <1>5
      <3>2. (IF used + 1 <= n THEN n - (used + 1) + 1 ELSE 0) = n - used
        BY <3>1
      <3> QED BY <2>2, <3>2
    <2> QED BY <2>2, <2>3, <2>4, <2>5
  <1> HIDE DEF t
  <1>7. n - used = Len(put) - Eaten
    BY <1>5 DEF Eaten
  <1>8. \A j \in 1 .. n - used : t[j] = stream[Eaten + j]
    <2> SUFFICES ASSUME NEW j \in 1 .. n - used PROVE t[j] = stream[Eaten + j]
      OBVIOUS
    <2>1. t[j] = stream[Len(got) + (used + j)]
      BY <1>3, <1>6
    <2>2. Len(got) + (used + j) = Eaten + j
      BY <1>5 DEF Eaten
    <2> QED BY <2>1, <2>2
  <1> QED BY <1>4, <1>6, <1>7, <1>8 DEF t, Tokens

\* The line in front of the first line end of the data.
LEMMA LineIs ==
  ASSUME HttpInv, LineEnds(Data) # {}
  PROVE  \E m \in Nat \ {0} :
           /\ m + 1 <= Len(Data) /\ Line = SubSeq(Data, 1, m - 1) /\ Len(Line) = m - 1
           /\ Line \in Tokens /\ \A j \in 1 .. m - 1 : Line[j] = stream[Eaten + j]
           /\ stream[Eaten + m] = "CR" /\ stream[Eaten + (m + 1)] = "LF"
           /\ \A d \in LineEnds(Data) : m <= d
  <1>1. /\ Data \in Tokens /\ Len(Data) \in Nat
        /\ \A j \in 1 .. Len(Data) : Data[j] = stream[Eaten + j]
    BY DataIs
  <1>2. PICK m \in LineEnds(Data) : m = Min(LineEnds(Data)) /\ \A d \in LineEnds(Data) : m <= d
    BY <1>1, EndsNat, MinIs
  <1>3. m \in Nat \ {0} /\ m + 1 <= Len(Data) /\ Data[m] = "CR" /\ Data[m + 1] = "LF"
    BY <1>1, EndsIs
  <1>4. Line = SubSeq(Data, 1, m - 1)
    BY <1>2 DEF Line
  <1> DEFINE t == SubSeq(Data, 1, m - 1)
  <1>5. t \in Seq(Bytes) /\ Len(t) = m - 1 /\ \A j \in 1 .. m - 1 : t[j] = Data[j]
    <2>1. \A j \in 1 .. m - 1 : Data[j] \in Bytes
      <3>1. \A j \in 1 .. m - 1 : j \in 1 .. Len(Data)
        BY <1>1, <1>3
      <3> QED BY <1>1, <3>1, ElementOfSeq DEF Tokens
    <2>2. /\ t \in Seq(Bytes)
          /\ Len(t) = IF 1 <= m - 1 THEN m - 1 - 1 + 1 ELSE 0
          /\ \A j \in 1 .. m - 1 - 1 + 1 : t[j] = Data[1 + j - 1]
      BY <1>3, <2>1, SubSeqProperties
    <2>3. m - 1 - 1 + 1 = m - 1 /\ (IF 1 <= m - 1 THEN m - 1 - 1 + 1 ELSE 0) = m - 1
      BY <1>3
    <2>4. \A j \in 1 .. m - 1 : 1 + j - 1 = j
      BY <1>3
    <2>5. Len(t) = m - 1
      BY <2>2, <2>3
    <2> QED BY <2>2, <2>3, <2>4, <2>5
  <1> HIDE DEF t
  <1>6. \A j \in 1 .. m - 1 : t[j] = stream[Eaten + j]
    <2>1. \A j \in 1 .. m - 1 : j \in 1 .. Len(Data)
      BY <1>1, <1>3
    <2> QED BY <1>1, <1>5, <2>1
  <1>7. stream[Eaten + m] = "CR" /\ stream[Eaten + (m + 1)] = "LF"
    <2>1. m \in 1 .. Len(Data) /\ m + 1 \in 1 .. Len(Data)
      BY <1>1, <1>3
    <2> QED BY <1>1, <1>3, <2>1
  <1> QED BY <1>2, <1>3, <1>4, <1>5, <1>6, <1>7 DEF t, Tokens

\* If Parse stands at the start of a line, it eats the next line of the
\* stream and its end.
LEMMA NextLine ==
  ASSUME HttpInv, LineEnds(Data) # {}, NEW c \in Nat, c = Eaten,
         c = 0 \/ c - 1 \in LineEnds(stream)
  PROVE  \E e \in LineEnds(stream) :
           /\ c < e /\ e + 1 <= Len(put) /\ c + Len(Line) + 2 = e + 1
           /\ LineBefore(stream, e) = Line
           /\ \A d \in LineEnds(stream) : d < e => d < c
  <1>1. PICK m \in Nat \ {0} :
           /\ m + 1 <= Len(Data) /\ Line = SubSeq(Data, 1, m - 1) /\ Len(Line) = m - 1
           /\ Line \in Tokens /\ \A j \in 1 .. m - 1 : Line[j] = stream[c + j]
           /\ stream[c + m] = "CR" /\ stream[c + (m + 1)] = "LF"
           /\ \A d \in LineEnds(Data) : m <= d
    BY LineIs
  <1>2. PICK e \in Nat : e = c + m
    OBVIOUS
  <1>3. /\ stream \in Tokens /\ Len(stream) \in Nat /\ Len(put) \in Nat /\ Len(put) <= Len(stream)
        /\ Len(Data) = Len(put) - c /\ Len(Data) \in Nat
        /\ \A j \in 1 .. Len(Data) : Data[j] = stream[c + j]
    BY SentIs, DataIs
  <1>4. e \in Nat \ {0} /\ c < e /\ e + 1 <= Len(put) /\ c + (m - 1) + 2 = e + 1
        /\ e \in 1 .. Len(stream) - 1 /\ e + 1 = c + (m + 1)
    BY <1>1, <1>2, <1>3
  <1>5. e \in LineEnds(stream)
    BY <1>1, <1>2, <1>4 DEF LineEnds
  <1>6. ASSUME NEW d \in LineEnds(stream), d < e
        PROVE  d < c
    <2>1. d \in Nat \ {0} /\ stream[d] = "CR" /\ stream[d + 1] = "LF"
      BY <1>3, EndsIs
    <2>2. d # c
      <3>1. CASE c = 0
        BY <2>1, <3>1
      <3>2. CASE c - 1 \in LineEnds(stream)
        <4>1. PICK b \in LineEnds(stream) : b = c - 1
          BY <3>2
        <4>2. b + 1 \notin LineEnds(stream) /\ b + 1 = c
          BY <1>3, <4>1, EndsIs
        <4> QED BY <4>2
      <3> QED BY <3>1, <3>2
    <2>3. ~(c < d)
      <3> SUFFICES ASSUME c < d PROVE FALSE
        OBVIOUS
      <3>1. PICK k \in Nat \ {0} : d = c + k
        <4>1. d - c \in Nat \ {0} /\ d = c + (d - c)
          BY <2>1
        <4> QED BY <4>1
      <3>2. k < m /\ k \in 1 .. Len(Data) - 1 /\ k \in 1 .. Len(Data) /\ k + 1 \in 1 .. Len(Data)
            /\ c + (k + 1) = d + 1
        BY <1>1, <1>2, <1>3, <1>6, <3>1
      <3>3. k \in LineEnds(Data)
        BY <1>3, <2>1, <3>1, <3>2 DEF LineEnds
      <3> QED BY <1>1, <3>2, <3>3
    <2> QED BY <2>1, <2>2, <2>3
  <1>7. LineBefore(stream, e) = Line
    <2>1. LineBefore(stream, e) = SubSeq(stream, c + 1, e - 1)
      BY <1>3, <1>4, <1>5, <1>6, LineBeforeIs
    <2> DEFINE t == SubSeq(stream, c + 1, e - 1)
    <2>2. t \in Seq(Bytes) /\ Len(t) = m - 1 /\ \A j \in 1 .. m - 1 : t[j] = stream[c + j]
      <3>1. \A i \in c + 1 .. e - 1 : stream[i] \in Bytes
        <4>1. \A i \in c + 1 .. e - 1 : i \in 1 .. Len(stream)
          BY <1>3, <1>4
        <4> QED BY <1>3, <4>1, ElementOfSeq DEF Tokens
      <3>2. /\ t \in Seq(Bytes)
            /\ Len(t) = IF c + 1 <= e - 1 THEN e - 1 - (c + 1) + 1 ELSE 0
            /\ \A j \in 1 .. e - 1 - (c + 1) + 1 : t[j] = stream[c + 1 + j - 1]
        BY <1>4, <3>1, SubSeqProperties
      <3>3. /\ e - 1 - (c + 1) + 1 = m - 1
            /\ (IF c + 1 <= e - 1 THEN e - 1 - (c + 1) + 1 ELSE 0) = m - 1
        BY <1>2, <1>4
      <3>4. \A j \in 1 .. m - 1 : c + 1 + j - 1 = c + j
        OBVIOUS
      <3>5. Len(t) = m - 1
        BY <3>2, <3>3
      <3> QED BY <3>2, <3>3, <3>4, <3>5
    <2> HIDE DEF t
    <2>3. t = Line
      BY <1>1, <2>2, SeqEqual DEF Tokens
    <2> QED BY <2>1, <2>3 DEF t
  <1>8. c + Len(Line) + 2 = e + 1
    BY <1>1, <1>4
  <1> QED BY <1>4, <1>5, <1>6, <1>7, <1>8

(***************************************************************************)
(* What a line tells of the first request.                                 *)
(***************************************************************************)

LEMMA Different ==
  /\ <<"request">> # <<"length">> /\ <<"header">> # <<"length">>
  /\ <<>> # <<"request">> /\ <<>> # <<"header">> /\ <<>> # <<"length">>
  <1>1. /\ <<"request">>[1] = "request" /\ <<"header">>[1] = "header"
        /\ <<"length">>[1] = "length"
    OBVIOUS
  <1>2. /\ Len(<<>>) = 0 /\ Len(<<"request">>) = 1 /\ Len(<<"header">>) = 1
        /\ Len(<<"length">>) = 1
    OBVIOUS
  <1>3. <<"request">> # <<"length">> /\ <<"header">> # <<"length">>
    BY <1>1
  <1> QED BY <1>2, <1>3

LEMMA FirstEndIs ==
  ASSUME NEW s \in Tokens, NEW e \in LineEnds(s)
  PROVE  /\ FirstEnd(s) \in LineEnds(s) /\ FirstEnd(s) <= e
         /\ (\A d \in LineEnds(s) : ~(d < e)) => FirstEnd(s) = e
  <1>1. LineEnds(s) \subseteq Nat
    BY EndsNat
  <1>2. FirstEnd(s) \in LineEnds(s) /\ \A d \in LineEnds(s) : FirstEnd(s) <= d
    BY <1>1, MinIs DEF FirstEnd
  <1>3. (\A d \in LineEnds(s) : ~(d < e)) => FirstEnd(s) = e
    BY <1>1, <1>2
  <1> QED BY <1>2, <1>3

\* The first line is a request line, or makes the stream malformed.
LEMMA RequestLineIs ==
  ASSUME NEW s \in Tokens, NEW e \in LineEnds(s), \A d \in LineEnds(s) : ~(d < e)
  PROVE  /\ LineBefore(s, e) # <<"request">> => e \in BadEnds(s)
         /\ LineBefore(s, e) = <<"request">> => Clean(s, e + 1) /\ ~Told(s, e + 1)
  <1>1. FirstEnd(s) = e /\ LineEnds(s) \subseteq Nat
    BY FirstEndIs, EndsNat
  <1>2. \A d \in EmptyEnds(s) : e < d
    BY <1>1 DEF EmptyEnds
  <1>3. LineBefore(s, e) # <<"request">> => e \in BadEnds(s)
    BY <1>1, <1>2 DEF BadEnds
  <1>4. ASSUME NEW d \in LineEnds(s), d < e + 1
        PROVE  d = e
    BY <1>1, <1>4
  <1>5. ASSUME LineBefore(s, e) = <<"request">>
        PROVE  Clean(s, e + 1) /\ ~Told(s, e + 1)
    <2>1. e \notin EmptyEnds(s)
      BY <1>1 DEF EmptyEnds
    <2>2. e \notin BadEnds(s)
      BY <1>1, <1>5 DEF BadEnds
    <2>3. LineBefore(s, e) # <<"length">>
      BY <1>5, Different
    <2> QED BY <1>4, <2>1, <2>2, <2>3 DEF Clean, Told
  <1> QED BY <1>3, <1>5

\* A line behind the first: the empty one ends the headers, which are then
\* complete; another is a header, or makes the stream malformed.
LEMMA HeaderLineIs ==
  ASSUME NEW s \in Tokens, NEW c \in Nat, c - 1 \in LineEnds(s), Clean(s, c),
         NEW e \in LineEnds(s), c < e, \A d \in LineEnds(s) : d < e => d < c
  PROVE  /\ LineBefore(s, e) = <<>> =>
              Headed(s) /\ HeadEnd(s) = e + 1 /\ (HasBody(s) <=> Told(s, c))
         /\ LineBefore(s, e) \in {<<"header">>, <<"length">>} =>
              /\ Clean(s, e + 1)
              /\ Told(s, e + 1) <=> (Told(s, c) \/ LineBefore(s, e) = <<"length">>)
         /\ LineBefore(s, e) \notin {<<>>, <<"header">>, <<"length">>} => e \in BadEnds(s)
  <1>1. LineEnds(s) \subseteq Nat /\ e \in Nat
    BY EndsNat
  <1>2. FirstEnd(s) \in Nat /\ FirstEnd(s) < e
    <2>1. PICK b \in LineEnds(s) : b = c - 1
      OBVIOUS
    <2>2. FirstEnd(s) \in LineEnds(s) /\ FirstEnd(s) <= b /\ b \in Nat
      BY <1>1, <2>1, FirstEndIs
    <2> QED BY <1>1, <2>1, <2>2
  <1>3. \A d \in EmptyEnds(s) : d \in LineEnds(s) /\ d \in Nat /\ ~(d < c)
    BY <1>1 DEF EmptyEnds, Clean
  <1>4. \A d \in EmptyEnds(s) : ~(d < e)
    BY <1>3
  <1>5. \A d \in LineEnds(s) : d < e + 1 => d < c \/ d = e
    BY <1>1
  <1>6. ASSUME LineBefore(s, e) = <<>>
        PROVE  Headed(s) /\ HeadEnd(s) = e + 1 /\ (HasBody(s) <=> Told(s, c))
    <2>1. e \in EmptyEnds(s)
      BY <1>2, <1>6 DEF EmptyEnds
    <2>2. EmptyEnds(s) \subseteq Nat /\ \A d \in EmptyEnds(s) : e <= d
      BY <1>1, <1>3, <1>4
    <2>3. HeadEnd(s) = e + 1
      BY <2>1, <2>2, MinUnique DEF HeadEnd
    <2>4. BadEnds(s) = {}
      <3> SUFFICES ASSUME NEW b \in BadEnds(s) PROVE FALSE
        OBVIOUS
      <3>1. b \in LineEnds(s) /\ b < e
        BY <2>1 DEF BadEnds
      <3> QED BY <3>1 DEF Clean
    <2>5. LineBefore(s, e) # <<"length">>
      BY <1>6, Different
    <2>6. HasBody(s) <=> Told(s, c)
      <3>1. \A d \in LineEnds(s) : d < c => d < e + 1
        BY <1>1
      <3> QED BY <1>5, <2>3, <2>5, <3>1 DEF HasBody, Told
    <2> QED BY <2>1, <2>3, <2>4, <2>6 DEF Headed
  <1>7. ASSUME LineBefore(s, e) \in {<<"header">>, <<"length">>}
        PROVE  /\ Clean(s, e + 1)
               /\ Told(s, e + 1) <=> (Told(s, c) \/ LineBefore(s, e) = <<"length">>)
    <2>1. e \notin EmptyEnds(s)
      BY <1>7, Different DEF EmptyEnds
    <2>2. e \notin BadEnds(s)
      BY <1>2, <1>7 DEF BadEnds
    <2>3. Clean(s, e + 1)
      BY <1>5, <2>1, <2>2 DEF Clean
    <2>4. \A d \in LineEnds(s) : d < c => d < e + 1
      BY <1>1
    <2>5. e < e + 1
      BY <1>1
    <2>6. Told(s, e + 1) => Told(s, c) \/ LineBefore(s, e) = <<"length">>
      BY <1>5 DEF Told
    <2>7. Told(s, c) \/ LineBefore(s, e) = <<"length">> => Told(s, e + 1)
      BY <2>4, <2>5 DEF Told
    <2> QED BY <2>3, <2>6, <2>7
  <1>8. ASSUME LineBefore(s, e) \notin {<<>>, <<"header">>, <<"length">>}
        PROVE  e \in BadEnds(s)
    <2>1. \A d \in EmptyEnds(s) : d # e
      BY <1>8 DEF EmptyEnds
    <2>2. \A d \in EmptyEnds(s) : e < d
      BY <1>1, <1>3, <1>4, <2>1
    <2> QED BY <1>2, <1>8, <2>2 DEF BadEnds
  <1> QED BY <1>6, <1>7, <1>8

LEMMA VerdictIs ==
  ASSUME NEW s
  PROVE  /\ BadEnds(s) # {} => Verdict(s) = "400"
         /\ Headed(s) /\ RequestEnd(s) <= Len(s) => Verdict(s) = "200"
  BY DEF Verdict, Headed

(***************************************************************************)
(* The steps.                                                              *)
(***************************************************************************)

States == {"REQUEST_LINE", "HEADER", "BODY", "DONE", "ERROR"}

\* A step of Parse leaves the buffer and the answers alone.
LEMMA ParseKeeps ==
  ASSUME HttpInv, UNCHANGED <<stream, bufferVars, answers>>,
         at' \in {"parse", "handle"}, used' \in 0 .. Readable(buf),
         state' \in States, hasLength' \in BOOLEAN,
         answers = <<>> => FirstInv(stream, Eaten)'
  PROVE  HttpInv'
  <1>1. UNCHANGED <<buf, put, got>> /\ Readable(buf') = Readable(buf)
    BY DEF bufferVars, Readable
  <1>2. WindowInv'
    BY <1>1 DEF HttpInv, WindowInv, BufferOK, SlidingWindow, Readable
  <1>3. TypeOK'
    BY <1>1, <1>2 DEF HttpInv, TypeOK, WindowInv, States
  <1>4. SentInv' /\ FirstAnswerRight'
    BY <1>1 DEF HttpInv, SentInv, FirstAnswerRight, Verdicts
  <1> QED BY <1>2, <1>3, <1>4 DEF HttpInv

LEMMA EatIs ==
  ASSUME HttpInv, LineEnds(Data) # {}, used' = used + Len(Line) + 2
  PROVE  used' \in 0 .. Readable(buf)
  <1>1. PICK m \in Nat \ {0} : m + 1 <= Len(Data) /\ Len(Line) = m - 1
    BY LineIs
  <1>2. /\ Len(Data) = Len(put) - Eaten /\ Len(put) = Len(got) + Readable(buf)
        /\ Len(put) \in Nat /\ Len(got) \in Nat /\ Readable(buf) \in Nat /\ used \in Nat
        /\ Eaten = Len(got) + used
    BY DataIs, SentIs DEF Eaten
  <1>3. Len(Data) = Readable(buf) - used
    BY <1>2
  <1>4. used' = used + (m - 1) + 2
    BY <1>1
  <1> QED BY <1>1, <1>2, <1>3, <1>4

LEMMA RequestLineStep ==
  ASSUME HttpInv, RequestLine
  PROVE  HttpInv'
  <1>0. /\ LineEnds(Data) # {} /\ at = "parse" /\ state = "REQUEST_LINE"
        /\ used' = used + Len(Line) + 2
        /\ state' = IF Line = <<"request">> THEN "HEADER" ELSE "ERROR"
        /\ UNCHANGED <<stream, bufferVars, hasLength, at, answers>>
    BY DEF RequestLine, InLoop, Eat, TwoSpaces
  <1>1. used' \in 0 .. Readable(buf)
    BY <1>0, EatIs
  <1>2. ASSUME answers = <<>>
        PROVE  FirstInv(stream, Eaten)'
    <2>1. PICK c \in Nat : c = Eaten /\ c = 0 /\ ~hasLength
      BY <1>0, <1>2, SentIs DEF HttpInv, FirstInv
    <2>2. PICK e \in LineEnds(stream) :
             /\ c < e /\ c + Len(Line) + 2 = e + 1
             /\ LineBefore(stream, e) = Line
             /\ \A d \in LineEnds(stream) : d < e => d < c
      BY <1>0, <2>1, NextLine
    <2>3. stream \in Tokens /\ \A d \in LineEnds(stream) : ~(d < e)
      BY <2>1, <2>2, SentIs, EndsNat
    <2>4. /\ Line # <<"request">> => BadEnds(stream) # {}
          /\ Line = <<"request">> => Clean(stream, e + 1) /\ ~Told(stream, e + 1)
      BY <2>2, <2>3, RequestLineIs
    <2>5. Eaten' = e + 1
      <3>1. Eaten' = Len(got) + (used + Len(Line) + 2)
        BY <1>0 DEF Eaten, bufferVars
      <3>2. Len(got) \in Nat /\ used \in Nat /\ c = Len(got) + used
        BY <2>1, SentIs DEF Eaten
      <3>3. PICK n \in Nat : n = Len(Line)
        BY <1>0, LineIs
      <3> QED BY <2>2, <3>1, <3>2, <3>3
    <2>6. (e + 1) - 1 \in LineEnds(stream)
      <3>1. e \in Nat
        BY <2>3, EndsNat
      <3>2. (e + 1) - 1 = e
        BY <3>1
      <3> QED BY <2>2, <3>2
    <2>7. ~hasLength' /\ stream' = stream
      BY <1>0, <2>1
    <2>8. CASE Line = <<"request">>
      <3>1. state' = "HEADER" /\ Clean(stream, e + 1) /\ ~Told(stream, e + 1)
        BY <1>0, <2>4, <2>8
      <3> QED BY <2>5, <2>6, <2>7, <3>1 DEF FirstInv
    <2>9. CASE Line # <<"request">>
      <3>1. state' = "ERROR" /\ BadEnds(stream) # {}
        BY <1>0, <2>4, <2>9
      <3> QED BY <2>7, <3>1 DEF FirstInv
    <2> QED BY <2>8, <2>9
  <1>3. at' \in {"parse", "handle"} /\ state' \in States /\ hasLength' \in BOOLEAN
    BY <1>0 DEF HttpInv, TypeOK, States
  <1> QED BY <1>0, <1>1, <1>2, <1>3, ParseKeeps

LEMMA HeaderStep ==
  ASSUME HttpInv, Header
  PROVE  HttpInv'
  <1>0. /\ LineEnds(Data) # {} /\ at = "parse" /\ state = "HEADER"
        /\ used' = used + Len(Line) + 2
        /\ UNCHANGED <<stream, bufferVars, at, answers>>
        /\ \/ Line = <<>> /\ state' = AfterHeaders /\ UNCHANGED hasLength
           \/ /\ Line \in {<<"header">>, <<"length">>}
              /\ hasLength' = (hasLength \/ Line = <<"length">>) /\ UNCHANGED state
           \/ /\ Line \notin {<<>>, <<"header">>, <<"length">>}
              /\ state' = "ERROR" /\ UNCHANGED hasLength
    BY DEF Header, InLoop, Eat, HeaderLine
  <1>1. used' \in 0 .. Readable(buf)
    BY <1>0, EatIs
  <1>2. ASSUME answers = <<>>
        PROVE  FirstInv(stream, Eaten)'
    <2>1. PICK c \in Nat : /\ c = Eaten /\ c - 1 \in LineEnds(stream) /\ Clean(stream, c)
                           /\ hasLength <=> Told(stream, c)
      BY <1>0, <1>2, SentIs DEF HttpInv, FirstInv
    <2>2. PICK e \in LineEnds(stream) :
             /\ c < e /\ e + 1 <= Len(put) /\ c + Len(Line) + 2 = e + 1
             /\ LineBefore(stream, e) = Line
             /\ \A d \in LineEnds(stream) : d < e => d < c
      BY <1>0, <2>1, NextLine
    <2>3. stream \in Tokens
      BY SentIs
    <2>4. /\ Line = <<>> => /\ Headed(stream) /\ HeadEnd(stream) = e + 1
                            /\ HasBody(stream) <=> Told(stream, c)
          /\ Line \in {<<"header">>, <<"length">>} =>
               /\ Clean(stream, e + 1)
               /\ Told(stream, e + 1) <=> (Told(stream, c) \/ Line = <<"length">>)
          /\ Line \notin {<<>>, <<"header">>, <<"length">>} => e \in BadEnds(stream)
      BY <2>1, <2>2, <2>3, HeaderLineIs
    <2>5. Eaten' = e + 1
      <3>1. Eaten' = Len(got) + (used + Len(Line) + 2)
        BY <1>0 DEF Eaten, bufferVars
      <3>2. Len(got) \in Nat /\ used \in Nat /\ c = Len(got) + used
        BY <2>1, SentIs DEF Eaten
      <3>3. PICK n \in Nat : n = Len(Line)
        BY <1>0, LineIs
      <3> QED BY <2>2, <3>1, <3>2, <3>3
    <2>6. e \in Nat /\ (e + 1) - 1 \in LineEnds(stream)
      <3>1. e \in Nat
        BY <2>3, EndsNat
      <3>2. (e + 1) - 1 = e
        BY <3>1
      <3> QED BY <2>2, <3>1, <3>2
    <2>7. CASE Line = <<>> /\ state' = AfterHeaders /\ UNCHANGED hasLength
      <3>1. state' = IF hasLength THEN "BODY" ELSE "DONE"
        BY <2>7 DEF AfterHeaders
      <3>2. RequestEnd(stream) = HeadEnd(stream) + (IF HasBody(stream) THEN Length ELSE 0)
        BY DEF RequestEnd
      <3>3. ~HasBody(stream) => RequestEnd(stream) = e + 1
        BY <2>4, <2>6, <2>7, <3>2
      <3> QED BY <1>0, <2>1, <2>4, <2>5, <2>7, <3>1, <3>3 DEF FirstInv
    <2>8. CASE /\ Line \in {<<"header">>, <<"length">>}
               /\ hasLength' = (hasLength \/ Line = <<"length">>) /\ UNCHANGED state
      <3>1. state' = "HEADER" /\ stream' = stream
        BY <1>0, <2>8
      <3>2. hasLength' <=> Told(stream, e + 1)
        BY <2>1, <2>4, <2>8
      <3> QED BY <2>4, <2>5, <2>6, <2>8, <3>1, <3>2 DEF FirstInv
    <2>9. CASE /\ Line \notin {<<>>, <<"header">>, <<"length">>}
               /\ state' = "ERROR" /\ UNCHANGED hasLength
      BY <1>0, <2>4, <2>9 DEF FirstInv
    <2> QED BY <1>0, <2>7, <2>8, <2>9
  <1>3. at' \in {"parse", "handle"} /\ state' \in States /\ hasLength' \in BOOLEAN
    BY <1>0 DEF HttpInv, TypeOK, States, AfterHeaders
  <1> QED BY <1>0, <1>1, <1>2, <1>3, ParseKeeps

LEMMA BodyStep ==
  ASSUME HttpInv, Body
  PROVE  HttpInv'
  <1>0. /\ at = "parse" /\ state = "BODY" /\ Len(Data) >= Length
        /\ used' = used + Length /\ state' = "DONE"
        /\ UNCHANGED <<stream, bufferVars, hasLength, at, answers>>
    BY DEF Body, InLoop, BodyArrived
  <1>1. /\ Len(Data) = Len(put) - Eaten /\ Len(put) = Len(got) + Readable(buf)
        /\ Len(put) \in Nat /\ Len(got) \in Nat /\ Readable(buf) \in Nat /\ used \in Nat
        /\ Eaten = Len(got) + used /\ Length \in Nat
    BY DataIs, SentIs DEF Eaten
  <1>2. used' \in 0 .. Readable(buf)
    <2>1. Len(Data) = Readable(buf) - used
      BY <1>1
    <2> QED BY <1>0, <1>1, <2>1
  <1>3. ASSUME answers = <<>>
        PROVE  FirstInv(stream, Eaten)'
    <2>1. Headed(stream) /\ Eaten = HeadEnd(stream) /\ HasBody(stream)
      BY <1>0, <1>3 DEF HttpInv, FirstInv
    <2>2. RequestEnd(stream) = Eaten + Length
      BY <2>1 DEF RequestEnd
    <2>3. Eaten' = Len(got) + (used + Length)
      BY <1>0 DEF Eaten, bufferVars
    <2>4. Eaten' = Eaten + Length
      BY <1>1, <2>3
    <2> QED BY <1>0, <2>1, <2>2, <2>4 DEF FirstInv
  <1>4. at' \in {"parse", "handle"} /\ state' \in States /\ hasLength' \in BOOLEAN
    BY <1>0 DEF HttpInv, TypeOK, States
  <1> QED BY <1>0, <1>2, <1>3, <1>4, ParseKeeps

LEMMA ReturnStep ==
  ASSUME HttpInv, Return
  PROVE  HttpInv'
  <1>1. /\ at' = "handle" /\ UNCHANGED <<stream, bufferVars, used, state, hasLength, answers>>
    BY DEF Return
  <1>2. Eaten' = Eaten
    BY <1>1 DEF Eaten, bufferVars
  <1>3. answers = <<>> => FirstInv(stream, Eaten)'
    BY <1>1, <1>2 DEF HttpInv, FirstInv
  <1>4. used' \in 0 .. Readable(buf) /\ state' \in States /\ hasLength' \in BOOLEAN
    BY <1>1 DEF HttpInv, TypeOK, States
  <1> QED BY <1>1, <1>3, <1>4, ParseKeeps

\* ReadFd appends a part of the stream behind what has arrived.
LEMMA ReadStep ==
  ASSUME HttpInv, Read
  PROVE  HttpInv'
  <1>0. /\ at = "read" /\ used' = 0 /\ at' = "parse" /\ used = 0
        /\ UNCHANGED <<stream, state, hasLength, answers>>
    BY DEF Read, HttpInv, SentInv
  <1>1. PICK n \in Len(put) + 1 .. Len(stream) : ReadFd(SubSeq(stream, Len(put) + 1, n))
    BY DEF Read
  <1> DEFINE t == SubSeq(stream, Len(put) + 1, n)
  <1>2. /\ stream \in Seq(Bytes) /\ Len(stream) \in Nat /\ Len(put) \in Nat /\ put \in Seq(Bytes)
        /\ n \in Nat /\ Len(put) < n /\ n <= Len(stream)
    BY SentIs, LenProperties DEF Tokens, HttpInv, WindowInv, BufferOK
  <1>3. /\ t \in Seq(Bytes) /\ Len(t) = n - Len(put)
        /\ \A j \in 1 .. n - Len(put) : t[j] = stream[Len(put) + j]
    <2>1. \A i \in Len(put) + 1 .. n : stream[i] \in Bytes
      <3>1. \A i \in Len(put) + 1 .. n : i \in 1 .. Len(stream)
        BY <1>2
      <3> QED BY <1>2, <3>1, ElementOfSeq
    <2>2. PICK p \in Nat : p = Len(put)
      BY <1>2
    <2>3. /\ t \in Seq(Bytes)
          /\ Len(t) = IF p + 1 <= n THEN n - (p + 1) + 1 ELSE 0
          /\ \A j \in 1 .. n - (p + 1) + 1 : t[j] = stream[p + 1 + j - 1]
      BY <1>2, <2>1, <2>2, SubSeqProperties
    <2>4. /\ n - (p + 1) + 1 = n - p
          /\ (IF p + 1 <= n THEN n - (p + 1) + 1 ELSE 0) = n - p
      BY <1>2, <2>2
    <2>5. \A j \in 1 .. n - p : p + 1 + j - 1 = p + j
      OBVIOUS
    <2>6. Len(t) = n - p
      BY <2>3, <2>4
    <2> QED BY <2>2, <2>3, <2>4, <2>5, <2>6
  <1> HIDE DEF t
  <1>4. BufferNext /\ put' = put \o t /\ got' = got
    BY <1>1, <1>3 DEF BufferNext, ReadFd, t
  <1>5. WindowInv'
    BY <1>4, WindowStep DEF HttpInv
  <1>6. /\ Len(put') = n
        /\ \A i \in 1 .. n : put'[i] = stream[i]
    <2>1. /\ Len(put') = Len(put) + Len(t)
          /\ \A i \in 1 .. Len(put) + Len(t) :
               put'[i] = IF i <= Len(put) THEN put[i] ELSE t[i - Len(put)]
      BY <1>2, <1>3, <1>4, ConcatProperties
    <2>2. Len(put) + Len(t) = n
      BY <1>2, <1>3
    <2>3. ASSUME NEW i \in 1 .. n PROVE put'[i] = stream[i]
      <3>1. CASE i <= Len(put)
        <4>1. i \in 1 .. Len(put)
          BY <1>2, <3>1
        <4>2. put[i] = stream[i]
          BY <4>1, SentIs
        <4> QED BY <2>1, <2>2, <3>1, <4>2
      <3>2. CASE i > Len(put)
        <4>1. i - Len(put) \in 1 .. n - Len(put) /\ Len(put) + (i - Len(put)) = i
          BY <1>2, <3>2
        <4>2. t[i - Len(put)] = stream[i]
          BY <1>3, <4>1
        <4>3. ~(i <= Len(put))
          BY <1>2, <3>2
        <4> QED BY <2>1, <2>2, <4>2, <4>3
      <3> QED BY <1>2, <3>1, <3>2
    <2> QED BY <2>1, <2>2, <2>3
  <1>7. TypeOK'
    <2>1. Readable(buf') \in Nat
      BY <1>5 DEF WindowInv, BufferOK, Buffers, Readable
    <2>2. used' \in 0 .. Readable(buf')
      BY <1>0, <2>1
    <2> QED BY <1>0, <1>5, <2>2 DEF HttpInv, TypeOK, WindowInv, Readable
  <1>8. SentInv' /\ FirstAnswerRight'
    BY <1>0, <1>2, <1>6 DEF HttpInv, SentInv, FirstAnswerRight, Verdicts
  <1>9. answers' = <<>> => FirstInv(stream, Eaten)'
    <2>1. Eaten' = Eaten
      BY <1>0, <1>4 DEF Eaten
    <2> QED BY <1>0, <2>1 DEF HttpInv, FirstInv
  <1> QED BY <1>5, <1>7, <1>8, <1>9 DEF HttpInv

\* What Parse has eaten is retrieved, and an end of it is answered.
LEMMA HandleStep ==
  ASSUME HttpInv, Handle
  PROVE  HttpInv'
  <1>0. /\ at = "handle" /\ Retrieve(used) /\ used' = 0 /\ answers' = Answer
        /\ IF state = "DONE" THEN Reset ELSE UNCHANGED <<state, hasLength>>
        /\ at' = "read" /\ UNCHANGED stream
    BY DEF Handle
  <1>1. used \in 0 .. Readable(buf) /\ used \in Nat /\ Len(got) \in Nat
    BY SentIs DEF HttpInv, TypeOK
  <1>2. WindowInv' /\ put' = put
    BY <1>0, <1>1, RetrieveStep DEF HttpInv, Retrieve
  <1>3. Len(got') = Len(got) + used
    <2>1. Len(put') = Len(got') + Readable(buf') /\ Len(got') \in Nat /\ Len(put') \in Nat
      BY <1>2 DEF WindowInv, SlidingWindow, BufferOK, Readable
    <2>2. Readable(buf') = Readable(buf) - used
      <3>1. buf \in [mem : Seq(Bytes), r : Nat, w : Nat]
        BY DEF HttpInv, WindowInv, BufferOK, Buffers
      <3>2. buf' = [buf EXCEPT !.r = buf.r + used]
        BY <1>0 DEF Retrieve
      <3>3. buf'.r = buf.r + used /\ buf'.w = buf.w
        BY <3>1, <3>2
      <3> QED BY <1>1, <3>1, <3>3 DEF Readable
    <2> QED BY <1>1, <1>2, <2>1, <2>2, SentIs
  <1>4. Eaten' = Eaten
    BY <1>0, <1>1, <1>3 DEF Eaten
  <1>5. answers \in Seq({"200", "400"}) /\ answers' \in Seq({"200", "400"})
    <2>1. answers \in Seq({"200", "400"})
      BY DEF HttpInv, TypeOK
    <2> QED BY <1>0, <2>1 DEF Answer
  <1>6. TypeOK'
    <2>1. Readable(buf') \in Nat
      BY <1>2 DEF WindowInv, BufferOK, Buffers, Readable
    <2>2. used' \in 0 .. Readable(buf')
      BY <1>0, <2>1
    <2>3. state' \in States /\ hasLength' \in BOOLEAN
      BY <1>0 DEF HttpInv, TypeOK, Reset, States
    <2>4. at' \in {"read", "parse", "handle"} /\ stream' \in Streams
      BY <1>0 DEF HttpInv, TypeOK
    <2> QED BY <1>2, <1>5, <2>2, <2>3, <2>4 DEF TypeOK, WindowInv, Readable, States
  <1>7. SentInv'
    BY <1>0, <1>2 DEF HttpInv, SentInv
  <1>8. CASE answers # <<>>
    <2>1. answers'[1] = answers[1] /\ answers' # <<>>
      BY <1>0, <1>5, <1>8 DEF Answer
    <2> QED BY <1>0, <1>2, <1>6, <1>7, <1>8, <2>1 DEF HttpInv, FirstAnswerRight, Verdicts
  <1>9. CASE answers = <<>>
    <2>0. FirstInv(stream, Eaten) /\ stream \in Streams
      BY <1>9 DEF HttpInv, TypeOK
    <2>1. Verdicts[stream] = Verdict(stream) /\ Verdicts' = Verdicts
      BY <2>0 DEF Verdicts
    <2>2. CASE state = "ERROR"
      <3>1. answers' = <<"400">>
        BY <1>0, <1>9, <2>2 DEF Answer
      <3>2. Verdict(stream) = "400"
        BY <2>0, <2>2, VerdictIs DEF FirstInv
      <3>3. answers'[1] = "400" /\ answers' # <<>>
        BY <3>1
      <3> QED BY <1>0, <1>2, <1>6, <1>7, <2>1, <3>2, <3>3 DEF HttpInv, FirstAnswerRight
    <2>3. CASE state = "DONE"
      <3>1. answers' = <<"200">>
        BY <1>0, <1>9, <2>3 DEF Answer
      <3>2. Headed(stream) /\ RequestEnd(stream) <= Len(stream)
        <4>1. Headed(stream) /\ Eaten = RequestEnd(stream)
          BY <2>0, <2>3 DEF FirstInv
        <4>2. Eaten \in Nat /\ Eaten <= Len(put) /\ Len(put) <= Len(stream)
              /\ Len(put) \in Nat /\ Len(stream) \in Nat
          BY SentIs
        <4> QED BY <4>1, <4>2
      <3>3. Verdict(stream) = "200"
        BY <3>2, VerdictIs
      <3>4. answers'[1] = "200" /\ answers' # <<>>
        BY <3>1
      <3> QED BY <1>0, <1>2, <1>6, <1>7, <2>1, <3>3, <3>4 DEF HttpInv, FirstAnswerRight
    <2>4. CASE state \notin {"ERROR", "DONE"}
      <3>1. answers' = answers /\ UNCHANGED <<state, hasLength>>
        BY <1>0, <2>4 DEF Answer
      <3>2. FirstInv(stream, Eaten)'
        BY <1>0, <1>4, <2>0, <3>1 DEF FirstInv
      <3> QED BY <1>2, <1>6, <1>7, <1>9, <3>1, <3>2 DEF HttpInv, FirstAnswerRight
    <2> QED BY <2>2, <2>3, <2>4
  <1> QED BY <1>8, <1>9

(***************************************************************************)
(* All steps, and the theorems.                                            *)
(***************************************************************************)

LEMMA HttpStart == Init => HttpInv
  <1> SUFFICES ASSUME Init PROVE HttpInv
    OBVIOUS
  <1>1. WindowInv /\ put = <<>> /\ got = <<>>
    BY WindowStart DEF Init, BufferInit
  <1>2. stream \in Seq(Bytes)
    <2>1. stream \in Seq(Bytes \cap {"request", "header", "length", "junk", "byte", "CR", "LF"})
      BY StreamsAssumption DEF Init
    <2> QED BY <2>1
  <1>3. Readable(buf) \in Nat
    BY <1>1 DEF WindowInv, BufferOK, Buffers, Readable
  <1>4. used \in 0 .. Readable(buf) /\ answers \in Seq({"200", "400"})
    BY <1>3, EmptySeq DEF Init
  <1>5. TypeOK
    BY <1>1, <1>4 DEF Init, TypeOK, WindowInv
  <1>6. SentInv
    BY <1>1, <1>2, EmptySeq, LenProperties DEF Init, SentInv
  <1>7. FirstInv(stream, Eaten) /\ FirstAnswerRight
    BY <1>1, EmptySeq DEF Init, FirstInv, Eaten, FirstAnswerRight
  <1> QED BY <1>1, <1>5, <1>6, <1>7 DEF HttpInv

LEMMA HttpStep == HttpInv /\ [Next]_vars => HttpInv'
  <1> SUFFICES ASSUME HttpInv, [Next]_vars PROVE HttpInv'
    OBVIOUS
  <1>1. CASE Read
    BY <1>1, ReadStep
  <1>2. CASE RequestLine
    BY <1>2, RequestLineStep
  <1>3. CASE Header
    BY <1>3, HeaderStep
  <1>4. CASE Body
    BY <1>4, BodyStep
  <1>5. CASE Return
    BY <1>5, ReturnStep
  <1>6. CASE Handle
    BY <1>6, HandleStep
  <1>7. CASE Again \/ UNCHANGED vars
    <2>1. UNCHANGED <<stream, buf, put, got, used, state, hasLength, at, answers>>
      BY <1>7 DEF Again, vars
    <2> QED BY <2>1 DEF HttpInv, WindowInv, BufferOK, SlidingWindow, Readable, TypeOK,
                        SentInv, FirstInv, Eaten, FirstAnswerRight, Verdicts
  <1> QED BY <1>1, <1>2, <1>3, <1>4, <1>5, <1>6, <1>7 DEF Next, ParseStep

LEMMA HttpInvariance == Spec => []HttpInv
  <1> QED BY HttpStart, HttpStep, PTL DEF Spec

\* Every variable keeps its type for any stream; Parse never eats beyond
\* what has arrived, so that Retrieve's assert holds (buffer.cpp:25).
THEOREM Types == Spec => []TypeOK
  <1>1. HttpInv => TypeOK
    BY DEF HttpInv
  <1> QED BY <1>1, HttpInvariance, PTL

\* The read buffer loses no byte of the stream and doubles none, however
\* Parse and the network take turns.
THEOREM WindowKept == Spec => []SlidingWindow
  <1>1. HttpInv => SlidingWindow
    BY DEF HttpInv, WindowInv
  <1> QED BY <1>1, HttpInvariance, PTL

\* However the network cuts the stream between two reads of HandleRead, the
\* first answer is the one the whole stream deserves.
THEOREM FirstAnswer == Spec => []FirstAnswerRight
  <1>1. HttpInv => FirstAnswerRight
    BY DEF HttpInv
  <1> QED BY <1>1, HttpInvariance, PTL

\* Parse leaves in the buffer exactly what follows the first request: the
\* next one starts at its first byte.
THEOREM FirstBoundary == Spec => []BoundaryRight
  <1>1. HttpInv => BoundaryRight
    BY DEF HttpInv, FirstInv, Eaten, BoundaryRight
  <1> QED BY <1>1, HttpInvariance, PTL
=============================================================================
