----------------------------- MODULE FileServer -----------------------------
(***************************************************************************)
(* How a file leaves the server: Server::HandleHttpRequest picks status    *)
(* and bytes for a path and an optional Range header,                      *)
(* HttpResponse::AppendToBuffer puts head and body into the write buffer   *)
(* (module Buffer), HttpConn::HandleWrite sends it in pieces, and a client *)
(* that lost its connection resumes where it stopped (readme.md:20).       *)
(*                                                                         *)
(* A byte of the file is its position in it; the head of a response and    *)
(* the text of an error page are one token each, and the variable head     *)
(* holds what the client reads from the first.  A connection carries one   *)
(* request: HandleWrite closes it behind the response.                     *)
(***************************************************************************)
EXTENDS Buffer

CONSTANTS
  Sizes,    \* the sizes the file may have
  Wrap,     \* 2^64 of size_t, scaled down
  Numbers,  \* the numbers a Range header may name, some of them too large
  Absent,   \* a number that is left out, or is not one
  NoRange,  \* no Range header, or one without "bytes=" or "-"
  HeadToken, \* the token for the head of a response
  TextToken, \* the token for the text of an error page
  Chunk,    \* how many bytes the client asks for at once, at most
  MaxCuts,  \* connections that break (bound)
  MaxProbes \* requests other than the next one of the download (bound)

ASSUME FileAssumption ==
  /\ Sizes \subseteq Nat /\ Numbers \subseteq Nat /\ Wrap \in Nat
  /\ \A n \in Sizes : 2 * n + Chunk < Wrap /\ 0 .. n - 1 \subseteq Bytes
  /\ Chunk \in Nat \ {0} /\ MaxCuts \in Nat /\ MaxProbes \in Nat
  /\ Absent \notin Nat /\ {HeadToken, TextToken} \subseteq Bytes

\* What a path leads to once it is resolved.
Paths == {"file", "directory", "outside", "empty", "unreadable"}

\* The check against the root.  A path above the root is shorter than it, and
\* mismatch reads past its end: what it finds there differs, or passes for the
\* root's own name, or ends the process, which to a client is a Cut.
Resolved(p) == IF p = "above" THEN {"outside", "directory"} ELSE {p}

\* "Range: bytes=first-last"
Ranges == [first : Nat \cup {Absent}, last : Nat \cup {Absent}]

VARIABLES
  size,      \* the size of the file
  pc,        \* the connection: "none", "parsed", "append", "write", "closed"
  path,      \* what the path of the request leads to
  range,     \* its Range header, or NoRange
  head,      \* the response: status, Content-Range and Content-Length
  pieces,    \* what AppendToBuffer has still to append
  saved,     \* what the client kept from its earlier connections
  finished,  \* the client knows that it has the whole file
  cuts, probes

vars == <<bufferVars, size, pc, path, range, head, pieces, saved, finished, cuts, probes>>

NoHead == [status |-> 0, start |-> 0, end |-> 0, total |-> 0, length |-> 0]

Init ==
  /\ BufferInit
  /\ size \in Sizes
  /\ pc = "none" /\ path = "file" /\ range = NoRange
  /\ head = NoHead /\ pieces = <<>>
  /\ saved = <<>> /\ finished = FALSE
  /\ cuts = 0 /\ probes = 0

(***************************************************************************)
(* Server::HandleHttpRequest                                               *)
(***************************************************************************)

\* from_chars leaves its result alone when there is no number or it is too large.
Parsed(x, default) == IF x = Absent \/ x >= Wrap THEN default ELSE x

LastByte == (size - 1) % Wrap

Start == IF range = NoRange THEN 0 ELSE Parsed(range.first, 0)

\* Mutant: the clipped end is one byte too far.
Clipped_OffByOne(e) == IF e > size THEN LastByte ELSE e

Clipped(e) == IF e >= size THEN LastByte ELSE e

End == IF range = NoRange THEN LastByte ELSE Clipped(Parsed(range.last, LastByte))

Unsatisfiable == range # NoRange /\ Start >= size

\* Mutant: the last byte of a range does not count.
ReadLen_Exclusive == (End - Start) % Wrap

ReadLen == (End - Start + 1) % Wrap

\* A string of that length throws.
TooLong == ReadLen >= Wrap \div 2

\* Mutant: seekg forgotten.
FileBytes_NoSeek == [i \in 1 .. ReadLen |-> i - 1]

\* seekg(start), read(read_len)
FileBytes == [i \in 1 .. ReadLen |-> Start + i - 1]

\* Mutant: Content-Range names the end of the part for the size of the file.
Total_OfPart == End + 1

\* The size Content-Range names.
Total == size

ErrorStatus ==
  CASE path = "outside"   -> 403
    [] path = "directory" -> 404
    [] path = "empty"     -> 500
    [] path \in {"file", "unreadable"} /\ Unsatisfiable -> 416
    [] path = "unreadable" /\ ~Unsatisfiable -> 500
    [] path = "file" /\ ~Unsatisfiable /\ TooLong -> 500
    [] OTHER -> 0

\* The response is set up: an error page, the file, or the part asked for.
HandleHttpRequest ==
  /\ pc = "parsed" /\ pc' = "append"
  /\ \/ /\ ErrorStatus # 0
        /\ head' = [NoHead EXCEPT !.status = ErrorStatus, !.length = 1,
                                  !.total = IF ErrorStatus = 416 THEN Total ELSE 0]
        /\ pieces' = <<<<HeadToken>>, <<TextToken>>>>
     \/ /\ ErrorStatus = 0
        /\ head' = [status |-> IF range = NoRange THEN 200 ELSE 206,
                    start |-> Start, end |-> End, total |-> Total, length |-> ReadLen]
        /\ pieces' = <<<<HeadToken>>, FileBytes>>
  /\ UNCHANGED <<bufferVars, size, path, range, saved, finished, cuts, probes>>

\* HttpResponse::AppendToBuffer, one Append at a time.
AppendToBuffer ==
  /\ pc = "append" /\ pieces # <<>>
  /\ BufferAppend(pieces[1])
  /\ pieces' = Tail(pieces)
  /\ pc' = IF Len(pieces) = 1 THEN "write" ELSE "append"
  /\ UNCHANGED <<size, path, range, head, saved, finished, cuts, probes>>

\* Mutant: the connection is closed behind the first write.
AfterWrite_AlwaysCloses(n) == "closed"

AfterWrite(n) == IF n = Readable(buf) THEN "closed" ELSE "write"

\* HandleWrite: the kernel takes n bytes; behind the last the connection is closed.
HandleWrite ==
  /\ pc = "write"
  /\ \E n \in 1 .. Readable(buf) : Retrieve(n) /\ pc' = AfterWrite(n)
  /\ UNCHANGED <<size, path, range, head, pieces, saved, finished, cuts, probes>>

(***************************************************************************)
(* The client                                                              *)
(***************************************************************************)

\* What the client has once it has read all that was sent: a whole file is
\* kept from its start, a part if it continues what was saved.
Have ==
  IF got = <<>> THEN saved
  ELSE IF head.status = 200 THEN Tail(got)
  ELSE IF head.status = 206 /\ head.start = Len(saved) THEN saved \o Tail(got)
  ELSE saved

\* The response came whole and was, or reached, the end of the file.
Whole ==
  /\ got # <<>> /\ Len(got) = 1 + head.length
  /\ \/ head.status = 200
     \/ head.status = 206 /\ head.start = Len(saved) /\ head.end + 1 = head.total
     \/ head.status = 416 /\ head.total = Len(saved)

\* A new connection with one request: accept makes a new HttpConn.
Request(p, r) ==
  /\ pc = "none" /\ pc' = "parsed"
  /\ path' \in Resolved(p) /\ range' = r
  /\ UNCHANGED <<bufferVars, size, head, pieces, saved, finished, cuts>>

\* The next request of the download, up to Chunk bytes or all that is left.
NextRanges ==
  [first : {Len(saved)}, last : {Absent} \cup {Len(saved) + i : i \in 0 .. Chunk - 1}]
    \cup IF saved = <<>> THEN {NoRange} ELSE {}

Resume ==
  /\ ~finished
  /\ \E r \in NextRanges : Request("file", r)
  /\ UNCHANGED probes

\* Any other request; the client may well begin anew.
Probe ==
  /\ ~finished
  /\ probes < MaxProbes /\ probes' = probes + 1
  /\ \E p \in Paths \cup {"above"},
        r \in [first : Numbers \cup {Absent}, last : Numbers \cup {Absent}]
               \cup {NoRange} : Request(p, r)

\* The connection is gone, and with it its HttpConn.
Gone ==
  /\ pc' = "none" /\ saved' = Have
  /\ buf' = [mem |-> [i \in 1 .. InitSize |-> Zero], r |-> 0, w |-> 0]
  /\ put' = <<>> /\ got' = <<>> /\ head' = NoHead /\ pieces' = <<>>
  /\ UNCHANGED <<size, path, range, probes>>

\* The client reads to the end of the stream.
EndOfStream ==
  /\ pc = "closed"
  /\ Gone /\ finished' = (finished \/ Whole)
  /\ UNCHANGED cuts

\* The connection breaks; what was not sent is lost.
Cut ==
  /\ pc \in {"parsed", "append", "write"} /\ cuts < MaxCuts
  /\ cuts' = cuts + 1
  /\ Gone /\ UNCHANGED finished

Next ==
  HandleHttpRequest \/ AppendToBuffer \/ HandleWrite \/ Resume \/ Probe \/ EndOfStream \/ Cut

Spec == Init /\ [][Next]_vars

\* The workers run on, the socket drains, and the client does not give up.
Fairness ==
  /\ WF_vars(HandleHttpRequest \/ AppendToBuffer \/ HandleWrite)
  /\ WF_vars(Resume) /\ WF_vars(EndOfStream)

FairSpec == Spec /\ Fairness

(***************************************************************************)
(* Properties.                                                             *)
(***************************************************************************)

\* Every variable keeps its type, and no byte is read that the file has not.
TypeOK ==
  /\ BufferOK
  /\ size \in Sizes
  /\ pc \in {"none", "parsed", "append", "write", "closed"}
  /\ path \in Paths /\ range \in Ranges \cup {NoRange}
  /\ head \in [status : {0, 200, 206, 403, 404, 416, 500}, start : 0 .. Wrap - 1,
               end : 0 .. Wrap - 1, total : {0} \cup Sizes, length : 0 .. Wrap - 1]
  /\ \A i \in 1 .. Len(pieces) :
       \A j \in 1 .. Len(pieces[i]) : pieces[i][j] \in {HeadToken, TextToken} \cup 0 .. size - 1
  /\ saved \in Seq(0 .. size - 1)
  /\ finished \in BOOLEAN

\* A range the standard calls valid and size_t can hold: first-, or
\* first-last with first not behind last.
Valid(r) ==
  /\ r # NoRange /\ r.first # Absent /\ r.first < Wrap
  /\ r.last # Absent => r.first <= r.last

\* The positions of the file that a valid range names.
Named(r) == {i \in 0 .. size - 1 : r.first <= i /\ (r.last # Absent => i <= r.last)}

Body == SubSeq(put, 2, Len(put))

\* A valid range of a readable file is answered with exactly the bytes it
\* names, in order, at the place Content-Range says, or with 416 if there
\* are none (HandleHttpRequest, AppendToBuffer).
RangeExact ==
  path = "file" /\ Valid(range) /\ pc \in {"write", "closed"} =>
    IF Named(range) = {} THEN head.status = 416
    ELSE /\ head.status = 206
         /\ {Body[i] : i \in 1 .. Len(Body)} = Named(range)
         /\ \A i \in 1 .. Len(Body) : Body[i] = head.start + i - 1

\* Whatever the Range header holds, a suffix, a first behind its last or
\* numbers beyond size_t: the body has the length that Content-Length and
\* Content-Range announce, and is never longer than the file.
LengthHonest ==
  pc \in {"write", "closed"} =>
    /\ Len(Body) = head.length
    /\ head.status \in {200, 206} => head.length <= size
    /\ head.status = 206 => head.length = head.end - head.start + 1

\* Resuming (readme.md:20): over any number of broken connections the client
\* holds a prefix of the file, no byte twice and none left out, and one that
\* takes Content-Range at its word stops with the whole file.
HaveIsPrefix ==
  /\ \A i \in 1 .. Len(Have) : Have[i] = i - 1
  /\ finished => Len(saved) = size

\* And it gets there: after the last break the download comes to its end.
Downloaded == <>finished
=============================================================================
