---------------------------- MODULE HttpRequest ----------------------------
(***************************************************************************)
(* The incremental parser of http_request.cpp as HttpConn::HandleRead      *)
(* drives it: every read goes into the read buffer (module Buffer) and     *)
(* calls Parse once on all that is readable; Parse eats whole lines, and   *)
(* what it has eaten is retrieved when it returns.  One action per         *)
(* iteration of Parse's loop.                                              *)
(*                                                                         *)
(* The bytes are abstracted to tokens: the two bytes of a line end, "CR"   *)
(* and "LF", the text of a request line ("request"), of a header line      *)
(* ("header", or "length" for Content-Length), of a line with neither form *)
(* ("junk"), and single bytes of a body ("byte").  A token counts as one   *)
(* byte; the network may cut the stream between any two of them.           *)
(***************************************************************************)
EXTENDS Buffer, FiniteSets, FiniteSetsExt

CONSTANTS
  Streams,  \* the token sequences a client may send on its connection
  Length    \* the value of every Content-Length header

ASSUME StreamsAssumption ==
  /\ \A s \in Streams :
       s \in Seq(Bytes \cap {"request", "header", "length", "junk", "byte", "CR", "LF"})
  /\ Length \in Nat

VARIABLES
  stream,    \* what the client sends
  used,      \* used_bytes of the current call of Parse
  state,     \* state_
  hasLength, \* headers_ holds Content-Length
  at,        \* "read", in Parse's loop ("parse"), after it ("handle")
  answers    \* the responses, in order

vars == <<stream, buf, put, got, used, state, hasLength, at, answers>>

Init ==
  /\ stream \in Streams
  /\ BufferInit /\ used = 0
  /\ state = "REQUEST_LINE" /\ hasLength = FALSE
  /\ at = "read" /\ answers = <<>>

\* Positions i of s where "\r\n" starts.
LineEnds(s) == {i \in 1 .. Len(s) - 1 : s[i] = "CR" /\ s[i + 1] = "LF"}

\* What is left of the data Parse was given.
Data == SubSeq(Contents(buf), used + 1, Readable(buf))

\* The line in front of the first line end.
Line == SubSeq(Data, 1, Min(LineEnds(Data)) - 1)

\* The loop goes on with a line in data.
InLoop == at = "parse" /\ Data # <<>> /\ state # "DONE" /\ LineEnds(Data) # {}

\* Mutant: remove_prefix forgotten.
Eat_Forgotten == used' = used

\* A line and its end are eaten.
Eat == used' = used + Len(Line) + 2

(***************************************************************************)
(* HandleRead                                                              *)
(***************************************************************************)

\* ReadFd takes what has arrived, at least one byte.
Read ==
  /\ at = "read"
  /\ \E n \in Len(put) + 1 .. Len(stream) : ReadFd(SubSeq(stream, Len(put) + 1, n))
  /\ used' = 0 /\ at' = "parse"
  /\ UNCHANGED <<stream, state, hasLength, answers>>

\* reset() after a complete request.
Reset == state' = "REQUEST_LINE" /\ hasLength' = FALSE

\* The response HandleRead appends, if Parse came to an end.
Answer ==
  CASE state = "ERROR" -> Append(answers, "400")
    [] state = "DONE"  -> Append(answers, "200")
    [] OTHER           -> answers

\* Retrieve(consumed); an error is answered but never reset.
Handle ==
  /\ at = "handle"
  /\ Retrieve(used) /\ used' = 0
  /\ answers' = Answer
  /\ IF state = "DONE" THEN Reset ELSE UNCHANGED <<state, hasLength>>
  /\ at' = "read"
  /\ UNCHANGED stream

(***************************************************************************)
(* Parse                                                                   *)
(***************************************************************************)

\* The loop ends, or the data holds no line end: nothing more to eat.
Return ==
  /\ at = "parse" /\ ~InLoop
  /\ at' = "handle"
  /\ UNCHANGED <<stream, bufferVars, used, state, hasLength, answers>>

\* Two spaces make a request line.
TwoSpaces(l) == l = <<"request">>

RequestLine ==
  /\ InLoop /\ state = "REQUEST_LINE"
  /\ state' = IF TwoSpaces(Line) THEN "HEADER" ELSE "ERROR"
  /\ Eat
  /\ UNCHANGED <<stream, bufferVars, hasLength, at, answers>>

\* Mutant: every request ends with its headers.
AfterHeaders_NoBody == "DONE"

\* What follows the empty line.
AfterHeaders == IF hasLength THEN "BODY" ELSE "DONE"

\* Mutant: a line without a colon passes.
HeaderLine_Any(l) == l # <<>>

HeaderLine(l) == l \in {<<"header">>, <<"length">>}

\* A line with a colon is a header, the empty one ends them.
Header ==
  /\ InLoop /\ state = "HEADER"
  /\ \/ Line = <<>> /\ state' = AfterHeaders /\ UNCHANGED hasLength
     \/ /\ HeaderLine(Line)
        /\ hasLength' = (hasLength \/ Line = <<"length">>) /\ UNCHANGED state
     \/ /\ Line # <<>> /\ ~HeaderLine(Line)
        /\ state' = "ERROR" /\ UNCHANGED hasLength
  /\ Eat
  /\ UNCHANGED <<stream, bufferVars, at, answers>>

\* Mutant: whatever has arrived is the body.
BodyArrived_Always == TRUE

BodyArrived == Len(Data) >= Length

\* The body is looked at only while the data holds a line end.
Body ==
  /\ InLoop /\ state = "BODY" /\ BodyArrived
  /\ used' = used + Length
  /\ state' = "DONE"
  /\ UNCHANGED <<stream, bufferVars, hasLength, at, answers>>

\* Too little of the body, or the state ERROR: the switch is left, the loop
\* is not, and nothing was eaten.
Again ==
  /\ InLoop
  /\ \/ state = "BODY" /\ ~BodyArrived
     \/ state = "ERROR"
  /\ UNCHANGED vars

ParseStep == RequestLine \/ Header \/ Body \/ Again \/ Return

Next == Read \/ ParseStep \/ Handle

Spec == Init /\ [][Next]_vars

\* The worker runs on.  Nothing makes it read again: after an incomplete
\* request HandleRead leaves a one-shot channel as it is (http_conn.cpp:53).
Fairness == WF_vars(ParseStep) /\ WF_vars(Handle)

FairSpec == Spec /\ Fairness

(***************************************************************************)
(* The reference: what the whole stream says, read at once.                *)
(***************************************************************************)

\* The line that ends at e starts after the line end before it.
LineBefore(s, e) ==
  SubSeq(s, Max({0} \cup {d + 1 : d \in {d \in LineEnds(s) : d < e}}) + 1, e - 1)

FirstEnd(s) == Min(LineEnds(s))

\* The empty lines after the first line: the first of them ends the headers.
EmptyEnds(s) == {e \in LineEnds(s) : e > FirstEnd(s) /\ LineBefore(s, e) = <<>>}

\* The lines that are not what their place asks for, before the headers end.
BadEnds(s) ==
  {e \in LineEnds(s) :
     /\ \A d \in EmptyEnds(s) : e < d
     /\ IF e = FirstEnd(s) THEN LineBefore(s, e) # <<"request">>
        ELSE LineBefore(s, e) \notin {<<"header">>, <<"length">>}}

HeadEnd(s) == Min(EmptyEnds(s)) + 1

HasBody(s) == \E e \in LineEnds(s) : e < HeadEnd(s) /\ LineBefore(s, e) = <<"length">>

\* Where the first request of s ends, once its headers are complete.
RequestEnd(s) == HeadEnd(s) + (IF HasBody(s) THEN Length ELSE 0)

Verdict(s) ==
  CASE BadEnds(s) # {} -> "400"
    [] BadEnds(s) = {} /\ EmptyEnds(s) # {} /\ RequestEnd(s) <= Len(s) -> "200"
    [] OTHER -> "none"

Verdicts == [s \in Streams |-> Verdict(s)]

\* The streams Parse can digest: no line follows a malformed one, no line end
\* is in a body and one follows it.
Digestible(s) ==
  /\ \A e \in BadEnds(s) : e + 1 = Len(s)
  /\ Verdict(s) = "200" /\ HasBody(s) =>
       \E e \in LineEnds(s) : /\ e > RequestEnd(s)
                              /\ \A d \in LineEnds(s) : d < HeadEnd(s) \/ d >= e

DigestibleStreams == {s \in Streams : Digestible(s)}

(***************************************************************************)
(* Properties.                                                             *)
(***************************************************************************)

\* Every variable keeps its type; no byte is used that was not received.
TypeOK ==
  /\ stream \in Streams
  /\ BufferOK
  /\ used \in 0 .. Readable(buf)
  /\ state \in {"REQUEST_LINE", "HEADER", "BODY", "DONE", "ERROR"}
  /\ hasLength \in BOOLEAN
  /\ at \in {"read", "parse", "handle"}
  /\ answers \in Seq({"200", "400"})

\* However the network cuts the stream, the first answer is the one the
\* whole stream deserves (HandleRead, http_conn.cpp:23-52).
FirstAnswerRight == answers # <<>> => answers[1] = Verdicts[stream]

\* The first request is eaten to its last byte and not beyond: what Parse
\* leaves in the read buffer is the start of the next one.
BoundaryRight ==
  at = "handle" /\ state = "DONE" /\ answers = <<>> => Len(got) + used = RequestEnd(stream)

WholeStream == Len(put) = Len(stream)

\* On a digestible stream Parse returns to the worker after every read
\* (http_request.cpp:32); once the whole stream has been read, in however many
\* pieces, it is answered if it starts with a whole request or with a malformed
\* one: no byte waits in the buffer for a read that does not come.
DigestedAnswered ==
  stream \in DigestibleStreams =>
    /\ (at = "parse") ~> (at = "handle")
    /\ (WholeStream /\ Verdicts[stream] # "none") ~> (answers # <<>>)

\* "400 Bad Request" (http_conn.cpp:28): a client whose malformed request has
\* been read is told so.
MalformedAnswered == (WholeStream /\ BadEnds(stream) # {}) ~> (answers # <<>>)
=============================================================================
