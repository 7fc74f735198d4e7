--------------------------- MODULE MCHttpRequest ---------------------------
(* Instances of HttpRequest for TLC. *)
EXTENDS HttpRequest

End == <<"CR", "LF">>
Get == <<"request">> \o End \o <<"header">> \o End \o End

\* A request with a body: Content-Length is Length.
Post(body) == <<"request">> \o End \o <<"length">> \o End \o <<"header">> \o End \o End \o body
Text == <<"byte", "byte", "byte">>

\* A malformed line is the last the client sends, or is followed by others.
BadLast == {<<"junk">> \o End, <<"request">> \o End \o <<"junk">> \o End, End}
BadThenMore == {<<"junk">> \o End \o <<"header">> \o End \o End,
                <<"request">> \o End \o <<"junk">> \o End \o End}

\* A body is followed by a line end, as in the example of http_request.cpp,
\* by another request, or by nothing; or it holds a line end.
Terminated == {Post(Text \o End), Post(Text \o Get)}
Bare == {Post(Text)}
Multiline == {Post(<<"CR", "LF", "byte">>), Post(<<"CR", "LF", "byte">> \o Get)}

Everything == {Get, Get \o Get, Get \o <<"request", "CR">>} \cup BadLast \cup Terminated
                \cup BadThenMore \cup Bare \cup Multiline
=============================================================================
