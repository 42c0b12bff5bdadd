---------------------------- MODULE HttpResponse ----------------------------
(***************************************************************************)
(* HttpResponse as the parts of the program fill it, and the answer        *)
(* Connection::finishCgi builds from what a script printed.  Of the        *)
(* headers, Content-Length, Location and those a script prints are kept.   *)
(***************************************************************************)
EXTENDS Integers, Sequences, SequencesExt

\* HttpResponse(): no Content-Length yet.
NewResponse == [status |-> 200, headers |-> [key \in {} |-> 0], body |-> <<>>]

setStatus(r, status) == [r EXCEPT !.status = status]
\* headers[key] = value
Put(headers, key, value) ==
    [k \in DOMAIN headers \cup {key} |-> IF k = key THEN value ELSE headers[k]]
setHeader(r, key, value) == [r EXCEPT !.headers = Put(@, key, value)]
setBody(r, body) ==
    [status |-> r.status, headers |-> Put(r.headers, "Content-Length", Len(body)),
     body |-> body]

Answer(status, body) == setBody(setStatus(NewResponse, status), body)

\* buildTextResponse, queueError and the default of buildErrorResponse.
Plain(status) == Answer(status, <<"text">>)
Redirect(target) == setBody(setHeader(setStatus(NewResponse, 301), "Location", target), <<>>)

-----------------------------------------------------------------------------
(* What a script printed: nothing; a body without an empty line before it; *)
(* or header lines, an empty line and a body.                              *)

WithHeader(r, line) ==
    IF line.key = "Status" THEN setStatus(r, line.value)
    ELSE setHeader(r, line.key, line.value)
Headed(r, lines) == FoldLeft(LAMBDA built, line : WithHeader(built, line), r, lines)

\* mutant: the script's headers are copied last
HeadersLast(output) ==
    CASE output.kind = "nothing" -> Plain(502)
      [] output.kind = "body" -> Answer(200, output.body)
      [] output.kind = "headed" -> Headed(Answer(200, output.body), output.lines)
FromScript(output) ==
    CASE output.kind = "nothing" -> Plain(502)
      [] output.kind = "body" -> Answer(200, output.body)
      [] output.kind = "headed" -> setBody(Headed(NewResponse, output.lines), output.body)

=============================================================================
