------------------------------ MODULE Framing ------------------------------
(***************************************************************************)
(* How Connection finds the end of a request in a TCP stream and takes the *)
(* chunk framing off its body: toRead, isRequestComplete, hasChunkedEnd,   *)
(* unchunkBody, isBodyTooLarge, the head of processRequest, and the split  *)
(* of header and body in HttpRequest::parse.                               *)
(*                                                                         *)
(* A stream is a sequence of tokens: CRLF is "\r\n", Headers stands for the   *)
(* request line and headers up to their last line end, a number for a      *)
(* hexadecimal size (or for that text in the data) and Octet for any other *)
(* byte of data.  What the headers announce is a field of the request,     *)
(* which the code sees once the empty line has arrived.                    *)
(***************************************************************************)
EXTENDS Integers, Sequences, SequencesExt

CONSTANTS
    Requests,   \* [chunked, length, tokens, body, starts, wellFormed]: the requests
                \* clients may send, and where in the body as sent size lines begin
    ReadLimit,  \* readLimit: tokens one recv() returns at most
    Limit,      \* client_max_body_size of the route
    Size        \* what the texts that are hexadecimal sizes come to

CRLF == "CRLF"
Headers == "headers"
Octet == "x"
NoLength == -1      \* no Content-Length header

Token == {CRLF, Headers, Octet} \cup DOMAIN Size

VARIABLES
    request,    \* what the client sends
    received,   \* _requestReceived
    state,      \* _state, or "413" and "processed" once a response is queued
    body        \* HttpRequest::_body

vars == <<request, received, state, body>>

-----------------------------------------------------------------------------
(* Searching.                                                              *)

\* s.find(mark, from) # npos
Matches(s, mark, at) ==
    /\ at + Len(mark) - 1 <= Len(s)
    /\ \A i \in 1 .. Len(mark) : s[at + i - 1] = mark[i]
Found(s, mark, from) == \E at \in from .. Len(s) : Matches(s, mark, at)
First(s, mark, from) ==
    CHOOSE at \in from .. Len(s) :
      /\ Matches(s, mark, at)
      /\ \A j \in from .. (at - 1) : ~Matches(s, mark, j)

EmptyLine == <<CRLF, CRLF>>
Mark == <<CRLF, "0", CRLF, CRLF>>

Header == <<Headers, CRLF, CRLF>>
Terminator == <<"0", CRLF, CRLF>>

\* A client sends its data in chunks: a chunk is its size, a line end, the data
\* and a line end, so that three tokens that are not data go with each.
DataBefore(starts, i) == starts[i] - 1 - 3 * (i - 1)
ChunkSent(raw, at, size, data, from) ==
    /\ size > 0 /\ raw[at] \in DOMAIN Size /\ Size[raw[at]] = size
    /\ raw[at + 1] = CRLF /\ raw[at + 2 + size] = CRLF
    /\ \A j \in 1 .. size : raw[at + 1 + j] = data[from + j]
InChunks(raw, starts, data) ==
    LET last == Len(starts)
    IN  /\ starts \in Seq(1 .. Len(raw)) /\ last > 0 /\ starts[1] = 1
        /\ \A i \in 1 .. (last - 1) :
             ChunkSent(raw, starts[i], starts[i + 1] - starts[i] - 3,
                       data, DataBefore(starts, i))
        /\ DataBefore(starts, last) = Len(data)
        /\ starts[last] + 2 = Len(raw) /\ Matches(raw, Terminator, starts[last])

\* In a well-formed request the headers come first and announce how long the body
\* is, or it is sent in chunks; then the end mark is nowhere but at the end.
WellFormed(r) ==
    /\ r.body \in Seq(Token) /\ Matches(r.tokens, Header, 1)
    /\ IF r.chunked
       THEN /\ r.length = NoLength
            /\ InChunks(SubSeq(r.tokens, Len(Header) + 1, Len(r.tokens)), r.starts, r.body)
            /\ ~Found(SubSeq(r.tokens, 1, Len(r.tokens) - 1), Mark, 1)
       ELSE r.length = Len(r.body) /\ r.tokens = Header \o r.body

ASSUME FramingAssumption ==
    /\ ReadLimit \in Nat \ {0} /\ Limit \in Nat
    /\ DOMAIN Size \cap {CRLF, Headers} = {} /\ \A text \in DOMAIN Size : Size[text] \in Nat
    /\ "0" \in DOMAIN Size /\ Size["0"] = 0
    /\ \A r \in Requests :
         /\ r.tokens \in Seq(Token)
         /\ r.wellFormed => WellFormed(r)

HeadersEnd(s) == Found(s, EmptyLine, 1)
BodyOf(s) == SubSeq(s, First(s, EmptyLine, 1) + 2, Len(s))

-----------------------------------------------------------------------------
(* Connection: is the request complete?                                    *)

isChunked(s) == HeadersEnd(s) /\ request.chunked

\* The search starts readLimit plus the mark's length before the end.
\* mutant: the window forgets that the mark may straddle two reads
NarrowWindowStart(s) == IF Len(s) > ReadLimit THEN Len(s) - ReadLimit + 1 ELSE 1
WindowStart(s) ==
    IF Len(s) > ReadLimit + Len(Mark) THEN Len(s) - ReadLimit - Len(Mark) + 1
    ELSE 1
hasChunkedEnd(s) == Found(s, Mark, WindowStart(s))

\* mutant: one byte more than announced is waited for
MoreThanAnnouncedReceived(s) == Len(BodyOf(s)) > request.length
AnnouncedReceived(s) == Len(BodyOf(s)) >= request.length

isRequestComplete(s) ==
    /\ HeadersEnd(s)
    /\ IF isChunked(s) THEN hasChunkedEnd(s)
       ELSE request.length = NoLength \/ AnnouncedReceived(s)

\* isBodyTooLarge() on what was received, and on the rewritten header.
isBodyTooLarge(s) == HeadersEnd(s) /\ request.length > Limit
\* mutant: the decoded body is compared with nothing
AnyDecodedFits(decoded) == FALSE
isDecodedTooLarge(decoded) == Len(decoded) > Limit

-----------------------------------------------------------------------------
(* Connection::unchunkBody.                                                *)

SizeLine(raw, pos) == SubSeq(raw, pos, First(raw, <<CRLF>>, pos) - 1)
HasSizeLine(raw, pos) == pos <= Len(raw) /\ Found(raw, <<CRLF>>, pos)
\* iss >> std::hex >> chunkSize stops at the first thing that is no digit
HasSize(line) == line # <<>> /\ line[1] \in DOMAIN Size
\* mutant: the line end that closes a chunk is not skipped
NextChunkTooEarly(start, size) == start + size
NextChunk(start, size) == start + size + 1

\* The chunk at a position: its size, its first token of data, and whether the
\* loop goes on to take it.
SizeAt(raw, pos) == Size[SizeLine(raw, pos)[1]]
DataStart(raw, pos) == First(raw, <<CRLF>>, pos) + 1
HasChunk(raw, pos) ==
    /\ HasSizeLine(raw, pos) /\ HasSize(SizeLine(raw, pos))
    /\ SizeAt(raw, pos) # 0
    /\ DataStart(raw, pos) + SizeAt(raw, pos) - 1 <= Len(raw)
ChunkData(raw, pos) ==
    SubSeq(raw, DataStart(raw, pos), DataStart(raw, pos) + SizeAt(raw, pos) - 1)
NextAfter(raw, pos) == NextChunk(DataStart(raw, pos), SizeAt(raw, pos))

\* decoded[pos]: what the loop appends from position pos of raw on.  Of the headers
\* unchunkBody writes anew, only that they announce this length matters here (see
\* isDecodedTooLarge).
Decode(raw) ==
    LET decoded[pos \in 1 .. (Len(raw) + 2)] ==
          IF HasChunk(raw, pos) THEN ChunkData(raw, pos) \o decoded[NextAfter(raw, pos)]
          ELSE <<>>
    IN  decoded[1]

-----------------------------------------------------------------------------
(* The connection.                                                         *)

Init ==
    /\ request \in Requests
    /\ received = <<>>
    /\ state = "READING"
    /\ body = <<>>

\* mutant: the new bytes are put in front
Prepended(piece) == piece \o received
Appended(piece) == received \o piece

Unread == SubSeq(request.tokens, Len(received) + 1, Len(request.tokens))

Refuse ==
    /\ state' = "413"
    /\ UNCHANGED body

\* processRequest: a chunked body is decoded and measured, any other is all that
\* follows the headers.
Process(s) ==
    IF isChunked(s)
    THEN LET decoded == Decode(BodyOf(s)) IN
           IF isDecodedTooLarge(decoded) THEN Refuse
           ELSE state' = "processed" /\ body' = decoded
    ELSE state' = "processed" /\ body' = BodyOf(s)

\* toRead: recv() returned the next n tokens.
toRead(n) ==
    /\ state = "READING"
    /\ received' = Appended(SubSeq(Unread, 1, n))
    /\ IF isBodyTooLarge(received') THEN Refuse
       ELSE IF isRequestComplete(received') THEN Process(received')
       ELSE UNCHANGED <<state, body>>
    /\ UNCHANGED request

\* recv() returned 0: the client closed, whether or not it had sent everything.
toReadEnds ==
    /\ state = "READING"
    /\ state' = "DONE"
    /\ UNCHANGED <<request, received, body>>

\* The request was answered, or the client is gone.
Answered == state # "READING" /\ UNCHANGED vars

Recv == \E n \in 1 .. ReadLimit : n <= Len(Unread) /\ toRead(n)

Next == Recv \/ toReadEnds \/ Answered

Spec == Init /\ [][Next]_vars

\* What the client has sent arrives, and poll() reports it.
FairSpec == Spec /\ WF_vars(Recv)

-----------------------------------------------------------------------------
(* Properties.                                                             *)

TypeOK ==
    /\ IsPrefix(received, request.tokens)
    /\ state \in {"READING", "413", "processed", "DONE"}
    /\ body \in Seq(Token)

\* Searching only the tail of the buffer finds the end mark whenever the whole
\* buffer has it and the connection is still reading (hasChunkedEnd).
WindowSuffices ==
    isChunked(received) => (hasChunkedEnd(received) <=> Found(received, Mark, 1))

\* What the Router and the script get as the body of a well-formed request is the
\* body its client meant, however the stream was cut into recv() calls.
BodyIsIntended ==
    state = "processed" /\ request.wellFormed => body = request.body

\* A well-formed request is refused exactly when its body is over the limit, by
\* the announced length or, when chunked, by the decoded one.
LimitEnforced ==
    request.wellFormed =>
      /\ state = "413" => Len(request.body) > Limit
      /\ state = "processed" => Len(request.body) <= Limit

\* A client that sends a well-formed request is not left waiting for the server
\* to see its end.
EndIsSeen == request.wellFormed ~> state # "READING"

\* The chunked end is seen when the terminating "0\r\n\r\n" chunk has arrived: the
\* client has then sent its last token.
EndMeansTerminator ==
    state = "processed" /\ request.chunked => received = request.tokens

\* Nothing larger than client_max_body_size is accepted as a body.
NothingOverLimit == state = "processed" => Len(body) <= Limit

=============================================================================
