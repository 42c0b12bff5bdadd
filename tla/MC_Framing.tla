----------------------------- MODULE MC_Framing -----------------------------
(***************************************************************************)
(* The requests TLC tries: every body of up to four tokens, cut into      *)
(* chunks in every way or announced by Content-Length.                     *)
(***************************************************************************)
EXTENDS Framing

Datum == {Octet, "0", CRLF}
Bodies == BoundedSeq(Datum, 4)
SizeText == <<"1", "2", "3">>
Sizes == [t \in {"0"} \cup Range(SizeText) |->
            IF t = "0" THEN 0 ELSE CHOOSE n \in 1 .. 3 : SizeText[n] = t]

\* The ways to cut a body of n tokens into chunks of 1 to 3.
Cuts(n) == {c \in BoundedSeq(1 .. 3, n) : FoldLeft(LAMBDA a, b : a + b, 0, c) = n}

Before(cut, i) == FoldLeft(LAMBDA a, b : a + b, 0, SubSeq(cut, 1, i - 1))
Chunk(data, cut, i) ==
    <<SizeText[cut[i]], CRLF>>
    \o SubSeq(data, Before(cut, i) + 1, Before(cut, i) + cut[i]) \o <<CRLF>>
Chunks(data, cut) ==
    FlattenSeq([i \in 1 .. Len(cut) |-> Chunk(data, cut, i)])

\* The data of a chunk, and the line end before it, may spell the end mark.
Spells(tokens) == Found(SubSeq(tokens, 1, Len(tokens) - 1), Mark, 1)

Chunked(data, cut) ==
    LET tokens == Header \o Chunks(data, cut) \o Terminator
    IN  [chunked |-> TRUE, length |-> NoLength, body |-> data, tokens |-> tokens,
         starts |-> [i \in 1 .. (Len(cut) + 1) |-> 1 + Before(cut, i) + 3 * (i - 1)],
         wellFormed |-> ~Spells(tokens)]
Announced(data, length) ==
    [chunked |-> FALSE, length |-> length, body |-> data, starts |-> <<>>,
     wellFormed |-> length = Len(data),
     tokens |-> Header \o data]

AllChunked == UNION {{Chunked(data, cut) : cut \in Cuts(Len(data))} : data \in Bodies}

AllAnnounced == {Announced(data, Len(data)) : data \in Bodies}

WellFormedRequests == {r \in AllChunked : r.wellFormed} \cup AllAnnounced
\* The client sends more than it announced, or announces nothing.
Unannounced == {Announced(data, length) : data \in Bodies, length \in {NoLength, 0, 1}}

=============================================================================
