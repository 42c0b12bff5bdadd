--------------------------- MODULE FramingProofs ---------------------------
(***************************************************************************)
(* For every read limit, body limit and set of requests: searching the     *)
(* tail of the buffer finds the end mark whenever the buffer has it, and   *)
(* of a well-formed request the body that is handed on is the one that was *)
(* meant, whatever pieces it came in, and is refused by its own length.    *)
(*                                                                         *)
(* The tail covers what the last recv() brought and the length of the mark *)
(* before it.  A mark that begins further to the front was complete before *)
(* that recv(), and so was the end of the headers, which is part of it:    *)
(* the search then found it, and the connection stopped reading.           *)
(*                                                                         *)
(* Decoding goes from one place in the buffer to a later one.  That there  *)
(* is one function that does so, and what it comes to from the start of    *)
(* each chunk on, is shown backwards from the end: of the places where it  *)
(* might fail the last cannot be one.                                      *)
(***************************************************************************)
EXTENDS Framing, SequenceTheorems, WellFoundedInduction, TLAPS

-----------------------------------------------------------------------------
(* Searching.                                                              *)

\* Among any numbers there is a least one.
LEMMA LeastNumber ==
    ASSUME NEW T, T \subseteq Nat, T # {}
    PROVE  \E i \in T : \A j \in T : i <= j
<1>. DEFINE Less == OpToRel(<, Nat)
<1>1. \A a, b \in Nat : <<a, b>> \in Less <=> a < b
  BY DEF OpToRel
<1>2. IsWellFoundedOn(Less, Nat)
  BY NatLessThanWellFounded
<1>. HIDE DEF Less
<1>3. PICK i \in T : \A j \in T : ~ (<<j, i>> \in Less)
  BY <1>2, WFMin
<1>4. ASSUME NEW j \in T PROVE i <= j
  <2>1. i \in Nat /\ j \in Nat /\ ~ (j < i)
    BY <1>1, <1>3
  <2>. QED  BY <2>1
<1>. QED  BY <1>4

\* What is found is found first at one place.
LEMMA FirstIsFirst ==
    ASSUME NEW s \in Seq(Token), NEW mark, NEW from \in Nat \ {0}, Found(s, mark, from)
    PROVE  /\ First(s, mark, from) \in from .. Len(s)
           /\ Matches(s, mark, First(s, mark, from))
           /\ \A j \in from .. (First(s, mark, from) - 1) : ~Matches(s, mark, j)
<1>. DEFINE matching == {at \in from .. Len(s) : Matches(s, mark, at)}
<1>1. matching \subseteq Nat /\ matching # {}
  BY DEF Found
<1>2. PICK at \in matching : \A j \in matching : at <= j
  BY <1>1, LeastNumber
<1>3. \A j \in from .. (at - 1) : ~Matches(s, mark, j)
  <2>1. SUFFICES ASSUME NEW j \in from .. (at - 1), Matches(s, mark, j)  PROVE FALSE
    OBVIOUS
  <2>2. j \in matching /\ ~ (at <= j)
    BY <2>1
  <2>. QED  BY <1>2, <2>2
<1>. QED  BY <1>2, <1>3 DEF First

\* A match before which there is none is the first.
LEMMA FirstIs ==
    ASSUME NEW s \in Seq(Token), NEW mark, NEW from \in Nat \ {0},
           NEW at \in from .. Len(s), Matches(s, mark, at),
           \A j \in from .. (at - 1) : ~Matches(s, mark, j)
    PROVE  Found(s, mark, from) /\ First(s, mark, from) = at
<1>1. Found(s, mark, from)
  BY DEF Found
<1>. DEFINE first == First(s, mark, from)
<1>2. /\ first \in from .. Len(s) /\ Matches(s, mark, first)
      /\ \A j \in from .. (first - 1) : ~Matches(s, mark, j)
  BY <1>1, FirstIsFirst
<1>. HIDE DEF first
<1>3. ~ (first < at) /\ ~ (at < first)
  BY <1>2
<1>4. first = at
  BY <1>2, <1>3
<1>. QED  BY <1>1, <1>4 DEF first

-----------------------------------------------------------------------------
(* Decoding.                                                               *)

\* A chunk that is taken lies within the buffer, and the next one begins behind it.
LEMMA ChunkTaken ==
    ASSUME NEW raw \in Seq(Token), NEW pos \in 1 .. (Len(raw) + 2), HasChunk(raw, pos)
    PROVE  /\ ChunkData(raw, pos) \in Seq(Token)
           /\ NextAfter(raw, pos) \in (pos + 1) .. (Len(raw) + 2)
<1>1. Found(raw, <<CRLF>>, pos) /\ HasSize(SizeLine(raw, pos))
  BY DEF HasChunk, HasSizeLine
<1>2. First(raw, <<CRLF>>, pos) \in pos .. Len(raw)
  BY <1>1, FirstIsFirst
<1>3. SizeAt(raw, pos) \in Nat
  BY <1>1, FramingAssumption DEF HasSize, SizeAt
<1>4. /\ DataStart(raw, pos) \in (pos + 1) .. (Len(raw) + 1) /\ SizeAt(raw, pos) \in Nat \ {0}
      /\ DataStart(raw, pos) + SizeAt(raw, pos) - 1 <= Len(raw)
  BY <1>2, <1>3 DEF DataStart, HasChunk
<1>5. ChunkData(raw, pos) \in Seq(Token)
  BY <1>4 DEF ChunkData
<1>6. NextAfter(raw, pos) \in (pos + 1) .. (Len(raw) + 2)
  BY <1>4 DEF NextAfter, NextChunk
<1>. QED  BY <1>5, <1>6

\* What the loop appends from pos on, given what it appends from later places on.
Appends(raw, f, pos) ==
    IF HasChunk(raw, pos) THEN ChunkData(raw, pos) \o f[NextAfter(raw, pos)] ELSE <<>>
IsDecoding(f, raw, m) ==
    f = [pos \in m .. (Len(raw) + 2) |-> Appends(raw, f, pos)]

\* The definition of decoded goes from a place to a later one: what is known from
\* m + 1 on is known from m on.
LEMMA OneEarlier ==
    ASSUME NEW raw \in Seq(Token), NEW m \in 1 .. (Len(raw) + 2),
           NEW f, IsDecoding(f, raw, m + 1)
    PROVE  \E g : IsDecoding(g, raw, m)
<1>. DEFINE n == Len(raw) + 2
            g == [pos \in m .. n |-> IF pos = m THEN Appends(raw, f, m) ELSE f[pos]]
<1>1. \A pos \in m .. n :
        /\ pos # m => pos \in (m + 1) .. n
        /\ HasChunk(raw, pos) => NextAfter(raw, pos) \in (m + 1) .. n
  <2>. SUFFICES ASSUME NEW pos \in m .. n
                PROVE  HasChunk(raw, pos) => NextAfter(raw, pos) \in (pos + 1) .. n
    OBVIOUS
  <2>. QED  BY ChunkTaken
<1>2. /\ \A pos \in (m + 1) .. n : g[pos] = f[pos] /\ f[pos] = Appends(raw, f, pos)
      /\ g[m] = Appends(raw, f, m) /\ g = [pos \in m .. n |-> g[pos]]
  <2>1. \A pos \in (m + 1) .. n : f[pos] = Appends(raw, f, pos)
    BY DEF IsDecoding
  <2>. QED  BY <2>1
<1>. HIDE DEF g
<1>3. \A pos \in m .. n : Appends(raw, g, pos) = Appends(raw, f, pos)
  BY <1>1, <1>2 DEF Appends
<1>4. \A pos \in m .. n : g[pos] = Appends(raw, g, pos)
  BY <1>1, <1>2, <1>3
<1>5. IsDecoding(g, raw, m)
  BY <1>2, <1>4 DEF IsDecoding
<1>. QED  BY <1>5

\* A chunked body of any length can be decoded,
LEMMA DecodingExists ==
    ASSUME NEW raw \in Seq(Token)
    PROVE  \E f : IsDecoding(f, raw, 1)
<1>. DEFINE n == Len(raw) + 2
            without == {k \in 0 .. n : ~ \E f : IsDecoding(f, raw, n + 1 - k)}
<1>1. n \in Nat \ {0} /\ without \subseteq Nat
  OBVIOUS
<1>2. 0 \notin without
  <2>1. DEFINE f == [pos \in (n + 1) .. n |-> <<>>]
  <2>2. f = [pos \in (n + 1) .. n |-> Appends(raw, f, pos)]
    OBVIOUS
  <2>. HIDE DEF f
  <2>3. IsDecoding(f, raw, n + 1) /\ n + 1 - 0 = n + 1
    BY <2>2 DEF IsDecoding
  <2>. QED  BY <2>3
<1>3. CASE without # {}
  <2>1. PICK k \in without : \A j \in without : k <= j
    BY <1>1, <1>3, LeastNumber
  <2>2. k \in 1 .. n
    BY <1>2, <2>1
  <2>3. (k - 1) \notin without /\ k - 1 \in 0 .. n /\ n + 1 - (k - 1) = (n + 1 - k) + 1
    BY <2>1, <2>2
  <2>4. (\E f : IsDecoding(f, raw, (n + 1 - k) + 1)) /\ n + 1 - k \in 1 .. (Len(raw) + 2)
    BY <2>2, <2>3
  <2>. QED  BY <2>1, <2>4, OneEarlier
<1>4. CASE without = {}
  <2>1. n \in 0 .. n /\ n + 1 - n = 1
    BY <1>1
  <2>. QED  BY <1>4, <2>1
<1>. QED  BY <1>3, <1>4

\* Decode obeys its definition.
LEMMA DecodeIsDecoding ==
    ASSUME NEW raw \in Seq(Token)
    PROVE  \E f : IsDecoding(f, raw, 1) /\ Decode(raw) = f[1]
<1>. DEFINE Is(f) == f = [pos \in 1 .. (Len(raw) + 2) |->
                            IF HasChunk(raw, pos)
                            THEN ChunkData(raw, pos) \o f[NextAfter(raw, pos)]
                            ELSE <<>>]
            chosen == CHOOSE f : Is(f)
<1>1. \A f : Is(f) <=> IsDecoding(f, raw, 1)
  BY DEF IsDecoding, Appends
<1>2. Decode(raw) = chosen[1]
  BY DEF Decode
<1>. HIDE DEF Is
<1>3. Is(chosen)
  BY <1>1, DecodingExists
<1>. QED  BY <1>1, <1>2, <1>3

\* and what comes out is made of its tokens.
LEMMA DecodedAreTokens ==
    ASSUME NEW raw \in Seq(Token), NEW f, IsDecoding(f, raw, 1)
    PROVE  f[1] \in Seq(Token)
<1>. DEFINE n == Len(raw) + 2
            bad == {k \in 0 .. n : k < n /\ f[n - k] \notin Seq(Token)}
<1>1. n \in Nat \ {0} /\ bad \subseteq Nat
  OBVIOUS
<1>2. CASE bad # {}
  <2>1. PICK k \in bad : \A j \in bad : k <= j
    BY <1>1, <1>2, LeastNumber
  <2>. DEFINE pos == n - k
  <2>2. pos \in 1 .. n /\ f[pos] \notin Seq(Token)
    BY <2>1
  <2>3. f[pos] = Appends(raw, f, pos)
    BY <2>2 DEF IsDecoding
  <2>4. CASE HasChunk(raw, pos)
    <3>1. ChunkData(raw, pos) \in Seq(Token) /\ NextAfter(raw, pos) \in (pos + 1) .. n
      BY <2>2, <2>4, ChunkTaken
    <3>. DEFINE j == n - NextAfter(raw, pos)
    <3>2. j \in 0 .. n /\ j < k /\ j < n /\ n - j = NextAfter(raw, pos)
      BY <2>2, <3>1
    <3>3. f[NextAfter(raw, pos)] \in Seq(Token)
      BY <2>1, <3>2
    <3>4. Appends(raw, f, pos) \in Seq(Token)
      BY <2>4, <3>1, <3>3, ConcatProperties DEF Appends
    <3>. QED  BY <2>2, <2>3, <3>4
  <2>5. CASE ~HasChunk(raw, pos)
    BY <2>2, <2>3, <2>5, EmptySeq DEF Appends
  <2>. QED  BY <2>4, <2>5
<1>3. CASE bad = {}
  <2>1. n - 1 \in 0 .. n /\ n - 1 < n /\ n - (n - 1) = 1
    BY <1>1
  <2>. QED  BY <1>3, <2>1
<1>. QED  BY <1>2, <1>3

-----------------------------------------------------------------------------
(* What the decoding of a well-formed body comes to.                       *)

\* Where a size stands before a line end, it is the size line.
LEMMA SizeLineIs ==
    ASSUME NEW raw \in Seq(Token), NEW pos \in Nat \ {0}, pos + 1 <= Len(raw),
           raw[pos] \in DOMAIN Size, raw[pos + 1] = CRLF
    PROVE  /\ HasSizeLine(raw, pos) /\ HasSize(SizeLine(raw, pos))
           /\ SizeAt(raw, pos) = Size[raw[pos]] /\ DataStart(raw, pos) = pos + 2
<1>1. raw[pos] # CRLF
  BY FramingAssumption
<1>2. Matches(raw, <<CRLF>>, pos + 1) /\ ~Matches(raw, <<CRLF>>, pos)
  BY <1>1 DEF Matches
<1>3. pos + 1 \in pos .. Len(raw) /\ \A j \in pos .. (pos + 1 - 1) : j = pos
  OBVIOUS
<1>4. Found(raw, <<CRLF>>, pos) /\ First(raw, <<CRLF>>, pos) = pos + 1
  BY <1>2, <1>3, FirstIs
<1>5. SizeLine(raw, pos) = <<raw[pos]>>
  <2>1. SubSeq(raw, pos, pos) = <<raw[pos]>>
    <3>. DEFINE one == SubSeq(raw, pos, pos)
    <3>1. one \in Seq(Token) /\ Len(one) = 1 /\ one[1] = raw[pos]
      OBVIOUS
    <3>. HIDE DEF one
    <3>2. one = <<raw[pos]>>
      BY <3>1
    <3>. QED  BY <3>2 DEF one
  <2>2. pos + 1 - 1 = pos
    OBVIOUS
  <2>. QED  BY <1>4, <2>1, <2>2 DEF SizeLine
<1>6. HasSizeLine(raw, pos)
  BY <1>4 DEF HasSizeLine
<1>. QED  BY <1>4, <1>5, <1>6 DEF HasSize, SizeAt, DataStart

\* A chunk is taken as its sender meant it.
LEMMA ChunkAsMeant ==
    ASSUME NEW raw \in Seq(Token), NEW pos \in Nat \ {0}, NEW size \in Nat \ {0},
           pos + 2 + size <= Len(raw),
           raw[pos] \in DOMAIN Size, Size[raw[pos]] = size, raw[pos + 1] = CRLF
    PROVE  /\ HasChunk(raw, pos) /\ NextAfter(raw, pos) = pos + size + 3
           /\ ChunkData(raw, pos) = SubSeq(raw, pos + 2, pos + 1 + size)
<1>1. /\ HasSizeLine(raw, pos) /\ HasSize(SizeLine(raw, pos))
      /\ SizeAt(raw, pos) = size /\ DataStart(raw, pos) = pos + 2
  BY SizeLineIs
<1>2. pos + 2 + size - 1 = pos + 1 + size
  OBVIOUS
<1>3. HasChunk(raw, pos)
  BY <1>1 DEF HasChunk
<1>4. ChunkData(raw, pos) = SubSeq(raw, pos + 2, pos + 1 + size)
  BY <1>1, <1>2 DEF ChunkData
<1>5. NextAfter(raw, pos) = pos + size + 3
  BY <1>1 DEF NextAfter, NextChunk
<1>. QED  BY <1>3, <1>4, <1>5

\* The chunk of size zero is the last.
LEMMA ZeroIsLast ==
    ASSUME NEW raw \in Seq(Token), NEW pos \in Nat \ {0}, pos + 1 <= Len(raw),
           raw[pos] = "0", raw[pos + 1] = CRLF
    PROVE  ~HasChunk(raw, pos)
<1>1. "0" \in DOMAIN Size /\ Size["0"] = 0
  BY FramingAssumption
<1>2. SizeAt(raw, pos) = 0
  BY <1>1, SizeLineIs
<1>. QED  BY <1>2 DEF HasChunk

\* The body begins behind the headers, in all that is received of a request.
LEMMA BodyBehindHeaders ==
    ASSUME NEW s \in Seq(Token), NEW t \in Seq(Token), IsPrefix(s, t),
           Matches(t, Header, 1), HeadersEnd(s)
    PROVE  Len(s) >= 3 /\ BodyOf(s) = SubSeq(s, 4, Len(s))
<1>1. /\ t[1] = Headers /\ t[2] = CRLF /\ t[3] = CRLF /\ Headers # CRLF
  BY DEF Matches, Header, Headers, CRLF
<1>2. Len(s) <= Len(t) /\ \A i \in 1 .. Len(s) : s[i] = t[i]
  <2>1. Len(s) <= Len(t) /\ SubSeq(s, 1, Len(s)) = SubSeq(t, 1, Len(s))
    BY DEF IsPrefix
  <2>2. \A i \in 1 .. Len(s) : SubSeq(s, 1, Len(s))[i] = s[i] /\ SubSeq(t, 1, Len(s))[i] = t[i]
    BY <2>1
  <2>. QED  BY <2>1, <2>2
<1>3. ~Matches(s, EmptyLine, 1)
  BY <1>1, <1>2 DEF Matches, EmptyLine
<1>4. PICK at \in 1 .. Len(s) : Matches(s, EmptyLine, at)
  BY DEF HeadersEnd, Found
<1>5. Len(s) >= 3
  BY <1>3, <1>4 DEF Matches, EmptyLine
<1>6. Matches(s, EmptyLine, 2)
  BY <1>1, <1>2, <1>5 DEF Matches, EmptyLine
<1>7. 2 \in 1 .. Len(s) /\ \A j \in 1 .. (2 - 1) : j = 1
  BY <1>5
<1>8. First(s, EmptyLine, 1) = 2
  BY <1>3, <1>6, <1>7, FirstIs
<1>. QED  BY <1>5, <1>8 DEF BodyOf

\* The framing in front of a chunk is no longer than the place where it begins.
LEMMA StartsGrow ==
    ASSUME NEW raw \in Seq(Token), NEW data \in Seq(Token), NEW starts,
           InChunks(raw, starts, data)
    PROVE  \A i \in 1 .. Len(starts) : DataBefore(starts, i) \in Nat
<1>. DEFINE low == {i \in 1 .. Len(starts) : ~ (DataBefore(starts, i) >= 0)}
<1>1. /\ starts \in Seq(1 .. Len(raw)) /\ starts[1] = 1
      /\ \A i \in 1 .. (Len(starts) - 1) : starts[i + 1] - starts[i] - 3 > 0
  BY DEF InChunks, ChunkSent
<1>2. \A i \in 1 .. Len(starts) : starts[i] \in Nat
  BY <1>1
<1>3. low = {}
  <2>1. SUFFICES ASSUME low # {}  PROVE FALSE
    OBVIOUS
  <2>2. low \subseteq Nat
    BY <1>1
  <2>3. PICK i \in low : \A j \in low : i <= j
    BY <2>1, <2>2, LeastNumber
  <2>4. i \in 2 .. Len(starts) /\ starts[i] \in Nat /\ starts[i - 1] \in Nat
    <3>1. i \in 1 .. Len(starts) /\ Len(starts) \in Nat /\ ~ (DataBefore(starts, i) >= 0)
      BY <1>1, <2>3
    <3>2. i # 1
      BY <1>1, <3>1 DEF DataBefore
    <3>3. i \in 2 .. Len(starts) /\ i - 1 \in 1 .. Len(starts)
      BY <3>1, <3>2
    <3>. QED  BY <1>2, <3>1, <3>3
  <2>5. (i - 1) \in 1 .. (Len(starts) - 1) /\ (i - 1) \notin low /\ i - 1 + 1 = i
    BY <1>1, <2>3, <2>4
  <2>6. starts[i - 1] - 1 - 3 * (i - 1 - 1) >= 0 /\ starts[i] - starts[i - 1] - 3 > 0
    BY <1>1, <2>4, <2>5 DEF DataBefore
  <2>7. starts[i] - 1 - 3 * (i - 1) >= 0
    <3>. DEFINE a == starts[i - 1]
                b == starts[i]
    <3>1. i \in Nat /\ a \in Nat /\ b \in Nat /\ a - 1 - 3 * (i - 1 - 1) >= 0 /\ b - a - 3 > 0
      BY <2>4, <2>6
    <3>. HIDE DEF a, b
    <3>2. b - 1 - 3 * (i - 1) >= 0
      BY <3>1
    <3>. QED  BY <3>2 DEF b
  <2>. QED  BY <2>3, <2>7 DEF DataBefore
<1>. QED  BY <1>2, <1>3 DEF DataBefore

\* Parts of sequences.
LEMMA PartOf ==
    ASSUME NEW s \in Seq(Token), NEW a \in Nat, NEW n \in Nat, a + n <= Len(s)
    PROVE  /\ SubSeq(s, a + 1, a + n) \in Seq(Token)
           /\ Len(SubSeq(s, a + 1, a + n)) = n
           /\ \A j \in 1 .. n : SubSeq(s, a + 1, a + n)[j] = s[a + j]
<1>. DEFINE first == a + 1
            last == a + n
<1>1. first \in Int /\ last \in Int /\ last - first + 1 = n /\ \A j \in 1 .. n : first + j - 1 = a + j
  OBVIOUS
<1>2. \A i \in first .. last : s[i] \in Token
  <2>1. \A i \in first .. last : i \in 1 .. Len(s)
    OBVIOUS
  <2>. QED  BY <2>1, ElementOfSeq
<1>3. IF first <= last THEN n = last - first + 1 ELSE n = 0
  OBVIOUS
<1>. HIDE DEF first, last
<1>4. /\ SubSeq(s, first, last) \in Seq(Token)
      /\ Len(SubSeq(s, first, last)) = IF first <= last THEN last - first + 1 ELSE 0
      /\ \A i \in 1 .. (last - first + 1) : SubSeq(s, first, last)[i] = s[first + i - 1]
  BY <1>1, <1>2, SubSeqProperties
<1>5. SubSeq(s, first, last) \in Seq(Token) /\ Len(SubSeq(s, first, last)) = n
  BY <1>3, <1>4
<1>6. \A i \in 1 .. n : SubSeq(s, first, last)[i] = s[a + i]
  BY <1>1, <1>4
<1>. QED  BY <1>5, <1>6 DEF first, last

Part(s, a, n) == SubSeq(s, a + 1, a + n)
Same(s, a, t, b, n) ==
    /\ a \in Nat /\ b \in Nat /\ n \in Nat /\ a + n <= Len(s) /\ b + n <= Len(t)
    /\ \A j \in 1 .. n : s[a + j] = t[b + j]

\* Parts with the same tokens are the same,
LEMMA PartsEqual ==
    ASSUME NEW s \in Seq(Token), NEW t \in Seq(Token), NEW a, NEW b, NEW n,
           Same(s, a, t, b, n)
    PROVE  Part(s, a, n) = Part(t, b, n)
<1>0. /\ a \in Nat /\ b \in Nat /\ n \in Nat /\ a + n <= Len(s) /\ b + n <= Len(t)
      /\ \A j \in 1 .. n : s[a + j] = t[b + j]
  BY DEF Same
<1>. DEFINE p == SubSeq(s, a + 1, a + n)
            q == SubSeq(t, b + 1, b + n)
<1>1. p \in Seq(Token) /\ Len(p) = n /\ \A j \in 1 .. n : p[j] = s[a + j]
  BY <1>0, PartOf
<1>2. q \in Seq(Token) /\ Len(q) = n /\ \A j \in 1 .. n : q[j] = t[b + j]
  BY <1>0, PartOf
<1>. HIDE DEF p, q
<1>3. p = q
  BY <1>0, <1>1, <1>2, SeqEqual
<1>. QED  BY <1>3 DEF p, q, Part

\* and a part and what is behind it are the whole.
LEMMA PartsJoin ==
    ASSUME NEW s \in Seq(Token), NEW a \in Nat, NEW n \in Nat, a + n <= Len(s)
    PROVE  SubSeq(s, a + 1, a + n) \o SubSeq(s, a + n + 1, Len(s)) = SubSeq(s, a + 1, Len(s))
<1>1. /\ a + 1 \in 1 .. (Len(s) + 1) /\ a + n \in ((a + 1) - 1) .. Len(s)
      /\ Len(s) \in (a + n) .. Len(s) /\ Len(s) \in Nat
  OBVIOUS
<1>. DEFINE m == a + 1
            k == a + n
<1>. HIDE DEF m, k
<1>2. m \in 1 .. (Len(s) + 1) /\ k \in (m - 1) .. Len(s) /\ Len(s) \in k .. Len(s)
  BY <1>1 DEF m, k
<1>3. SubSeq(s, m, k) \o SubSeq(s, k + 1, Len(s)) = SubSeq(s, m, Len(s))
  BY <1>2, ConcatAdjacentSubSeq
<1>. QED  BY <1>3 DEF m, k

\* A chunk adds its data in front of what is appended behind it.
Continued(raw, data, f, at, size, from) ==
    /\ IsDecoding(f, raw, 1) /\ ChunkSent(raw, at, size, data, from)
    /\ at \in Nat \ {0} /\ size \in Nat /\ from \in Nat
    /\ at + 2 + size <= Len(raw) /\ from + size <= Len(data)
    /\ f[at + size + 3] = SubSeq(data, from + size + 1, Len(data))

\* A chunk in front of the decoded rest is the data from there on.
LEMMA ChunkAppended ==
    ASSUME NEW raw \in Seq(Token), NEW data \in Seq(Token),
           NEW f, NEW at, NEW size, NEW from, Continued(raw, data, f, at, size, from)
    PROVE  f[at] = SubSeq(data, from + 1, Len(data))
<1>0. /\ IsDecoding(f, raw, 1) /\ ChunkSent(raw, at, size, data, from)
      /\ at \in Nat \ {0} /\ size \in Nat /\ from \in Nat
      /\ at + 2 + size <= Len(raw) /\ from + size <= Len(data)
      /\ f[at + size + 3] = SubSeq(data, from + size + 1, Len(data))
  BY DEF Continued
<1>1. /\ size \in Nat \ {0} /\ raw[at] \in DOMAIN Size /\ Size[raw[at]] = size
      /\ raw[at + 1] = CRLF /\ \A j \in 1 .. size : raw[at + 1 + j] = data[from + j]
  BY <1>0 DEF ChunkSent
<1>2. /\ HasChunk(raw, at) /\ NextAfter(raw, at) = at + size + 3
      /\ ChunkData(raw, at) = SubSeq(raw, at + 2, at + 1 + size)
  BY <1>0, <1>1, ChunkAsMeant
<1>3. SubSeq(raw, at + 2, at + 1 + size) = SubSeq(data, from + 1, from + size)
  <2>. DEFINE place == at + 1
  <2>0. Len(raw) \in Nat
    OBVIOUS
  <2>1. /\ place \in Nat /\ place + size <= Len(raw) /\ place + 1 = at + 2 /\ place + size = at + 1 + size
    BY <1>0, <2>0
  <2>2. \A j \in 1 .. size : raw[place + j] = data[from + j]
    BY <1>1
  <2>. HIDE DEF place
  <2>3. Same(raw, place, data, from, size)
    BY <1>0, <2>1, <2>2 DEF Same
  <2>4. Part(raw, place, size) = Part(data, from, size)
    BY <2>3, PartsEqual
  <2>5. Part(raw, place, size) = SubSeq(raw, at + 2, at + 1 + size)
    BY <2>1 DEF Part
  <2>. QED  BY <2>4, <2>5 DEF Part
<1>4. SubSeq(data, from + 1, from + size) \o SubSeq(data, from + size + 1, Len(data))
        = SubSeq(data, from + 1, Len(data))
  BY <1>0, PartsJoin
<1>5. f[at] = Appends(raw, f, at)
  <2>1. at \in 1 .. (Len(raw) + 2)
    BY <1>0
  <2>. QED  BY <1>0, <2>1 DEF IsDecoding
<1>6. Appends(raw, f, at)
        = SubSeq(data, from + 1, from + size) \o SubSeq(data, from + size + 1, Len(data))
  BY <1>0, <1>2, <1>3 DEF Appends
<1>. QED  BY <1>4, <1>5, <1>6

\* From each chunk on, the loop appends the data from that chunk on.
LEMMA FromChunkOn ==
    ASSUME NEW raw \in Seq(Token), NEW data \in Seq(Token), NEW starts,
           InChunks(raw, starts, data), NEW f, IsDecoding(f, raw, 1),
           NEW i \in 1 .. (Len(starts) - 1),
           f[starts[i + 1]] = SubSeq(data, DataBefore(starts, i + 1) + 1, Len(data)),
           DataBefore(starts, i + 1) <= Len(data)
    PROVE  /\ f[starts[i]] = SubSeq(data, DataBefore(starts, i) + 1, Len(data))
           /\ DataBefore(starts, i) <= Len(data)
<1>. DEFINE at == starts[i]
            next == starts[i + 1]
            size == next - at - 3
            from == DataBefore(starts, i)
<1>1. starts \in Seq(1 .. Len(raw)) /\ ChunkSent(raw, at, size, data, from)
  BY DEF InChunks
<1>2. i \in 1 .. Len(starts) /\ i + 1 \in 1 .. Len(starts) /\ i \in Nat
  BY <1>1
<1>3. at \in 1 .. Len(raw) /\ next \in 1 .. Len(raw)
  BY <1>1, <1>2, ElementOfSeq
<1>4. from \in Nat /\ from = at - 1 - 3 * (i - 1)
  BY <1>2, StartsGrow DEF DataBefore
<1>5. DataBefore(starts, i + 1) = next - 1 - 3 * (i + 1 - 1)
  BY DEF DataBefore
<1>6. size > 0
  BY <1>1 DEF ChunkSent
<1>. HIDE DEF at, next, from
<1>7. /\ at \in Nat \ {0} /\ size \in Nat /\ at + 2 + size <= Len(raw)
      /\ at + size + 3 = next /\ DataBefore(starts, i + 1) = from + size
  <2>1. Len(raw) \in Nat
    OBVIOUS
  <2>. QED  BY <1>2, <1>3, <1>4, <1>5, <1>6, <2>1
<1>8. f[next] = SubSeq(data, from + size + 1, Len(data)) /\ from + size <= Len(data)
  BY <1>7 DEF next
<1>. HIDE DEF size
<1>9. f[at + size + 3] = SubSeq(data, from + size + 1, Len(data))
  BY <1>7, <1>8
<1>10. f[at] = SubSeq(data, from + 1, Len(data))
  <2>1. Continued(raw, data, f, at, size, from)
    BY <1>1, <1>4, <1>7, <1>8, <1>9 DEF Continued
  <2>. QED  BY <2>1, ChunkAppended
<1>11. from <= Len(data)
  BY <1>4, <1>7, <1>8
<1>. QED  BY <1>10, <1>11 DEF at, from

\* A body sent in chunks is decoded to what was sent.
LEMMA ChunksDecoded ==
    ASSUME NEW raw \in Seq(Token), NEW data \in Seq(Token), NEW starts,
           InChunks(raw, starts, data)
    PROVE  Decode(raw) = data
<1>. DEFINE last == Len(starts)
<1>1. /\ starts \in Seq(1 .. Len(raw)) /\ last \in Nat \ {0} /\ starts[1] = 1
      /\ DataBefore(starts, last) = Len(data)
      /\ starts[last] + 2 = Len(raw) /\ Matches(raw, Terminator, starts[last])
  BY DEF InChunks
<1>2. starts[last] \in Nat \ {0} /\ DataBefore(starts, 1) = 0
  <2>1. last \in 1 .. Len(starts)
    BY <1>1
  <2>2. starts[last] \in 1 .. Len(raw)
    BY <1>1, <2>1, ElementOfSeq
  <2>3. DataBefore(starts, 1) = 1 - 1 - 3 * (1 - 1)
    BY <1>1 DEF DataBefore
  <2>. QED  BY <2>2, <2>3
<1>3. PICK f : IsDecoding(f, raw, 1) /\ Decode(raw) = f[1]
  BY DecodeIsDecoding
<1>. DEFINE Done(i) == /\ f[starts[i]] = SubSeq(data, DataBefore(starts, i) + 1, Len(data))
                       /\ DataBefore(starts, i) <= Len(data)
            undone == {k \in 0 .. (last - 1) : ~Done(last - k)}
<1>4. Done(last)
  <2>. DEFINE at == starts[last]
  <2>0. /\ at \in Nat \ {0} /\ at + 1 <= Len(raw) /\ Matches(raw, Terminator, at)
        /\ at + 1 - 1 = at /\ at + 2 - 1 = at + 1
    BY <1>1, <1>2
  <2>. HIDE DEF at
  <2>1. raw[at] = "0" /\ raw[at + 1] = CRLF
    <3>1. Len(Terminator) = 3 /\ Terminator[1] = "0" /\ Terminator[2] = CRLF
      BY DEF Terminator
    <3>2. raw[at + 1 - 1] = Terminator[1] /\ raw[at + 2 - 1] = Terminator[2]
      BY <2>0, <3>1 DEF Matches
    <3>. QED  BY <2>0, <3>1, <3>2
  <2>2. ~HasChunk(raw, at)
    BY <2>0, <2>1, ZeroIsLast
  <2>. USE DEF at
  <2>3. starts[last] \in 1 .. (Len(raw) + 2)
    BY <1>1, <1>2
  <2>4. f[starts[last]] = Appends(raw, f, starts[last])
    BY <1>3, <2>3 DEF IsDecoding
  <2>5. f[starts[last]] = <<>>
    BY <2>2, <2>4 DEF Appends
  <2>6. SubSeq(data, Len(data) + 1, Len(data)) = <<>>
    OBVIOUS
  <2>. QED  BY <1>1, <2>5, <2>6
<1>5. \A i \in 1 .. (last - 1) : Done(i + 1) => Done(i)
  BY <1>3, FromChunkOn
<1>. HIDE DEF Done
<1>6. undone = {}
  <2>1. SUFFICES ASSUME undone # {}  PROVE FALSE
    OBVIOUS
  <2>2. undone \subseteq Nat
    BY <1>1
  <2>3. PICK k \in undone : \A j \in undone : k <= j
    BY <2>1, <2>2, LeastNumber
  <2>4. k \in 1 .. (last - 1)
    BY <1>1, <1>4, <2>3
  <2>. HIDE DEF last
  <2>5. (k - 1) \in 0 .. (last - 1) /\ (k - 1) \notin undone /\ last - (k - 1) = (last - k) + 1
    <3>1. (k - 1) \in 0 .. (last - 1) /\ last - (k - 1) = (last - k) + 1 /\ ~ (k <= k - 1)
      BY <1>1, <2>4
    <3>. QED  BY <2>3, <3>1
  <2>6. Done((last - k) + 1) /\ last - k \in 1 .. (last - 1)
    BY <1>1, <2>4, <2>5
  <2>. QED  BY <1>5, <2>3, <2>6
<1>7. Done(1)
  <2>1. (last - 1) \in 0 .. (last - 1) /\ last - (last - 1) = 1
    BY <1>1
  <2>. QED  BY <1>6, <2>1
<1>8. f[1] = SubSeq(data, 1, Len(data))
  <2>1. starts[1] = 1 /\ DataBefore(starts, 1) + 1 = 1
    BY <1>1, <1>2
  <2>2. f[starts[1]] = SubSeq(data, DataBefore(starts, 1) + 1, Len(data))
    BY <1>7 DEF Done
  <2>. QED  BY <2>1, <2>2
<1>. QED  BY <1>3, <1>8, SubSeqFull

-----------------------------------------------------------------------------
(* What is received of a well-formed request.                              *)

\* One stream begins with another when it has its tokens.
LEMMA PrefixIs ==
    ASSUME NEW s \in Seq(Token), NEW t \in Seq(Token)
    PROVE  IsPrefix(s, t) <=> Len(s) <= Len(t) /\ \A i \in 1 .. Len(s) : s[i] = t[i]
<1>1. CASE Len(s) <= Len(t)
  <2>. DEFINE front == SubSeq(t, 1, Len(s))
  <2>1. /\ front \in Seq(Token) /\ Len(front) = Len(s)
        /\ \A i \in 1 .. Len(s) : front[i] = t[i]
    <3>1. 0 \in Nat /\ Len(s) \in Nat /\ 0 + Len(s) <= Len(t) /\ 0 + 1 = 1
          /\ 0 + Len(s) = Len(s) /\ \A i \in 1 .. Len(s) : 0 + i = i
      BY <1>1
    <3>2. /\ SubSeq(t, 0 + 1, 0 + Len(s)) \in Seq(Token)
          /\ Len(SubSeq(t, 0 + 1, 0 + Len(s))) = Len(s)
          /\ \A j \in 1 .. Len(s) : SubSeq(t, 0 + 1, 0 + Len(s))[j] = t[0 + j]
      BY <3>1, PartOf
    <3>. QED  BY <3>1, <3>2
  <2>2. SubSeq(s, 1, Len(s)) = s
    BY SubSeqFull
  <2>. HIDE DEF front
  <2>3. (s = front) <=> \A i \in 1 .. Len(s) : s[i] = front[i]
    BY <2>1, SeqEqual
  <2>4. IsPrefix(s, t) <=> s = front
    BY <1>1, <2>2 DEF IsPrefix, front
  <2>. QED  BY <1>1, <2>1, <2>3, <2>4
<1>2. CASE ~ (Len(s) <= Len(t))
  BY <1>2 DEF IsPrefix
<1>. QED  BY <1>1, <1>2

\* What has come of the end mark has come of everything.
LEMMA MarkIsTheEnd ==
    ASSUME NEW r, r.tokens \in Seq(Token), WellFormed(r), r.chunked,
           NEW s \in Seq(Token), IsPrefix(s, r.tokens), Found(s, Mark, 1)
    PROVE  s = r.tokens
<1>. DEFINE tokens == r.tokens
            front == SubSeq(tokens, 1, Len(tokens) - 1)
<1>1. tokens \in Seq(Token) /\ ~Found(front, Mark, 1)
  BY DEF WellFormed
<1>. HIDE DEF tokens
<1>2. Len(s) <= Len(tokens) /\ \A i \in 1 .. Len(s) : s[i] = tokens[i]
  BY <1>1, PrefixIs DEF tokens
<1>3. CASE Len(s) < Len(tokens)
  <2>1. PICK at \in 1 .. Len(s) : Matches(s, Mark, at)
    BY DEF Found
  <2>2. Len(front) = Len(tokens) - 1 /\ \A i \in 1 .. Len(s) : front[i] = tokens[i]
    BY <1>1, <1>3
  <2>3. Len(Mark) = 4
    BY DEF Mark
  <2>. HIDE DEF front
  <2>4. at + 4 - 1 <= Len(s) /\ \A i \in 1 .. 4 : s[at + i - 1] = Mark[i]
    BY <2>1, <2>3 DEF Matches
  <2>5. Len(s) \in Nat /\ Len(tokens) \in Nat
    BY <1>1
  <2>6. at + 4 - 1 <= Len(front) /\ at \in 1 .. Len(front)
    BY <1>3, <2>2, <2>4, <2>5
  <2>7. \A i \in 1 .. 4 : at + i - 1 \in 1 .. Len(s)
    BY <2>4, <2>5
  <2>8. \A i \in 1 .. 4 : front[at + i - 1] = Mark[i]
    BY <1>2, <2>2, <2>4, <2>7
  <2>9. Matches(front, Mark, at)
    BY <2>3, <2>6, <2>8 DEF Matches
  <2>. QED  BY <1>1, <2>6, <2>9 DEF Found
<1>4. CASE Len(s) = Len(tokens)
  <2>1. s = tokens
    BY <1>1, <1>2, <1>4, SeqEqual
  <2>. QED  BY <2>1 DEF tokens
<1>. QED  BY <1>2, <1>3, <1>4

\* The body that is handed on is the one that was meant.
LEMMA ChunkedAsMeant ==
    ASSUME NEW r, r.tokens \in Seq(Token), WellFormed(r), r.chunked,
           NEW s \in Seq(Token), IsPrefix(s, r.tokens), Found(s, Mark, 1), HeadersEnd(s)
    PROVE  Decode(BodyOf(s)) = r.body
<1>. DEFINE raw == SubSeq(s, 4, Len(s))
<1>1. /\ s = r.tokens /\ Len(s) >= 3 /\ BodyOf(s) = raw
      /\ Len(Header) + 1 = 4
  <2>1. s = r.tokens
    BY MarkIsTheEnd
  <2>2. Matches(r.tokens, Header, 1) /\ Len(Header) + 1 = 4
    BY DEF WellFormed, Header
  <2>. QED  BY <2>1, <2>2, BodyBehindHeaders
<1>2. InChunks(raw, r.starts, r.body) /\ r.body \in Seq(Token)
  BY <1>1 DEF WellFormed
<1>3. raw \in Seq(Token)
  BY <1>1
<1>. HIDE DEF raw
<1>. QED  BY <1>1, <1>2, <1>3, ChunksDecoded

\* The body stands behind the header.
LEMMA BehindHeader ==
    ASSUME NEW data \in Seq(Token)
    PROVE  /\ Len(Header \o data) = 3 + Len(data)
           /\ \A j \in 1 .. Len(data) : (Header \o data)[3 + j] = data[j]
<1>. DEFINE header == Header
<1>1. header \in Seq(Token) /\ Len(header) = 3
  BY DEF Header, Token
<1>. HIDE DEF header
<1>2. /\ Len(header \o data) = Len(header) + Len(data)
      /\ \A i \in 1 .. Len(header) + Len(data) : (header \o data)[i] =
           IF i <= Len(header) THEN header[i] ELSE data[i - Len(header)]
  BY <1>1, ConcatProperties
<1>3. \A j \in 1 .. Len(data) :
        3 + j \in 1 .. 3 + Len(data) /\ ~ (3 + j <= 3) /\ 3 + j - 3 = j
  OBVIOUS
<1>4. \A j \in 1 .. Len(data) : (header \o data)[3 + j] = data[j]
  BY <1>1, <1>2, <1>3
<1>. QED  BY <1>1, <1>2, <1>4 DEF header

\* With a Content-Length, as many bytes as announced are the body.
LEMMA AnnouncedAsMeant ==
    ASSUME NEW r, r.tokens \in Seq(Token), WellFormed(r), ~r.chunked,
           NEW s \in Seq(Token), IsPrefix(s, r.tokens), HeadersEnd(s),
           Len(BodyOf(s)) >= r.length
    PROVE  BodyOf(s) = r.body
<1>. DEFINE data == r.body
            tokens == r.tokens
<1>1. /\ data \in Seq(Token) /\ tokens \in Seq(Token) /\ tokens = Header \o data
      /\ r.length = Len(data)
  BY DEF WellFormed
<1>. HIDE DEF data, tokens
<1>3. Len(tokens) = 3 + Len(data) /\ \A j \in 1 .. Len(data) : tokens[3 + j] = data[j]
  BY <1>1, BehindHeader
<1>4. Len(s) >= 3 /\ BodyOf(s) = SubSeq(s, 4, Len(s))
  BY BodyBehindHeaders DEF WellFormed
<1>5. Len(s) <= Len(tokens) /\ \A i \in 1 .. Len(s) : s[i] = tokens[i]
  BY <1>1, PrefixIs DEF tokens
<1>. DEFINE n == Len(s) - 3
<1>6. 3 \in Nat /\ n \in Nat /\ 3 + n <= Len(s) /\ 3 + 1 = 4 /\ 3 + n = Len(s)
  BY <1>4
<1>7. /\ BodyOf(s) \in Seq(Token) /\ Len(BodyOf(s)) = n
      /\ \A j \in 1 .. n : BodyOf(s)[j] = s[3 + j]
  <2>. HIDE DEF n
  <2>1. /\ SubSeq(s, 3 + 1, 3 + n) \in Seq(Token) /\ Len(SubSeq(s, 3 + 1, 3 + n)) = n
        /\ \A j \in 1 .. n : SubSeq(s, 3 + 1, 3 + n)[j] = s[3 + j]
    BY <1>6, PartOf
  <2>2. BodyOf(s) = SubSeq(s, 3 + 1, 3 + n)
    BY <1>4, <1>6
  <2>. QED  BY <2>1, <2>2
<1>8. n = Len(data)
  BY <1>1, <1>3, <1>5, <1>7
<1>9. \A j \in 1 .. n : s[3 + j] = data[j]
  BY <1>3, <1>5, <1>6, <1>8
<1>10. BodyOf(s) = data
  <2>. HIDE DEF n
  <2>. QED  BY <1>1, <1>7, <1>8, <1>9, SeqEqual
<1>. QED  BY <1>10 DEF data

\* Whatever was received, the body handed on consists of tokens.
LEMMA BodiesAreTokens ==
    ASSUME NEW s \in Seq(Token), HeadersEnd(s)
    PROVE  BodyOf(s) \in Seq(Token) /\ Decode(BodyOf(s)) \in Seq(Token)
<1>1. First(s, EmptyLine, 1) \in 1 .. Len(s)
  BY FirstIsFirst DEF HeadersEnd
<1>2. BodyOf(s) \in Seq(Token)
  BY <1>1 DEF BodyOf
<1>. QED  BY <1>2, DecodeIsDecoding, DecodedAreTokens

-----------------------------------------------------------------------------

(* The invariant.                                                          *)

\* While the connection reads on, no end was found in what it has.
NotEnded == state = "READING" => ~(isChunked(received) /\ hasChunkedEnd(received))

IInv ==
    /\ request \in Requests /\ received \in Seq(Token) /\ TypeOK
    /\ NotEnded /\ WindowSuffices /\ BodyIsIntended /\ LimitEnforced

\* recv() appends at most ReadLimit tokens.
LEMMA Piece ==
    ASSUME IInv, NEW n \in 1 .. ReadLimit, n <= Len(Unread)
    PROVE  /\ SubSeq(Unread, 1, n) \in Seq(Token)
           /\ Len(SubSeq(Unread, 1, n)) <= ReadLimit
<1>1. request.tokens \in Seq(Token) /\ Len(received) \in Nat
  BY FramingAssumption DEF IInv
<1>2. Unread \in Seq(Token)
  BY <1>1 DEF Unread
<1>. QED  BY <1>2, FramingAssumption

\* A match that ends within the older part is a match in it.
LEMMA OlderMatch ==
    ASSUME NEW s \in Seq(Token), NEW t \in Seq(Token), NEW at \in Nat \ {0},
           NEW mark, Len(mark) \in Nat, Matches(s \o t, mark, at),
           at + Len(mark) - 1 <= Len(s)
    PROVE  Matches(s, mark, at)
<1>1. \A i \in 1 .. Len(s) : (s \o t)[i] = s[i]
  BY ConcatProperties
<1>. QED  BY <1>1 DEF Matches

\* The mark ends with an empty line.
LEMMA MarkEndsHeaders ==
    ASSUME NEW s \in Seq(Token), NEW at \in Nat \ {0}, Matches(s, Mark, at)
    PROVE  HeadersEnd(s)
<1>1. Len(Mark) = 4 /\ Mark[3] = CRLF /\ Mark[4] = CRLF
  BY DEF Mark
<1>2. at + 3 <= Len(s) /\ s[at + 2] = CRLF /\ s[at + 3] = CRLF
  BY <1>1 DEF Matches
<1>3. Matches(s, EmptyLine, at + 2)
  BY <1>2 DEF Matches, EmptyLine
<1>. QED  BY <1>2, <1>3 DEF HeadersEnd, Found

\* An end mark that was not there before this read is found in the tail,
LEMMA WindowAfterRead ==
    ASSUME IInv, state = "READING", request.chunked,
           NEW t \in Seq(Token), Len(t) <= ReadLimit,
           Found(received \o t, Mark, 1)
    PROVE  hasChunkedEnd(received \o t)
<1>. DEFINE s == received \o t
<1>1. /\ s \in Seq(Token) /\ Len(s) = Len(received) + Len(t)
      /\ Len(received) \in Nat /\ Len(t) \in Nat /\ Len(Mark) = 4
  BY ConcatProperties DEF IInv, Mark
<1>2. PICK at \in 1 .. Len(s) : Matches(s, Mark, at)
  BY DEF Found
<1>3. at \notin WindowStart(s) .. Len(s) => at + Len(Mark) - 1 <= Len(received)
  BY <1>1, FramingAssumption DEF WindowStart
<1>4. CASE at + Len(Mark) - 1 <= Len(received)
  <2>0. at \in Nat \ {0} /\ Len(Mark) \in Nat /\ Matches(received \o t, Mark, at)
    BY <1>1, <1>2
  <2>1. Matches(received, Mark, at)
    BY <2>0, <1>4, OlderMatch DEF IInv
  <2>2. HeadersEnd(received) /\ Found(received, Mark, 1)
    BY <1>1, <1>4, <2>1, MarkEndsHeaders DEF IInv, Found
  <2>. QED  BY <2>2 DEF IInv, NotEnded, WindowSuffices, isChunked
<1>5. CASE at \in WindowStart(s) .. Len(s)
  BY <1>2, <1>5 DEF hasChunkedEnd, Found
<1>. QED  BY <1>3, <1>4, <1>5

\* and one found in the tail is in the buffer.
LEMMA WindowInBuffer ==
    ASSUME NEW s \in Seq(Token), hasChunkedEnd(s)
    PROVE  Found(s, Mark, 1)
<1>1. Len(Mark) = 4 /\ Len(s) \in Nat
  BY DEF Mark
<1>2. WindowStart(s) \in Nat \ {0}
  BY <1>1, FramingAssumption DEF WindowStart
<1>. QED  BY <1>1, <1>2 DEF hasChunkedEnd, Found

\* What has been read is always the front of what the client sends.
LEMMA FrontGrows ==
    ASSUME IInv, NEW n \in 1 .. ReadLimit, n <= Len(Unread)
    PROVE  IsPrefix(received \o SubSeq(Unread, 1, n), request.tokens)
<1>. DEFINE tokens == request.tokens
            piece == SubSeq(Unread, 1, n)
            s == received \o piece
<1>1. tokens \in Seq(Token) /\ received \in Seq(Token) /\ IsPrefix(received, tokens)
  BY FramingAssumption DEF IInv, TypeOK
<1>2. Unread = SubSeq(tokens, Len(received) + 1, Len(tokens))
  BY DEF Unread
<1>. HIDE DEF tokens
<1>3. /\ Len(received) <= Len(tokens) /\ Len(received) \in Nat /\ Len(tokens) \in Nat
      /\ \A i \in 1 .. Len(received) : received[i] = tokens[i]
  BY <1>1, PrefixIs
<1>4. /\ Unread \in Seq(Token) /\ Len(Unread) = Len(tokens) - Len(received)
      /\ \A j \in 1 .. Len(Unread) : Unread[j] = tokens[Len(received) + j]
  <2>. DEFINE a == Len(received)
              m == Len(tokens) - Len(received)
  <2>1. a \in Nat /\ m \in Nat /\ a + m = Len(tokens) /\ a + m <= Len(tokens)
    BY <1>3
  <2>. HIDE DEF a, m
  <2>2. /\ SubSeq(tokens, a + 1, a + m) \in Seq(Token) /\ Len(SubSeq(tokens, a + 1, a + m)) = m
        /\ \A j \in 1 .. m : SubSeq(tokens, a + 1, a + m)[j] = tokens[a + j]
    BY <1>1, <2>1, PartOf
  <2>3. Unread = SubSeq(tokens, a + 1, a + m)
    BY <1>2, <2>1 DEF a
  <2>4. Unread \in Seq(Token) /\ Len(Unread) = m /\ \A j \in 1 .. m : Unread[j] = tokens[a + j]
    BY <2>2, <2>3
  <2>. QED  BY <2>4 DEF a, m
<1>. HIDE DEF piece
<1>5. piece \in Seq(Token) /\ Len(piece) = n /\ \A j \in 1 .. n : piece[j] = Unread[j]
  <2>1. 0 \in Nat /\ n \in Nat /\ 0 + n <= Len(Unread) /\ 0 + 1 = 1 /\ 0 + n = n
        /\ \A j \in 1 .. n : 0 + j = j
    BY FramingAssumption
  <2>2. /\ SubSeq(Unread, 0 + 1, 0 + n) \in Seq(Token) /\ Len(SubSeq(Unread, 0 + 1, 0 + n)) = n
        /\ \A j \in 1 .. n : SubSeq(Unread, 0 + 1, 0 + n)[j] = Unread[0 + j]
    BY <1>4, <2>1, PartOf
  <2>. QED  BY <2>1, <2>2 DEF piece
<1>6. /\ s \in Seq(Token) /\ Len(s) = Len(received) + n
      /\ \A i \in 1 .. Len(received) + n :
           s[i] = IF i <= Len(received) THEN received[i] ELSE piece[i - Len(received)]
  BY <1>1, <1>5, ConcatProperties
<1>. HIDE DEF s
<1>7. Len(s) <= Len(tokens)
  BY <1>3, <1>4, <1>6, FramingAssumption
<1>8. \A i \in 1 .. Len(s) : s[i] = tokens[i]
  <2>. SUFFICES ASSUME NEW i \in 1 .. Len(s)  PROVE s[i] = tokens[i]
    OBVIOUS
  <2>1. CASE i <= Len(received)
    BY <1>3, <1>6, <2>1
  <2>2. CASE i > Len(received)
    <3>. DEFINE j == i - Len(received)
    <3>1. j \in 1 .. n /\ j \in 1 .. Len(Unread) /\ Len(received) + j = i
      BY <1>3, <1>4, <1>6, <2>2, FramingAssumption
    <3>2. s[i] = piece[j]
      BY <1>3, <1>6, <2>2
    <3>. HIDE DEF j
    <3>. QED  BY <1>4, <1>5, <3>1, <3>2
  <2>. QED  BY <1>3, <1>6, <2>1, <2>2
<1>9. IsPrefix(s, tokens)
  BY <1>1, <1>6, <1>7, <1>8, PrefixIs
<1>. QED  BY <1>9 DEF s, piece, tokens

\* What a complete request is handed on as.
Handed(s) ==
    \/ /\ state' = "413" /\ body' = body
       /\ \/ isBodyTooLarge(s)
          \/ /\ HeadersEnd(s) /\ request.chunked /\ Found(s, Mark, 1)
             /\ Len(Decode(BodyOf(s))) > Limit
    \/ /\ state' = "processed" /\ ~isBodyTooLarge(s) /\ HeadersEnd(s)
       /\ request.chunked /\ Found(s, Mark, 1)
       /\ body' = Decode(BodyOf(s)) /\ ~ (Len(body') > Limit)
    \/ /\ state' = "processed" /\ ~isBodyTooLarge(s) /\ HeadersEnd(s)
       /\ ~request.chunked
       /\ request.length = NoLength \/ Len(BodyOf(s)) >= request.length
       /\ body' = BodyOf(s)
    \/ state' = "READING" /\ body' = body

\* Whatever a read brings, what is handed on is right.
LEMMA WhatIsHanded ==
    ASSUME IInv, NEW n \in 1 .. ReadLimit, n <= Len(Unread), toRead(n)
    PROVE  Handed(received')
<1>. DEFINE s == received'
<1>1. s \in Seq(Token) /\ state = "READING"
  BY Piece, ConcatProperties DEF toRead, Appended, IInv
<1>2. /\ isBodyTooLarge(s) => state' = "413" /\ body' = body
      /\ ~isBodyTooLarge(s) /\ isRequestComplete(s) => Process(s)
      /\ ~isBodyTooLarge(s) /\ ~isRequestComplete(s) => UNCHANGED <<state, body>>
  BY DEF toRead, Refuse
<1>. HIDE DEF s
<1>3. CASE isBodyTooLarge(s)
  BY <1>2, <1>3 DEF Handed, s
<1>4. CASE ~isBodyTooLarge(s) /\ ~isRequestComplete(s)
  BY <1>1, <1>2, <1>4 DEF Handed
<1>5. CASE ~isBodyTooLarge(s) /\ isRequestComplete(s) /\ request.chunked
  <2>1. HeadersEnd(s) /\ hasChunkedEnd(s) /\ isChunked(s)
    BY <1>5 DEF isRequestComplete, isChunked
  <2>2. Found(s, Mark, 1)
    BY <1>1, <2>1, WindowInBuffer
  <2>. QED  BY <1>2, <1>5, <2>1, <2>2 DEF Handed, s, Process, Refuse, isDecodedTooLarge
<1>6. CASE ~isBodyTooLarge(s) /\ isRequestComplete(s) /\ ~request.chunked
  BY <1>2, <1>6 DEF Handed, s, Process, isRequestComplete, isChunked, AnnouncedReceived
<1>. QED  BY <1>3, <1>4, <1>5, <1>6

\* The body is what was meant, and refused or not by its own length.
LEMMA HandedAsMeant ==
    ASSUME IInv, NEW s \in Seq(Token), IsPrefix(s, request.tokens), Handed(s),
           received' = s, request' = request
    PROVE  TypeOK' /\ BodyIsIntended' /\ LimitEnforced'
<1>1. request.tokens \in Seq(Token) /\ Limit \in Nat
  BY FramingAssumption DEF IInv
<1>2. TypeOK'
  <2>1. body \in Seq(Token)
    BY DEF IInv, TypeOK
  <2>. QED  BY <2>1, BodiesAreTokens DEF TypeOK, Handed
<1>3. CASE ~request.wellFormed
  BY <1>2, <1>3 DEF BodyIsIntended, LimitEnforced
<1>4. CASE request.wellFormed
  <2>1. WellFormed(request)
    BY <1>4, FramingAssumption DEF IInv
  <2>2. CASE request.chunked
    <3>1. ~isBodyTooLarge(s)
      BY <1>1, <2>1, <2>2 DEF WellFormed, isBodyTooLarge, NoLength
    <3>2. HeadersEnd(s) /\ Found(s, Mark, 1) => Decode(BodyOf(s)) = request.body
      BY <1>1, <2>1, <2>2, ChunkedAsMeant
    <3>3. Len(request.body) \in Nat
      BY <2>1 DEF WellFormed
    <3>4. /\ state' = "413" => Len(request.body) > Limit
          /\ state' = "processed" => body' = request.body /\ ~ (Len(request.body) > Limit)
      BY <2>2, <3>1, <3>2 DEF Handed
    <3>. QED  BY <1>1, <1>2, <3>3, <3>4 DEF BodyIsIntended, LimitEnforced
  <2>3. CASE ~request.chunked
    <3>1. request.length = Len(request.body) /\ Len(request.body) \in Nat
      BY <2>1, <2>3 DEF WellFormed
    <3>2. request.length # NoLength
      BY <3>1 DEF NoLength
    <3>3. HeadersEnd(s) /\ Len(BodyOf(s)) >= request.length => BodyOf(s) = request.body
      BY <1>1, <2>1, <2>3, AnnouncedAsMeant
    <3>. QED
      BY <1>1, <1>2, <2>3, <3>1, <3>2, <3>3
      DEF Handed, BodyIsIntended, LimitEnforced, isBodyTooLarge
  <2>. QED  BY <2>2, <2>3
<1>. QED  BY <1>3, <1>4

\* Connection::toRead keeps the invariant.
LEMMA toReadKeeps ==
    ASSUME IInv, NEW n \in 1 .. ReadLimit, n <= Len(Unread), toRead(n)
    PROVE  IInv'
<1>. DEFINE t == SubSeq(Unread, 1, n)
<1>1. t \in Seq(Token) /\ Len(t) <= ReadLimit /\ received' = received \o t
  BY Piece DEF toRead, Appended
<1>2. request' = request /\ state = "READING"
  BY DEF toRead
<1>3. received' \in Seq(Token) /\ request' \in Requests
  BY <1>1, <1>2, ConcatProperties DEF IInv
<1>4. IsPrefix(received', request.tokens)
  BY <1>1, FrontGrows
<1>. HIDE DEF t
<1>5. WindowSuffices'
  BY <1>1, <1>2, <1>3, WindowAfterRead, WindowInBuffer
  DEF WindowSuffices, isChunked, hasChunkedEnd, Found, WindowStart, Matches, HeadersEnd
<1>6. NotEnded'
  BY <1>2 DEF NotEnded, toRead, Process, Refuse, isRequestComplete, isChunked, HeadersEnd,
     hasChunkedEnd, Found, WindowStart, Matches
<1>7. TypeOK' /\ BodyIsIntended' /\ LimitEnforced'
  BY <1>2, <1>3, <1>4, WhatIsHanded, HandedAsMeant
<1>. QED  BY <1>3, <1>5, <1>6, <1>7 DEF IInv

\* The invariant holds in every reachable state.
THEOREM Inductive == Spec => []IInv
<1>1. Init => IInv
  <2>. SUFFICES ASSUME Init  PROVE IInv
    OBVIOUS
  <2>1. /\ received = <<>> /\ received \in Seq(Token) /\ request \in Requests
        /\ request.tokens \in Seq(Token) /\ state = "READING" /\ body \in Seq(Token)
    BY FramingAssumption DEF Init
  <2>2. ~HeadersEnd(received)
    BY <2>1 DEF HeadersEnd, Found
  <2>3. IsPrefix(received, request.tokens)
    <3>. DEFINE tokens == request.tokens
    <3>1. /\ tokens \in Seq(Token) /\ received \in Seq(Token) /\ Len(received) <= Len(tokens)
          /\ \A i \in 1 .. Len(received) : received[i] = tokens[i]
      BY <2>1
    <3>. HIDE DEF tokens
    <3>2. IsPrefix(received, tokens)
      BY <3>1, PrefixIs
    <3>. QED  BY <3>2 DEF tokens
  <2>. QED
    BY <2>1, <2>2, <2>3
    DEF IInv, TypeOK, NotEnded, WindowSuffices, BodyIsIntended, LimitEnforced, isChunked
<1>2. IInv /\ [Next]_vars => IInv'
  <2>. SUFFICES ASSUME IInv, [Next]_vars  PROVE IInv'
    OBVIOUS
  <2>1. CASE Recv
    BY <2>1, toReadKeeps DEF Recv
  <2>2. CASE toReadEnds
    BY <2>2 DEF IInv, TypeOK, NotEnded, WindowSuffices, BodyIsIntended, LimitEnforced,
       toReadEnds, isChunked, hasChunkedEnd, HeadersEnd, Found, Matches, WindowStart
  <2>3. CASE UNCHANGED vars
    BY <2>3 DEF IInv, TypeOK, NotEnded, WindowSuffices, BodyIsIntended, LimitEnforced,
       vars, isChunked, hasChunkedEnd, HeadersEnd, Found, Matches, WindowStart
  <2>. QED  BY <2>1, <2>2, <2>3 DEF Next, Answered
<1>. QED  BY <1>1, <1>2, PTL DEF Spec

\* What was read is always the front of what the client sends, in its order, and the
\* body consists of tokens of it.
THEOREM TypeCorrect == Spec => []TypeOK
<1>1. IInv => TypeOK
  BY DEF IInv
<1>. QED  BY <1>1, Inductive, PTL

\* Searching only the tail of the buffer finds the end mark whenever the whole
\* buffer has it, for every stream and every read limit (hasChunkedEnd).
THEOREM WindowIsEnough == Spec => []WindowSuffices
<1>1. IInv => WindowSuffices
  BY DEF IInv
<1>. QED  BY <1>1, Inductive, PTL

\* However a well-formed request, behind which nothing is sent, is cut into recv() calls
\* and into chunks, the body that processRequest hands on is the one its client meant
\* (unchunkBody).
THEOREM BodyArrives == Spec => []BodyIsIntended
<1>1. IInv => BodyIsIntended
  BY DEF IInv
<1>. QED  BY <1>1, Inductive, PTL

\* A well-formed request is answered 413 exactly when its body is over the limit,
\* whether it was announced or sent in chunks (isBodyTooLarge).
THEOREM LimitHolds == Spec => []LimitEnforced
<1>1. IInv => LimitEnforced
  BY DEF IInv
<1>. QED  BY <1>1, Inductive, PTL

=============================================================================
