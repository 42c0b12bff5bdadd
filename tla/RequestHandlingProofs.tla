----------------------- MODULE RequestHandlingProofs -----------------------
(***************************************************************************)
(* For every configuration, every set of files and every request: each     *)
(* request is carried out at one moment (module Site), whatever others do  *)
(* to the files between the server's calls; a request line with single     *)
(* spaces is held to the limit of its route; no path that climbs above     *)
(* where the URL starts is followed; and what is stored of a form whose    *)
(* first part is a file is what the browser meant.                         *)
(*                                                                         *)
(* The invariant says what the server is about while it looks at the disk: *)
(* in every step of a request the file at hand is the one the request asks *)
(* for.  The rest are facts about texts: where a path is cut and how high  *)
(* it has climbed, where the pieces of a form are found.                   *)
(***************************************************************************)
EXTENDS RequestHandling, FiniteSetTheorems, SequenceTheorems, WellFoundedInduction, TLAPS

-----------------------------------------------------------------------------
(* Numbers and sequences.                                                  *)

\* FirstOf finds the least of any numbers.
LEMMA LeastNumber ==
    ASSUME NEW T, T \subseteq Nat, T # {}
    PROVE  FirstOf(T) \in T /\ \A j \in T : FirstOf(T) <= j
<1>. DEFINE Less == OpToRel(<, Nat)
<1>1. \A a, b \in Nat : <<a, b>> \in Less <=> a < b
  BY DEF OpToRel
<1>2. IsWellFoundedOn(Less, Nat)
  BY NatLessThanWellFounded
<1>. HIDE DEF Less
<1>3. PICK i \in T : \A j \in T : ~ (<<j, i>> \in Less)
  BY <1>2, WFMin
<1>4. ASSUME NEW j \in T PROVE i <= j
  <2>1. i \in Nat /\ j \in Nat /\ ~ (j < i)
    BY <1>1, <1>3
  <2>. QED  BY <2>1
<1>. QED  BY <1>4 DEF FirstOf

\* FirstOf is the least number, whichever way it was found.
LEMMA LeastIsFirst ==
    ASSUME NEW T, T \subseteq Nat, NEW i \in T, \A j \in T : i <= j
    PROVE  FirstOf(T) = i
<1>1. FirstOf(T) \in T /\ FirstOf(T) <= i
  BY LeastNumber
<1>2. i <= FirstOf(T) /\ FirstOf(T) \in Nat /\ i \in Nat
  BY <1>1
<1>. QED  BY <1>1, <1>2

\* t behind s, of which there are n.
IsJoined(joined, s, n, t, m) ==
    /\ Len(joined) = n + m
    /\ \A i \in 1 .. n : joined[i] = s[i]
    /\ \A i \in 1 .. m : joined[n + i] = t[i]

\* A joined text has the first and then the second.
LEMMA Joined ==
    ASSUME NEW S, NEW s \in Seq(S), NEW t \in Seq(S)
    PROVE  s \o t \in Seq(S) /\ IsJoined(s \o t, s, Len(s), t, Len(t))
BY DEF IsJoined

\* A text may be one piece.
LEMMA OfOne == ASSUME NEW S, NEW x \in S PROVE <<x>> \in Seq(S)
<1>1. <<x>> = [i \in 1 .. 1 |-> x]
  OBVIOUS
<1>. QED  BY <1>1, IsASeq

-----------------------------------------------------------------------------
(* Configurations.                                                         *)

\* A path is served by a block that is in the file, or by none.
LEMMA BlockFound ==
    ASSUME NEW path
    PROVE  \/ FindLocation(config, path) = NoLocation
           \/ FindLocation(config, path) \in Range(config.locations)
<1>. DEFINE fits == {i \in DOMAIN config.locations :
                       IsPrefix(config.locations[i].path, path)}
<1>1. CASE fits = {}
  BY <1>1 DEF FindLocation
<1>2. CASE fits # {}
  <2>1. fits \subseteq Nat
    BY SiteAssumption DEF IsText
  <2>2. FirstOf(fits) \in fits
    BY <1>2, <2>1, LeastNumber
  <2>3. config.locations[FirstOf(fits)] \in Range(config.locations)
    BY <2>2 DEF Range
  <2>. QED  BY <1>2, <2>3 DEF FindLocation
<1>. QED  BY <1>1, <1>2

\* The limit is the one of the block that serves the path.
LEMMA LimitOfBlock ==
    ASSUME NEW path
    PROVE  LimitOf(config, path)
             = IF FindLocation(config, path).limit = 0 THEN config.limit
               ELSE FindLocation(config, path).limit
BY DEF LimitOf, FindLocation, NoLocation, NewLocation

\* A path without a "?" begins a URL exactly when it begins the URL up to its query.
LEMMA QueryIsBehind ==
    ASSUME NEW S, NEW start \in Seq(S), "?" \notin Range(start), NEW path \in Seq(S)
    PROVE  IsPrefix(start, WithoutQuery(path)) <=> IsPrefix(start, path)
<1>1. CASE Places(path, "?") = {}
  BY <1>1 DEF WithoutQuery, Find
<1>2. CASE Places(path, "?") # {}
  <2>. DEFINE n == Find(path, "?")
  <2>1. n \in Places(path, "?")
    <3>1. Places(path, "?") \subseteq Nat
      BY DEF Places
    <3>. QED  BY <1>2, <3>1, LeastNumber DEF Find, FirstOf
  <2>2. n \in 1 .. Len(path) /\ path[n] = "?"
    BY <2>1 DEF Places
  <2>3. WithoutQuery(path) = SubSeq(path, 1, n - 1)
    BY <2>2 DEF WithoutQuery
  <2>. HIDE DEF n
  <2>4. ASSUME Len(start) <= n - 1
        PROVE  SubSeq(SubSeq(path, 1, n - 1), 1, Len(start)) = SubSeq(path, 1, Len(start))
    BY <2>2, <2>4
  <2>5. ASSUME IsPrefix(start, path), ~ (Len(start) <= n - 1) PROVE FALSE
    <3>1. n \in 1 .. Len(start)
      BY <2>2, <2>5
    <3>2. start[n] = path[n]
      BY <2>2, <2>5, <3>1 DEF IsPrefix
    <3>. QED  BY <2>2, <3>1, <3>2 DEF Range
  <2>6. Len(SubSeq(path, 1, n - 1)) = n - 1 /\ n - 1 <= Len(path)
    BY <2>2
  <2>. QED  BY <2>2, <2>3, <2>4, <2>5, <2>6 DEF IsPrefix
<1>. QED  BY <1>1, <1>2

\* What is in front of the query is a path.
LEMMA QueryIsCut == ASSUME NEW S, NEW path \in Seq(S) PROVE WithoutQuery(path) \in Seq(S)
<1>1. CASE Places(path, "?") = {}
  BY <1>1 DEF WithoutQuery, Find
<1>2. CASE Places(path, "?") # {}
  <2>. DEFINE n == Find(path, "?")
  <2>1. n \in Places(path, "?")
    <3>1. Places(path, "?") \subseteq Nat
      BY DEF Places
    <3>. QED  BY <1>2, <3>1, LeastNumber DEF Find, FirstOf
  <2>2. n \in 1 .. Len(path)
    BY <2>1 DEF Places
  <2>3. WithoutQuery(path) = SubSeq(path, 1, n - 1)
    BY <2>2 DEF WithoutQuery
  <2>. HIDE DEF n
  <2>. QED  BY <2>2, <2>3
<1>. QED  BY <1>1, <1>2

\* So the block of a script is the one its whole URL would be served by.
LEMMA BlockOfScript ==
    ASSUME NEW r \in Request
    PROVE  FindLocation(config, WithoutQuery(r.path)) = FindLocation(config, r.path)
<1>1. ASSUME NEW i \in DOMAIN config.locations
      PROVE  IsPrefix(config.locations[i].path, WithoutQuery(r.path))
               <=> IsPrefix(config.locations[i].path, r.path)
  <2>. DEFINE start == config.locations[i].path
              S == Range(start) \cup Range(r.path)
  <2>1. /\ start \in Seq(Range(start)) /\ "?" \notin Range(start)
        /\ r.path \in Seq(Range(r.path))
    BY SiteAssumption DEF IsText, Range
  <2>. HIDE DEF start
  <2>2. start \in Seq(S) /\ r.path \in Seq(S)
    BY <2>1, SeqMonotonic
  <2>3. IsPrefix(start, WithoutQuery(r.path)) <=> IsPrefix(start, r.path)
    BY <2>1, <2>2, QueryIsBehind
  <2>. QED  BY <2>3 DEF start
<1>. QED  BY <1>1 DEF FindLocation

\* The file of a path that leads to a directory is that directory's index, or the
\* directory itself.
LEMMA IndexOfDirectory ==
    ASSUME NEW path
    PROVE  LET location == FindLocation(config, path)
               directory == buildDirPath(config, path)
           IN  \/ buildFilePath(config, path) = directory
               \/ buildFilePath(config, path)
                    = directory \o <<"/">> \o IndexOf(config, location)
<1>. DEFINE location == FindLocation(config, path)
            root == RootOf(config, location)
            index == IndexOf(config, location)
<1>1. root \in Seq(Range(root)) /\ index \in Seq(Range(index))
  BY BlockFound, SiteAssumption DEF IsText, RootOf, IndexOf, Setting, NoLocation, NewLocation
<1>. HIDE DEF root, index
<1>2. CASE Relative(location, path) \in {<<>>, <<"/">>}
  <2>. DEFINE S == Range(root) \cup {"/"} \cup Range(index)
  <2>1. root \in Seq(S) /\ index \in Seq(S)
    BY <1>1, SeqMonotonic
  <2>2. <<"/">> \in Seq(S)
    BY OfOne
  <2>3. root \o <<>> = root /\ root \o (<<"/">> \o index) = (root \o <<"/">>) \o index
    BY <2>1, <2>2, ConcatEmptySeq, ConcatAssociative
  <2>. QED  BY <1>2, <2>3 DEF buildFilePath, buildDirPath, root, index
<1>3. CASE Relative(location, path) \notin {<<>>, <<"/">>}
  BY <1>3 DEF buildFilePath, buildDirPath
<1>. QED  BY <1>2, <1>3

-----------------------------------------------------------------------------
(* Paths that climb.  Depths goes through the segments one by one; it is    *)
(* compared with how many of them so far are names, and how many parents.   *)

\* The first k of some segments that are of a kind.
FirstOfKind(segments, k, kind) == {i \in 1 .. k : segments[i] \in kind}
Names(segments) == Range(segments) \ (Nothing \cup {Parent})
Height(segments, k) ==
    Cardinality(FirstOfKind(segments, k, Names(segments)))
    - Cardinality(FirstOfKind(segments, k, {Parent}))

\* A path has finitely many parts.
LEMMA SegmentsAreCounted ==
    ASSUME NEW S, NEW path \in Seq(S)
    PROVE  Len(Segments(path)) \in Nat /\ DOMAIN Segments(path) = 1 .. Len(Segments(path))
<1>. DEFINE slashes == Places(path, "/")
            n == Cardinality(slashes) + 1
<1>1. IsFiniteSet(DOMAIN path)
  <2>1. DOMAIN path = 1 .. Len(path) /\ Len(path) \in Int
    OBVIOUS
  <2>. QED  BY <2>1, FS_Interval
<1>2. slashes \in SUBSET DOMAIN path
  BY DEF Places
<1>3. IsFiniteSet(slashes)
  BY <1>1, <1>2, FS_Subset
<1>4. n \in Nat
  BY <1>3, FS_CardinalityType
<1>. DEFINE segments == Segments(path)
<1>5. segments = [k \in 1 .. n |-> segments[k]]
  BY DEF Segments
<1>. HIDE DEF segments, n
<1>6. Len(segments) = n /\ DOMAIN segments = 1 .. n
  <2>1. segments \in [1 .. n -> {segments[k] : k \in 1 .. n}]
    BY <1>5
  <2>2. segments \in Seq({segments[k] : k \in 1 .. n})
    BY <1>4, <2>1
  <2>. QED  BY <1>4, <1>5, <2>2
<1>. QED  BY <1>4, <1>6 DEF segments

\* One part more is counted once.
LEMMA OneMore ==
    ASSUME NEW segments, NEW kind, NEW k \in Nat
    PROVE  /\ IsFiniteSet(FirstOfKind(segments, k, kind))
           /\ Cardinality(FirstOfKind(segments, k, kind)) \in Nat
           /\ Cardinality(FirstOfKind(segments, k + 1, kind))
                = Cardinality(FirstOfKind(segments, k, kind))
                  + IF segments[k + 1] \in kind THEN 1 ELSE 0
<1>. DEFINE first == FirstOfKind(segments, k, kind)
            next == FirstOfKind(segments, k + 1, kind)
<1>1. IsFiniteSet(1 .. k)
  BY FS_Interval
<1>2. first \in SUBSET (1 .. k)
  BY DEF FirstOfKind
<1>3. IsFiniteSet(first) /\ Cardinality(first) \in Nat
  BY <1>1, <1>2, FS_Subset, FS_CardinalityType
<1>4. /\ k + 1 \notin first
      /\ next = IF segments[k + 1] \in kind THEN first \cup {k + 1} ELSE first
  BY DEF FirstOfKind
<1>. HIDE DEF first, next
<1>5. Cardinality(first \cup {k + 1}) = Cardinality(first) + 1
  BY <1>3, <1>4, FS_AddElement
<1>6. Cardinality(next) = Cardinality(first) + IF segments[k + 1] \in kind THEN 1 ELSE 0
  BY <1>3, <1>4, <1>5
<1>. QED  BY <1>3, <1>6 DEF first, next

\* Before its first part a path is where it starts.
LEMMA NoHeight == ASSUME NEW segments PROVE Height(segments, 0) = 0
<1>1. \A kind : FirstOfKind(segments, 0, kind) = {}
  BY DEF FirstOfKind
<1>2. \A kind : Cardinality(FirstOfKind(segments, 0, kind)) = 0
  BY <1>1, FS_EmptySet
<1>. QED  BY <1>2 DEF Height

\* One segment changes the height as it changes the depth.
LEMMA OneSegment ==
    ASSUME NEW segments, NEW k \in Nat \ {0}, k \in DOMAIN segments
    PROVE  /\ Height(segments, k - 1) \in Int
           /\ Height(segments, k)
                = CASE segments[k] \in Nothing -> Height(segments, k - 1)
                    [] segments[k] = Parent -> Height(segments, k - 1) - 1
                    [] OTHER -> Height(segments, k - 1) + 1
<1>. DEFINE Up(n) == Cardinality(FirstOfKind(segments, n, Names(segments)))
            Down(n) == Cardinality(FirstOfKind(segments, n, {Parent}))
<1>1. k - 1 \in Nat /\ (k - 1) + 1 = k
  OBVIOUS
<1>2. /\ Up(k - 1) \in Nat
      /\ Up(k) = Up(k - 1) + IF segments[k] \in Names(segments) THEN 1 ELSE 0
  BY <1>1, OneMore
<1>3. /\ Down(k - 1) \in Nat
      /\ Down(k) = Down(k - 1) + IF segments[k] \in {Parent} THEN 1 ELSE 0
  BY <1>1, OneMore
<1>4. \A n : Height(segments, n) = Up(n) - Down(n)
  BY DEF Height
<1>. HIDE DEF Up, Down
<1>5. Parent \notin Nothing
  BY DEF Parent, Nothing
<1>6. segments[k] \in Names(segments) <=> segments[k] \notin Nothing /\ segments[k] # Parent
  BY DEF Names, Range
<1>7. CASE segments[k] \in Nothing
  BY <1>2, <1>3, <1>4, <1>5, <1>6, <1>7
<1>8. CASE segments[k] = Parent
  BY <1>2, <1>3, <1>4, <1>5, <1>6, <1>8
<1>9. CASE segments[k] \notin Nothing /\ segments[k] # Parent
  BY <1>2, <1>3, <1>4, <1>6, <1>9
<1>. QED  BY <1>7, <1>8, <1>9

\* The depth after a segment, given the one before it.
Deeper(segment, depth) ==
    CASE segment \in Nothing -> depth
      [] segment = Parent -> depth - 1
      [] OTHER -> depth + 1
AreDepths(f, segments) ==
    f = [k \in 0 .. Len(segments) |-> IF k = 0 THEN 0 ELSE Deeper(segments[k], f[k - 1])]

\* Heights are the depths that isPathSafe counts, and there are no others.
LEMMA DepthIsHeight ==
    ASSUME NEW S, NEW path \in Seq(S)
    PROVE  \A k \in 1 .. Len(Segments(path)) : Depths(path)[k] = Height(Segments(path), k)
<1>. DEFINE segments == Segments(path)
            n == Len(segments)
            heights == [k \in 0 .. n |-> Height(segments, k)]
            Is(f) == f = [k \in 0 .. n |->
                            IF k = 0 THEN 0
                            ELSE CASE segments[k] \in Nothing -> f[k - 1]
                                   [] segments[k] = Parent -> f[k - 1] - 1
                                   [] OTHER -> f[k - 1] + 1]
            depths == CHOOSE f : Is(f)
<1>1. n \in Nat /\ DOMAIN segments = 1 .. n
  BY SegmentsAreCounted
<1>2. Depths(path) = depths
  BY DEF Depths
<1>3. \A f : Is(f) <=> AreDepths(f, segments)
  BY DEF AreDepths, Deeper
<1>. HIDE DEF segments, n, Is
<1>4. \A k \in 1 .. n : Height(segments, k) = Deeper(segments[k], Height(segments, k - 1))
  BY <1>1, OneSegment DEF Deeper
<1>5. Height(segments, 0) = 0
  BY NoHeight
<1>6. AreDepths(heights, segments)
  <2>1. \A k \in 1 .. n : heights[k - 1] = Height(segments, k - 1)
    BY <1>1
  <2>. QED  BY <1>1, <1>4, <1>5, <2>1 DEF AreDepths, n
<1>7. AreDepths(depths, segments)
  BY <1>3, <1>6
<1>. HIDE DEF depths
<1>. DEFINE others == {k \in 0 .. n : depths[k] # Height(segments, k)}
<1>8. others = {}
  <2>. SUFFICES ASSUME others # {} PROVE FALSE
    OBVIOUS
  <2>1. others \subseteq Nat
    BY <1>1
  <2>2. PICK k \in others : \A j \in others : k <= j
    BY <2>1, LeastNumber
  <2>3. depths[0] = 0
    BY <1>1, <1>7 DEF AreDepths, n
  <2>4. k \in 1 .. n
    BY <1>1, <1>5, <2>2, <2>3
  <2>5. k - 1 \notin others /\ k - 1 \in 0 .. n
    BY <1>1, <2>2, <2>4
  <2>6. depths[k] = Deeper(segments[k], depths[k - 1])
    <3>1. k \in 0 .. n /\ k # 0
      BY <1>1, <2>4
    <3>. QED  BY <1>7, <3>1 DEF AreDepths, n
  <2>. QED  BY <1>4, <2>2, <2>4, <2>5, <2>6
<1>. QED  BY <1>1, <1>2, <1>8 DEF segments, n

\* What is refused is what climbs.
LEMMA SafeIffNotClimbing ==
    ASSUME NEW S, NEW path \in Seq(S) PROVE isPathSafe(path) <=> ~Climbs(path)
<1>. DEFINE segments == Segments(path)
            Up(k) == Cardinality(FirstOfKind(segments, k, Names(segments)))
            Down(k) == Cardinality(FirstOfKind(segments, k, {Parent}))
<1>1. Len(segments) \in Nat /\ DOMAIN segments = 1 .. Len(segments)
  BY SegmentsAreCounted
<1>2. isPathSafe(path) <=> \A k \in 1 .. Len(segments) : Height(segments, k) >= 0
  BY DepthIsHeight DEF isPathSafe
<1>3. Climbs(path) <=> \E k \in DOMAIN segments : Down(k) > Up(k)
  BY DEF Climbs, FirstOfKind, Names
<1>4. \A k \in 1 .. Len(segments) :
        Height(segments, k) = Up(k) - Down(k) /\ Up(k) \in Nat /\ Down(k) \in Nat
  BY <1>1, OneMore DEF Height
<1>. HIDE DEF segments, Up, Down
<1>5. \A k \in 1 .. Len(segments) : Height(segments, k) >= 0 <=> ~ (Down(k) > Up(k))
  BY <1>4
<1>. QED  BY <1>1, <1>2, <1>3, <1>5

-----------------------------------------------------------------------------
(* Uploads.                                                                *)

\* Where the pieces of a form are whose first part has a certain header.
Begins(body, header, data) ==
    LET h == Len(header)
        d == Len(data)
    IN  /\ h + d + 6 <= Len(body)
        /\ body[1] = Boundary /\ body[2] = Crlf
        /\ \A i \in 1 .. h : body[2 + i] = header[i]
        /\ body[h + 3] = Crlf /\ body[h + 4] = Crlf
        /\ \A i \in 1 .. d : body[h + 4 + i] = data[i]
        /\ body[h + d + 5] = Crlf /\ body[h + d + 6] = Boundary

\* Where every piece of the first part stands in the body.
LEMMA Layout ==
    ASSUME NEW S, {Boundary, Crlf} \subseteq S, NEW header \in Seq(S), NEW data \in Seq(S),
           NEW body \in Seq(S),
           IsPrefix(<<Boundary, Crlf>> \o header \o <<Crlf, Crlf>> \o data \o <<Crlf>>
                    \o <<Boundary>>, body)
    PROVE  Begins(body, header, data)
<1>. DEFINE h == Len(header)
            d == Len(data)
            s1 == <<Boundary, Crlf>> \o header
            s2 == s1 \o <<Crlf, Crlf>>
            s3 == s2 \o data
            s4 == s3 \o <<Crlf>>
            s5 == s4 \o <<Boundary>>
            Header(s) == /\ s[1] = Boundary /\ s[2] = Crlf
                         /\ \A i \in 1 .. h : s[2 + i] = header[i]
            Break(s) == s[h + 3] = Crlf /\ s[h + 4] = Crlf
            Data(s) == \A i \in 1 .. d : s[h + 4 + i] = data[i]
<1>1. /\ <<Boundary, Crlf>> \in Seq(S) /\ Len(<<Boundary, Crlf>>) = 2
      /\ <<Boundary, Crlf>>[1] = Boundary /\ <<Boundary, Crlf>>[2] = Crlf
      /\ <<Crlf, Crlf>> \in Seq(S) /\ Len(<<Crlf, Crlf>>) = 2
      /\ <<Crlf, Crlf>>[1] = Crlf /\ <<Crlf, Crlf>>[2] = Crlf
      /\ <<Crlf>> \in Seq(S) /\ Len(<<Crlf>>) = 1 /\ <<Crlf>>[1] = Crlf
      /\ <<Boundary>> \in Seq(S) /\ Len(<<Boundary>>) = 1 /\ <<Boundary>>[1] = Boundary
      /\ h \in Nat /\ d \in Nat
  OBVIOUS
<1>2. s1 \in Seq(S) /\ IsJoined(s1, <<Boundary, Crlf>>, 2, header, h)
  BY <1>1, Joined
<1>3. s1 \in Seq(S) /\ Len(s1) = h + 2 /\ Header(s1)
  BY <1>1, <1>2 DEF IsJoined
<1>. HIDE DEF s1, h, d
<1>4. s2 \in Seq(S) /\ IsJoined(s2, s1, h + 2, <<Crlf, Crlf>>, 2)
  <2>1. IsJoined(s2, s1, Len(s1), <<Crlf, Crlf>>, Len(<<Crlf, Crlf>>)) /\ s2 \in Seq(S)
    BY <1>1, <1>3, Joined
  <2>2. Len(s1) = h + 2 /\ Len(<<Crlf, Crlf>>) = 2
    BY <1>1, <1>3
  <2>. QED  BY ONLY <2>1, <2>2
<1>. HIDE DEF s2
<1>5. s2 \in Seq(S) /\ Len(s2) = h + 4 /\ Header(s2) /\ Break(s2)
  <2>1. s2[(h + 2) + 1] = Crlf /\ s2[(h + 2) + 2] = Crlf
    BY <1>1, <1>4 DEF IsJoined
  <2>2. (h + 2) + 1 = h + 3 /\ (h + 2) + 2 = h + 4 /\ 1 \in 1 .. h + 2 /\ 2 \in 1 .. h + 2
    BY <1>1
  <2>3. \A i \in 1 .. h : 2 + i \in 1 .. h + 2
    BY <1>1
  <2>. QED  BY <1>1, <1>3, <1>4, <2>1, <2>2, <2>3 DEF IsJoined
<1>6. s3 \in Seq(S) /\ IsJoined(s3, s2, h + 4, data, d)
  BY <1>5, Joined DEF d
<1>. HIDE DEF s3
<1>7. /\ 1 \in 1 .. h + 4 /\ 2 \in 1 .. h + 4 /\ h + 3 \in 1 .. h + 4 /\ h + 4 \in 1 .. h + 4
      /\ \A i \in 1 .. h : 2 + i \in 1 .. h + 4
  BY <1>1
<1>8. Header(s3) /\ Break(s3) /\ Data(s3)
  BY <1>5, <1>6, <1>7 DEF IsJoined
<1>9. s4 \in Seq(S) /\ IsJoined(s4, s3, h + 4 + d, <<Crlf>>, 1)
  <2>1. Len(s3) = h + 4 + d
    BY <1>6 DEF IsJoined
  <2>. QED  BY <1>1, <1>6, <2>1, Joined
<1>. HIDE DEF s4
<1>10. s5 \in Seq(S) /\ IsJoined(s5, s4, h + 4 + d + 1, <<Boundary>>, 1)
  <2>1. Len(s4) = h + 4 + d + 1
    BY <1>9 DEF IsJoined
  <2>. QED  BY <1>1, <1>9, <2>1, Joined
<1>11. IsPrefix(s5, body)
  BY DEF s1, s2, s3, s4
<1>. HIDE DEF s5
<1>12. Len(body) \in Nat /\ Len(s5) <= Len(body) /\ \A i \in 1 .. Len(s5) : body[i] = s5[i]
  <2>1. Len(s5) <= Len(body) /\ SubSeq(s5, 1, Len(s5)) = SubSeq(body, 1, Len(s5))
    BY <1>11 DEF IsPrefix
  <2>2. \A i \in 1 .. Len(s5) : SubSeq(s5, 1, Len(s5))[i] = s5[i]
    BY <1>10
  <2>3. \A i \in 1 .. Len(s5) : SubSeq(body, 1, Len(s5))[i] = body[i]
    BY <1>10, <2>1
  <2>. QED  BY <1>10, <2>1, <2>2, <2>3
<1>13. Len(s5) = h + d + 6 /\ \A i \in 1 .. h + 4 + d : body[i] = s3[i]
  <2>1. \A i \in 1 .. h + 4 + d : i \in 1 .. h + 4 + d + 1 /\ i \in 1 .. h + d + 6
    BY <1>1
  <2>2. Len(s5) = h + d + 6
    BY <1>1, <1>10 DEF IsJoined
  <2>. QED  BY <1>9, <1>10, <1>12, <2>1, <2>2 DEF IsJoined
<1>14. body[h + d + 5] = Crlf /\ body[h + d + 6] = Boundary
  <2>1. /\ h + d + 5 = (h + 4 + d) + 1 /\ h + d + 6 = (h + 4 + d + 1) + 1
        /\ h + d + 5 \in 1 .. h + 4 + d + 1 /\ h + d + 5 \in 1 .. h + d + 6
        /\ h + d + 6 \in 1 .. h + d + 6 /\ 1 \in 1 .. 1
    BY <1>1
  <2>2. s4[(h + 4 + d) + 1] = Crlf /\ s5[(h + 4 + d + 1) + 1] = Boundary
    BY <1>1, <1>9, <1>10, <2>1 DEF IsJoined
  <2>. QED  BY <1>10, <1>12, <1>13, <2>1, <2>2 DEF IsJoined
<1>15. Header(body) /\ Break(body) /\ Data(body)
  <2>1. \A i \in 1 .. h + 4 : i \in 1 .. h + 4 + d
    BY <1>1
  <2>2. \A i \in 1 .. d : h + 4 + i \in 1 .. h + 4 + d
    BY <1>1
  <2>. QED  BY <1>7, <1>8, <1>13, <2>1, <2>2
<1>. QED  BY <1>12, <1>13, <1>14, <1>15 DEF Begins, h, d

Found(body, header, data) ==
    LET h == Len(header)
        d == Len(data)
    IN  /\ FindFrom(body, Boundary, 1) = 1 /\ HeaderEnd(body, 2) = h + 3
        /\ FindFrom(body, Boundary, h + 5) = h + d + 6
        /\ SubSeq(body, 2, h + 2) = <<Crlf>> \o header
        /\ DataBefore(body, h + 5, h + d + 6) = data

\* Where extractMultipart finds the header and the next boundary, if the header has no
\* line break at its ends, nor two in a row, and the data no boundary.
LEMMA FoundInBody ==
    ASSUME NEW S, NEW header \in Seq(S), NEW data \in Seq(S), NEW body \in Seq(S),
           Begins(body, header, data), header # <<>>,
           Crlf \notin Range(header), Boundary \notin Range(data)
    PROVE  Found(body, header, data)
<1>. DEFINE h == Len(header)
            d == Len(data)
<1>1. h \in Nat \ {0} /\ d \in Nat /\ Len(body) \in Nat /\ h + d + 6 <= Len(body)
  BY DEF Begins
<1>2. /\ body[1] = Boundary /\ body[2] = Crlf
      /\ \A i \in 1 .. h : body[2 + i] = header[i]
      /\ body[h + 3] = Crlf /\ body[h + 4] = Crlf
      /\ \A i \in 1 .. d : body[h + 4 + i] = data[i]
      /\ body[h + d + 5] = Crlf /\ body[h + d + 6] = Boundary
  BY DEF Begins
<1>3. /\ \A i \in 1 .. h : header[i] # Crlf
      /\ \A i \in 1 .. d : data[i] # Boundary
  BY DEF Range
<1>. HIDE DEF h, d
<1>4. FindFrom(body, Boundary, 1) = 1
  <2>. DEFINE found == {i \in 1 .. Len(body) : body[i] = Boundary}
  <2>1. found \subseteq Nat /\ 1 \in found /\ \A j \in found : 1 <= j
    BY <1>1, <1>2
  <2>2. FirstOf(found) = 1
    BY <2>1, LeastIsFirst
  <2>. QED  BY <2>1, <2>2 DEF FindFrom
<1>5. HeaderEnd(body, 2) = h + 3
  <2>. DEFINE found == {i \in 2 .. Len(body) - 1 : body[i] = Crlf /\ body[i + 1] = Crlf}
  <2>1. found \subseteq Nat /\ h + 3 \in found
    BY <1>1, <1>2
  <2>2. ASSUME NEW j \in found, ~ (h + 3 <= j) PROVE FALSE
    <3>1. j \in 2 .. h + 2 /\ body[j] = Crlf /\ body[j + 1] = Crlf
      BY <1>1, <2>2
    <3>2. CASE j = 2
      <4>1. 1 \in 1 .. h /\ j + 1 = 2 + 1
        BY <1>1, <3>2
      <4>. QED  BY <1>2, <1>3, <3>1, <4>1
    <3>3. CASE j # 2
      <4>1. j - 2 \in 1 .. h /\ 2 + (j - 2) = j
        BY <1>1, <3>1, <3>3
      <4>2. body[2 + (j - 2)] = header[j - 2] /\ header[j - 2] # Crlf
        BY <1>2, <1>3, <4>1
      <4>. QED  BY <3>1, <4>1, <4>2
    <3>. QED  BY <3>2, <3>3
  <2>3. FirstOf(found) = h + 3
    BY <2>1, <2>2, LeastIsFirst
  <2>. QED  BY <2>1, <2>3 DEF HeaderEnd
<1>6. FindFrom(body, Boundary, h + 5) = h + d + 6
  <2>. DEFINE found == {i \in h + 5 .. Len(body) : body[i] = Boundary}
  <2>1. found \subseteq Nat /\ h + d + 6 \in found
    BY <1>1, <1>2
  <2>2. ASSUME NEW j \in found, ~ (h + d + 6 <= j) PROVE FALSE
    <3>1. j \in h + 5 .. h + d + 5 /\ body[j] = Boundary
      BY <1>1, <2>2
    <3>2. CASE j = h + d + 5
      BY <1>2, <3>1, <3>2 DEF Boundary, Crlf
    <3>3. CASE j # h + d + 5
      <4>1. j - h - 4 \in 1 .. d /\ h + 4 + (j - h - 4) = j
        BY <1>1, <3>1, <3>3
      <4>2. body[h + 4 + (j - h - 4)] = data[j - h - 4] /\ data[j - h - 4] # Boundary
        BY <1>2, <1>3, <4>1
      <4>. QED  BY <3>1, <4>1, <4>2
    <3>. QED  BY <3>2, <3>3
  <2>3. FirstOf(found) = h + d + 6
    BY <2>1, <2>2, LeastIsFirst
  <2>. QED  BY <2>1, <2>3 DEF FindFrom
<1>7. SubSeq(body, 2, h + 2) = <<Crlf>> \o header
  <2>. DEFINE left == SubSeq(body, 2, h + 2)
              right == <<Crlf>> \o header
  <2>. DEFINE T == S \cup {Crlf}
  <2>0. left \in Seq(S) /\ header \in Seq(T) /\ <<Crlf>> \in Seq(T) /\ h = Len(header)
        /\ Len(<<Crlf>>) = 1 /\ <<Crlf>>[1] = Crlf
    BY <1>1, SeqMonotonic, OfOne DEF h
  <2>1. /\ left \in Seq(T) /\ Len(left) = h + 1
        /\ \A i \in 1 .. h + 1 : left[i] = body[i + 1]
    BY <1>1, <2>0, SeqMonotonic
  <2>2. /\ Len(right) = 1 + h /\ right \in Seq(T)
        /\ \A i \in 1 .. 1 : right[i] = <<Crlf>>[i]
        /\ \A i \in 1 .. h : right[1 + i] = header[i]
    <3>1. right \in Seq(T) /\ IsJoined(right, <<Crlf>>, 1, header, h)
      BY <2>0, Joined
    <3>. QED  BY <3>1 DEF IsJoined
  <2>. HIDE DEF left, right
  <2>3. ASSUME NEW i \in 1 .. h + 1 PROVE left[i] = right[i]
    <3>1. CASE i = 1
      <4>1. left[i] = body[i + 1] /\ i + 1 = 2 /\ 1 \in 1 .. 1
        BY <2>1, <3>1
      <4>. QED  BY <1>2, <2>0, <2>2, <3>1, <4>1
    <3>2. CASE i # 1
      <4>1. i - 1 \in 1 .. h /\ 1 + (i - 1) = i /\ 2 + (i - 1) = i + 1
        BY <1>1, <3>2
      <4>2. right[1 + (i - 1)] = header[i - 1] /\ body[2 + (i - 1)] = header[i - 1]
        BY <1>2, <2>2, <4>1
      <4>. QED  BY <2>1, <4>1, <4>2
    <3>. QED  BY <3>1, <3>2
  <2>4. Len(left) = Len(right) /\ \A i \in 1 .. Len(left) : left[i] = right[i]
    <3>1. Len(left) = h + 1 /\ Len(right) = h + 1
      BY <1>1, <2>1, <2>2
    <3>. QED  BY <2>3, <3>1
  <2>5. left = right
    BY <2>1, <2>2, <2>4, SeqEqual
  <2>. QED  BY <2>5 DEF left, right
<1>8. DataBefore(body, h + 5, h + d + 6) = data
  <2>. DEFINE taken == SubSeq(body, h + 5, h + d + 4)
  <2>1. DataBefore(body, h + 5, h + d + 6) = taken
    BY <1>1, <1>2 DEF DataBefore
  <2>2. /\ taken \in Seq(S) /\ Len(taken) = d
        /\ \A i \in 1 .. d : taken[i] = body[h + 4 + i]
    BY <1>1
  <2>. HIDE DEF taken
  <2>3. taken = data
    BY <1>2, <2>2, SeqEqual DEF d
  <2>. QED  BY <2>1, <2>3
<1>. QED  BY <1>4, <1>5, <1>6, <1>7, <1>8 DEF Found, h, d

\* The header of a file, and where its name is found behind the line break.
FileHeader(name) == <<Filename>> \o name \o <<Quote>>

\* A name is found between the quotes it was written in.
LEMMA NameInHeader ==
    ASSUME NEW S, {Crlf, Filename, Quote} \subseteq S, NEW name \in Seq(S),
           {Crlf, Quote} \cap Range(name) = {}
    PROVE  LET line == <<Crlf>> \o FileHeader(name)
           IN  /\ FileHeader(name) \in Seq(S) /\ FileHeader(name) # <<>>
               /\ Crlf \notin Range(FileHeader(name))
               /\ FindFrom(line, Filename, 1) = 2
               /\ FindFrom(line, Quote, 3) = Len(name) + 3
               /\ SubSeq(line, 3, Len(name) + 2) = name
<1>. DEFINE n == Len(name)
            s1 == <<Filename>> \o name
            header == s1 \o <<Quote>>
            line == <<Crlf>> \o header
<1>1. /\ <<Filename>> \in Seq(S) /\ Len(<<Filename>>) = 1 /\ <<Filename>>[1] = Filename
      /\ <<Quote>> \in Seq(S) /\ Len(<<Quote>>) = 1 /\ <<Quote>>[1] = Quote
      /\ <<Crlf>> \in Seq(S) /\ Len(<<Crlf>>) = 1 /\ <<Crlf>>[1] = Crlf
      /\ n \in Nat /\ \A i \in 1 .. n : name[i] # Crlf /\ name[i] # Quote
  BY DEF Range
<1>2. s1 \in Seq(S) /\ IsJoined(s1, <<Filename>>, 1, name, n)
  BY <1>1, Joined
<1>3. FileHeader(name) = header
  BY DEF FileHeader
<1>. HIDE DEF s1, n
<1>4. header \in Seq(S) /\ IsJoined(header, s1, 1 + n, <<Quote>>, 1)
  <2>1. Len(s1) = 1 + n
    BY <1>2 DEF IsJoined
  <2>. QED  BY <1>1, <1>2, <2>1, Joined
<1>. HIDE DEF header
<1>5. line \in Seq(S) /\ IsJoined(line, <<Crlf>>, 1, header, n + 2)
  <2>1. Len(header) = n + 2
    BY <1>1, <1>4 DEF IsJoined
  <2>. QED  BY <1>1, <1>4, <2>1, Joined
<1>. HIDE DEF line
<1>6. /\ Len(header) = n + 2 /\ header[1] = Filename /\ header[n + 2] = Quote
      /\ \A i \in 1 .. n : header[1 + i] = name[i]
  <2>1. s1[1] = Filename /\ \A i \in 1 .. n : s1[1 + i] = name[i]
    BY <1>1, <1>2 DEF IsJoined
  <2>2. /\ 1 \in 1 .. 1 + n /\ (1 + n) + 1 = n + 2 /\ 1 \in 1 .. 1
        /\ \A i \in 1 .. n : 1 + i \in 1 .. 1 + n
    BY <1>1
  <2>3. header[(1 + n) + 1] = Quote
    BY <1>1, <1>4, <2>2 DEF IsJoined
  <2>4. header[1] = Filename /\ \A i \in 1 .. n : header[1 + i] = name[i]
    BY <1>4, <2>1, <2>2 DEF IsJoined
  <2>5. Len(header) = n + 2
    BY <1>1, <1>4 DEF IsJoined
  <2>. QED  BY <2>2, <2>3, <2>4, <2>5
<1>7. /\ Len(line) = n + 3 /\ line[1] = Crlf /\ line[2] = Filename /\ line[n + 3] = Quote
      /\ \A i \in 1 .. n : line[2 + i] = name[i]
  <2>1. /\ 1 + 1 = 2 /\ 1 + (n + 2) = n + 3 /\ 1 \in 1 .. 1 /\ 1 \in 1 .. n + 2
        /\ n + 2 \in 1 .. n + 2
        /\ \A i \in 1 .. n : 1 + i \in 1 .. n + 2 /\ 1 + (1 + i) = 2 + i
    BY <1>1
  <2>2. line[1] = Crlf /\ line[1 + 1] = Filename /\ line[1 + (n + 2)] = Quote
    BY <1>1, <1>5, <1>6, <2>1 DEF IsJoined
  <2>3. \A i \in 1 .. n : line[1 + (1 + i)] = name[i]
    BY <1>5, <1>6, <2>1 DEF IsJoined
  <2>4. Len(line) = 1 + (n + 2)
    BY <1>5 DEF IsJoined
  <2>. QED  BY <2>1, <2>2, <2>3, <2>4
<1>8. header # <<>> /\ Crlf \notin Range(header)
  <2>1. ASSUME NEW i \in 1 .. n + 2, header[i] = Crlf PROVE FALSE
    <3>1. CASE i \in {1, n + 2}
      BY <1>6, <2>1, <3>1 DEF Crlf, Filename, Quote
    <3>2. CASE i \notin {1, n + 2}
      <4>1. i - 1 \in 1 .. n /\ 1 + (i - 1) = i
        BY <1>1, <2>1, <3>2
      <4>2. header[1 + (i - 1)] = name[i - 1] /\ name[i - 1] # Crlf
        BY <1>1, <1>6, <4>1
      <4>. QED  BY <2>1, <4>1, <4>2
    <3>. QED  BY <3>1, <3>2
  <2>2. DOMAIN header = 1 .. n + 2
    BY <1>4, <1>6
  <2>. QED  BY <1>1, <1>6, <2>1, <2>2 DEF Range
<1>9. FindFrom(line, Filename, 1) = 2
  <2>. DEFINE found == {i \in 1 .. Len(line) : line[i] = Filename}
  <2>1. found \subseteq Nat /\ 2 \in found
    BY <1>1, <1>7
  <2>2. \A j \in found : 2 <= j
    BY <1>7 DEF Crlf, Filename
  <2>3. FirstOf(found) = 2
    BY <2>1, <2>2, LeastIsFirst
  <2>. QED  BY <2>1, <2>3 DEF FindFrom
<1>10. FindFrom(line, Quote, 3) = n + 3
  <2>. DEFINE found == {i \in 3 .. Len(line) : line[i] = Quote}
  <2>1. found \subseteq Nat /\ n + 3 \in found
    BY <1>1, <1>7
  <2>2. ASSUME NEW j \in found, ~ (n + 3 <= j) PROVE FALSE
    <3>1. j - 2 \in 1 .. n /\ 2 + (j - 2) = j /\ line[j] = Quote
      BY <1>1, <1>7, <2>2
    <3>2. line[2 + (j - 2)] = name[j - 2] /\ name[j - 2] # Quote
      BY <1>1, <1>7, <3>1
    <3>. QED  BY <3>1, <3>2
  <2>3. FirstOf(found) = n + 3
    BY <2>1, <2>2, LeastIsFirst
  <2>. QED  BY <2>1, <2>3 DEF FindFrom
<1>11. SubSeq(line, 3, n + 2) = name
  <2>. DEFINE taken == SubSeq(line, 3, n + 2)
  <2>1. taken \in Seq(S) /\ Len(taken) = n /\ \A i \in 1 .. n : taken[i] = line[2 + i]
    BY <1>1, <1>5, <1>7
  <2>. HIDE DEF taken
  <2>2. taken = name
    BY <1>7, <2>1, SeqEqual DEF n
  <2>. QED  BY <2>2 DEF taken
<1>. QED  BY <1>3, <1>4, <1>8, <1>9, <1>10, <1>11 DEF n, line

\* A field has no name to find.
LEMMA NoNameInField ==
    ASSUME NEW S, "field" \in S
    PROVE  /\ <<"field">> \in Seq(S) /\ <<"field">> # <<>> /\ Crlf \notin Range(<<"field">>)
           /\ FindFrom(<<Crlf>> \o <<"field">>, Filename, 1) = 0
<1>1. Crlf \notin Range(<<"field">>)
  BY DEF Crlf, Range
<1>. DEFINE line == <<Crlf>> \o <<"field">>
<1>2. Len(line) = 2 /\ line[1] = Crlf /\ line[2] = "field"
  OBVIOUS
<1>. HIDE DEF line
<1>3. {i \in 1 .. Len(line) : line[i] = Filename} = {}
  BY <1>2 DEF Crlf, Filename
<1>4. FindFrom(line, Filename, 1) = 0
  BY <1>3 DEF FindFrom
<1>. QED  BY <1>1, <1>4 DEF line

\* What extractMultipart makes of it.
LEMMA FieldFound ==
    ASSUME NEW header, Len(header) \in Nat, NEW data, NEW body, Found(body, header, data),
           FindFrom(<<Crlf>> \o header, Filename, 1) = 0
    PROVE  extractMultipart(body) = {}
<1>. DEFINE h == Len(header)
<1>1. (h + 3) - 1 = h + 2 /\ 1 + 1 = 2
  OBVIOUS
<1>. QED  BY <1>1 DEF extractMultipart, Found

\* The data behind a header with a name are found under that name,
LEMMA FileFound ==
    ASSUME NEW name, Len(name) \in Nat, NEW data, Len(data) \in Nat, NEW body,
           NEW header, Len(header) \in Nat, Found(body, header, data),
           FindFrom(<<Crlf>> \o header, Filename, 1) = 2,
           FindFrom(<<Crlf>> \o header, Quote, 3) = Len(name) + 3,
           SubSeq(<<Crlf>> \o header, 3, Len(name) + 2) = name
    PROVE  extractMultipart(body) = {[name |-> name, data |-> data]}
<1>. DEFINE h == Len(header)
            n == Len(name)
            last == h + Len(data) + 6
            line == <<Crlf>> \o header
<1>1. /\ (h + 3) - 1 = h + 2 /\ 1 + 1 = 2 /\ 2 + 1 = 3 /\ (n + 3) - 1 = n + 2
      /\ (h + 3) + 2 = h + 5 /\ 0 \notin {1, h + 3, 2, n + 3, last}
  OBVIOUS
<1>2. /\ FindFrom(body, Boundary, 1) = 1 /\ HeaderEnd(body, 1 + 1) = h + 3
      /\ SubSeq(body, 1 + 1, (h + 3) - 1) = line
      /\ FindFrom(body, Boundary, (h + 3) + 2) = last
      /\ DataBefore(body, (h + 3) + 2, last) = data
  BY <1>1 DEF Found
<1>3. /\ FindFrom(line, Filename, 1) = 2 /\ FindFrom(line, Quote, 2 + 1) = n + 3
      /\ SubSeq(line, 2 + 1, (n + 3) - 1) = name
  BY <1>1
<1>4. 0 \notin {1, h + 3, 2, n + 3, last}
  BY <1>1
<1>. HIDE DEF h, n, last, line
<1>. QED  BY <1>2, <1>3, <1>4 DEF extractMultipart

\* which is replaced when it is empty or has a path in it.
LEMMA UploadOfFile ==
    ASSUME NEW r, r.form, NEW name, NEW data,
           extractMultipart(r.body) = {[name |-> name, data |-> data]}
    PROVE  Upload(r) = [name |-> IF name = Empty \/ HasSubpath(name) THEN Uploaded ELSE name,
                        data |-> data]
<1>. DEFINE sent == [name |-> name, data |-> data]
<1>1. (CHOOSE f \in {sent} : TRUE) = sent /\ {sent} # {}
  OBVIOUS
<1>2. sent.name = name /\ [sent EXCEPT !.name = Uploaded] = [name |-> Uploaded, data |-> data]
  OBVIOUS
<1>. HIDE DEF sent
<1>3. Upload(r) = IF sent.name = Empty \/ HasSubpath(sent.name)
                  THEN [sent EXCEPT !.name = Uploaded] ELSE sent
  BY <1>1 DEF Upload, sent
<1>. QED  BY <1>2, <1>3 DEF sent

\* A file in a form gets there as it was sent.
LEMMA UploadIsMeant ==
    ASSUME NEW r \in Request, r.form => r.sent # <<>> PROVE Upload(r) = Meant(r)
<1>1. CASE ~r.form
  <2>1. r.sent = <<>>
    BY <1>1, FormAssumption
  <2>. QED  BY <1>1, <2>1 DEF Upload, Meant
<1>2. CASE r.form
  <2>. DEFINE part == r.sent[1]
              body == r.body
              header == IF part.file THEN FileHeader(part.name) ELSE <<"field">>
              S == Range(part.name) \cup Range(part.data) \cup Range(body)
                   \cup {Boundary, Crlf, Filename, Quote, "field"}
  <2>1. Sendable(part) /\ IsPrefix(Sent(part) \o <<Boundary>>, body) /\ r.sent # <<>>
    BY <1>2, FormAssumption
  <2>2. /\ part.name \in Seq(S) /\ part.data \in Seq(S) /\ body \in Seq(S)
        /\ {Boundary, Crlf, Filename, Quote} \subseteq S /\ "field" \in S
    BY <2>1, SiteAssumption, SeqMonotonic DEF Sendable, IsText
  <2>3. /\ {Crlf, Quote} \cap Range(part.name) = {} /\ Boundary \notin Range(part.data)
        /\ part.file \in BOOLEAN
    BY <2>1 DEF Sendable
  <2>4. header \in Seq(S) /\ header # <<>> /\ Crlf \notin Range(header)
    BY <2>2, <2>3, NameInHeader, NoNameInField
  <2>5. Sent(part) \o <<Boundary>>
          = <<Boundary, Crlf>> \o header \o <<Crlf, Crlf>> \o part.data \o <<Crlf>>
            \o <<Boundary>>
    BY DEF Sent, FileHeader
  <2>. HIDE DEF S, header, body, part
  <2>6. Begins(body, header, part.data)
    BY <2>1, <2>2, <2>4, <2>5, Layout
  <2>7. Found(body, header, part.data)
    BY <2>2, <2>3, <2>4, <2>6, FoundInBody
  <2>8. CASE part.file
    <3>1. header = FileHeader(part.name)
      BY <2>8 DEF header
    <3>2. extractMultipart(body) = {[name |-> part.name, data |-> part.data]}
      <4>. DEFINE name == part.name
                  data == part.data
      <4>1. name \in Seq(S) /\ data \in Seq(S) /\ {Crlf, Quote} \cap Range(name) = {}
        BY <2>2, <2>3
      <4>. HIDE DEF name
      <4>2. /\ FindFrom(<<Crlf>> \o header, Filename, 1) = 2
            /\ FindFrom(<<Crlf>> \o header, Quote, 3) = Len(name) + 3
            /\ SubSeq(<<Crlf>> \o header, 3, Len(name) + 2) = name
        BY <2>2, <3>1, <4>1, NameInHeader DEF name
      <4>3. Found(body, header, data)
        BY <2>7
      <4>. HIDE DEF data
      <4>4. Len(name) \in Nat /\ Len(data) \in Nat /\ Len(header) \in Nat
        BY <2>4, <4>1
      <4>5. extractMultipart(body) = {[name |-> name, data |-> data]}
        BY <4>2, <4>3, <4>4, FileFound
      <4>. QED  BY <4>5 DEF name, data
    <3>3. Upload(r) = [name |-> IF part.name = Empty \/ HasSubpath(part.name) THEN Uploaded
                               ELSE part.name,
                      data |-> part.data]
      BY <1>2, <3>2, UploadOfFile DEF body
    <3>. QED  BY <2>1, <2>8, <3>3 DEF Meant, part
  <2>9. CASE ~part.file
    <3>1. header = <<"field">>
      BY <2>9 DEF header
    <3>2. extractMultipart(body) = {}
      BY <2>2, <2>7, <3>1, NoNameInField, FieldFound
    <3>. QED  BY <1>2, <2>1, <2>9, <3>2 DEF Upload, Meant, part, body
  <2>. QED  BY <2>3, <2>8, <2>9
<1>. QED  BY <1>1, <1>2

-----------------------------------------------------------------------------
(* Responses.                                                              *)

\* Content-Length counts the body.
Measured(r) ==
    "Content-Length" \in DOMAIN r.headers /\ r.headers["Content-Length"] = Len(r.body)

\* setBody counts, whatever the headers said before.
LEMMA BodyIsMeasured ==
    ASSUME NEW r, NEW body
    PROVE  /\ Measured(setBody(r, body))
           /\ setBody(r, body).status = r.status /\ setBody(r, body).body = body
BY DEF Measured, setBody, Put

\* An answer with a body has its length,
LEMMA AnswersAreMeasured ==
    ASSUME NEW status, NEW body
    PROVE  /\ Measured(Answer(status, body))
           /\ Answer(status, body).status = status /\ Answer(status, body).body = body
BY BodyIsMeasured DEF Answer, setStatus, NewResponse

\* and so has one with the default text.
LEMMA TextsAreMeasured ==
    ASSUME NEW status
    PROVE  Measured(Plain(status)) /\ Plain(status).status = status
BY AnswersAreMeasured DEF Plain

\* Nor does it matter whether a script printed a length of its own.
LEMMA OthersAreMeasured ==
    /\ \A target : Measured(Redirect(target)) /\ Redirect(target).status = 301
    /\ \A output \in Printed : Measured(FromScript(output))
<1>1. \A target : setHeader(setStatus(NewResponse, 301), "Location", target).status = 301
  BY DEF setHeader, setStatus, NewResponse
<1>2. \A target : Measured(Redirect(target)) /\ Redirect(target).status = 301
  BY <1>1, BodyIsMeasured DEF Redirect
<1>. QED  BY <1>2, BodyIsMeasured, AnswersAreMeasured, TextsAreMeasured, SiteAssumption
          DEF FromScript

\* A response that was never filled has none.
LEMMA NothingIsNotMeasured == ~ Measured(NoResponse)
BY DEF Measured, NoResponse, setStatus, NewResponse

-----------------------------------------------------------------------------
(* What requests ask for.                                                  *)

Serves(method) == Served(request) /\ request.method = method

\* What the Router says to a request.
LEMMA Refusals ==
    ASSUME NEW r \in Request
    PROVE  /\ Routed[r].refusal \in {0, 301, 400, 405, 505}
           /\ Routed[r].refusal = 0 => r.method \in GetPostDelete
<1>1. Refusal(config, r) \in {0, 301, 400, 405, 505}
  BY DEF Refusal, RouteRefuses
<1>2. Refusal(config, r) = 0 => r.method \in GetPostDelete
  BY DEF Refusal
<1>. QED  BY <1>1, <1>2 DEF Routed

\* A request that is not served asks nothing of the disk;
LEMMA NotServed ==
    ASSUME NEW r \in Request, ~Served(r) PROVE Deeds[r].kind = "none"
BY DEF Deeds, NoDeed

\* GET asks for a file, or the index or listing of a directory;
LEMMA Fetches ==
    ASSUME NEW r \in Request, Served(r), r.method = "GET"
    PROVE  /\ Deeds[r].kind = "fetch"
           /\ isDirectory(Routed[r].directory) =>
                /\ Deeds[r].file = Routed[r].index
                /\ Deeds[r].listed = Routed[r].location.autoindex
           /\ ~isDirectory(Routed[r].directory) =>
                Deeds[r].file = Routed[r].file /\ Deeds[r].listed = FALSE
BY DEF Deeds, NoDeed

\* DELETE for the removal of a file, not of a directory;
LEMMA Removes ==
    ASSUME NEW r \in Request, Served(r), r.method = "DELETE"
    PROVE  IF isDirectory(Routed[r].file) THEN Deeds[r].kind = "none"
           ELSE Deeds[r].kind = "remove" /\ Deeds[r].file = Routed[r].file
BY DEF Deeds, NoDeed

\* POST for an upload, where there is a store for it.
LEMMA Stores ==
    ASSUME NEW r \in Request, Served(r), r.method = "POST"
    PROVE  IF Routed[r].location.uploadStore = Empty \/ Routed[r].target \notin File
           THEN Deeds[r].kind = "none"
           ELSE /\ Deeds[r].kind = "store" /\ Deeds[r].file = Routed[r].target
                /\ Deeds[r].data = Routed[r].upload.data
BY DEF Deeds, NoDeed

\* A file found under a path is the one asked for, be the path a directory's or not.
LEMMA FoundIsAsked ==
    ASSUME NEW r \in Request, Served(r), r.method = "GET", Routed[r].file \in File
    PROVE  Routed[r].file = Deeds[r].file
<1>1. CASE isDirectory(Routed[r].directory)
  <2>1. \/ Routed[r].file = Routed[r].directory
        \/ Routed[r].file = Routed[r].index
    BY IndexOfDirectory DEF Routed
  <2>2. Routed[r].file # Routed[r].directory
    BY <1>1, SiteAssumption DEF isDirectory
  <2>. QED  BY <1>1, <2>1, <2>2, Fetches
<1>2. CASE ~isDirectory(Routed[r].directory)
  BY <1>2, Fetches
<1>. QED  BY <1>1, <1>2

-----------------------------------------------------------------------------
(* The invariant.                                                          *)

\* Which request is being served, and that its file is the one at hand.
Pursued ==
    /\ pc = "script" => Now.script
    /\ pc \in {"get", "index", "read", "list"} => Serves("GET")
    /\ pc \in {"delete", "unlink"} => Serves("DELETE")
    /\ pc \in {"post", "write"} => Serves("POST") /\ Now.location.uploadStore # Empty
    /\ pc \in {"get", "delete", "unlink"} => current = Now.file
    /\ pc = "unlink" => ~isDirectory(current)
    /\ pc \in {"index", "list"} => isDirectory(Now.directory)
    /\ pc = "index" => current = Now.index
    /\ pc = "list" => Now.location.autoindex
    /\ pc = "read" => current = Deeds[request].file
    /\ pc \in {"post", "write"} => current = Now.target

\* What buildErrorResponse is called with: 400 for a path only.
IsError(status) == status \notin {0, 200, 413} /\ (status = 400 => Now.refusal = 400)

AtWork == pc \notin {"idle", "received", "answered"}

\* 413 is what a body over the limit gets, and what a script may say.
SaysTooLarge(r) ==
    /\ Now.tooLarge => r.status = 413
    /\ r.status = 413 => Now.tooLarge \/ Now.script

\* An error is told by its code until there is a response, whose length is true; and
\* a body over the limit has no other end than 413.
Replied ==
    /\ pc \in {"error", "errorPage"} => IsError(code)
    /\ pc = "answered" => Measured(response) /\ SaysTooLarge(response)
    /\ AtWork => ~Now.tooLarge

IInv == TypeOK /\ Pursued /\ Replied

\* Everything but "current = Now.target" is left as it was by those who respond or fail.
LEMMA RespondKeeps ==
    ASSUME IInv, NEW r, Measured(r), SaysTooLarge(r), Respond(r), DOMAIN disk' = File,
           UNCHANGED request, linked' = FALSE
    PROVE  IInv'
<1>1. r # NoResponse
  BY NothingIsNotMeasured
<1>2. TypeOK'
  BY <1>1 DEF IInv, TypeOK, Respond
<1>3. Pursued' /\ Replied'
  BY DEF Pursued, Replied, AtWork, Respond, SaysTooLarge, Now
<1>. QED  BY <1>2, <1>3 DEF IInv

\* An error that is not about size is looked up as a page.
LEMMA FailKeeps ==
    ASSUME IInv, NEW status, IsError(status), Fail(status), ~Now.tooLarge, pc # "answered",
           DOMAIN disk' = File, UNCHANGED request, linked' = FALSE
    PROVE  IInv'
<1>1. TypeOK'
  BY DEF IInv, TypeOK, Fail, IsError
<1>2. Pursued' /\ Replied'
  BY DEF Pursued, Replied, AtWork, Fail, IsError, Now
<1>. QED  BY <1>1, <1>2 DEF IInv

\* A new request.
LEMMA ReceiveKeeps == ASSUME IInv, NEW r \in Request, Receive(r) PROVE IInv'
BY DEF IInv, TypeOK, Pursued, Replied, AtWork, Receive

\* What becomes of a request that handleRequest looks at.
LEMMA Routing ==
    ASSUME request \in Request, Route
    PROVE  \/ /\ Now.refusal # 0
              /\ \/ Respond(Redirect(Now.location.redirect))
                 \/ IsError(Now.refusal) /\ Fail(Now.refusal)
           \/ /\ Now.refusal = 0 /\ request.method = "POST"
              /\ Now.location.uploadStore = Empty /\ Fail(403)
           \/ /\ Now.refusal = 0 /\ request.method = "POST"
              /\ Now.location.uploadStore # Empty /\ Continue("post", Now.target)
           \/ Now.refusal = 0 /\ request.method = "GET" /\ Continue("get", Now.file)
           \/ Now.refusal = 0 /\ request.method = "DELETE" /\ Continue("delete", Now.file)
<1>1. CASE Now.refusal # 0
  <2>1. Now.refusal # 301 => IsError(Now.refusal)
    BY <1>1, Refusals DEF Now, IsError
  <2>. QED  BY <1>1, <2>1 DEF Route
<1>2. CASE Now.refusal = 0
  <2>1. request.method \in GetPostDelete
    BY <1>2, Refusals DEF Now
  <2>2. CASE request.method = "GET"
    BY <1>2, <2>2 DEF Route
  <2>3. CASE request.method = "DELETE"
    BY <1>2, <2>3 DEF Route
  <2>4. CASE request.method = "POST"
    BY <1>2, <2>4 DEF Route
  <2>. QED  BY <2>1, <2>2, <2>3, <2>4 DEF GetPostDelete
<1>. QED  BY <1>1, <1>2

\* A request that is routed is refused, redirected, or given to its handler.
LEMMA RouteKeeps ==
    ASSUME IInv, pc = "received", Unchanged, request.parses, ~Now.tooLarge, ~Now.script,
           Route
    PROVE  IInv'
<1>1. request \in Request /\ DOMAIN disk = File /\ linked = FALSE
  BY DEF IInv, TypeOK
<1>2. CASE Respond(Redirect(Now.location.redirect))
  <2>1. SaysTooLarge(Redirect(Now.location.redirect))
    BY OthersAreMeasured DEF SaysTooLarge
  <2>. QED  BY <1>1, <1>2, <2>1, RespondKeeps, OthersAreMeasured DEF Unchanged
<1>3. CASE IsError(Now.refusal) /\ Fail(Now.refusal)
  BY <1>1, <1>3, FailKeeps DEF Unchanged
<1>4. CASE Fail(403)
  <2>1. IsError(403)
    BY DEF IsError
  <2>2. DOMAIN disk' = File /\ UNCHANGED request /\ linked' = FALSE
    BY <1>1 DEF Unchanged
  <2>. QED  BY <1>4, <2>1, <2>2, FailKeeps
<1>5. CASE /\ Now.refusal = 0
           /\ \/ request.method = "GET" /\ Continue("get", Now.file)
              \/ request.method = "DELETE" /\ Continue("delete", Now.file)
              \/ /\ request.method = "POST" /\ Continue("post", Now.target)
                 /\ Now.location.uploadStore # Empty
  <2>1. Served(request)
    BY <1>5 DEF Served, Now
  <2>2. TypeOK'
    BY <1>1, <1>5 DEF IInv, TypeOK, Continue, Unchanged
  <2>3. Pursued' /\ Replied'
    BY <1>5, <2>1 DEF IInv, Pursued, Replied, AtWork, Serves, Now, Continue, Unchanged
  <2>. QED  BY <2>2, <2>3 DEF IInv
<1>. QED  BY <1>1, <1>2, <1>3, <1>4, <1>5, Routing

\* Connection::processRequest.
LEMMA ProcessRequestKeeps == ASSUME IInv, ProcessRequest PROVE IInv'
<1>1. linked = FALSE /\ DOMAIN disk = File /\ Unchanged /\ pc = "received"
  BY DEF IInv, TypeOK, ProcessRequest
<1>. UNCHANGED request /\ linked' = FALSE /\ DOMAIN disk' = File
  BY <1>1 DEF Unchanged
<1>2. ASSUME NEW status, Now.tooLarge <=> status = 413, Respond(Plain(status)) PROVE IInv'
  <2>1. SaysTooLarge(Plain(status))
    BY <1>2, TextsAreMeasured DEF SaysTooLarge
  <2>2. Measured(Plain(status))
    BY TextsAreMeasured
  <2>. QED  BY <1>2, <2>1, <2>2, RespondKeeps
<1>3. CASE ~Now.tooLarge /\ Now.script /\ Continue("script", <<>>)
  <2>1. TypeOK'
    BY <1>1, <1>3 DEF IInv, TypeOK, Continue, Unchanged
  <2>2. Pursued' /\ Replied'
    BY <1>1, <1>3 DEF Pursued, Replied, AtWork, Now, Continue, Unchanged
  <2>. QED  BY <2>1, <2>2 DEF IInv
<1>4. CASE request.parses /\ ~Now.tooLarge /\ ~Now.script /\ Route
  BY <1>1, <1>4, RouteKeeps
<1>. QED  BY <1>2, <1>3, <1>4 DEF ProcessRequest

\* Connection::finishCgi.
LEMMA FinishCgiKeeps == ASSUME IInv, FinishCgi PROVE IInv'
<1>1. DOMAIN disk' = File /\ UNCHANGED request /\ linked' = FALSE
  BY DEF IInv, TypeOK, FinishCgi, Unchanged
<1>2. Now.script /\ ~Now.tooLarge
  BY DEF IInv, Pursued, Replied, AtWork, FinishCgi
<1>3. \E r : Measured(r) /\ SaysTooLarge(r) /\ Respond(r)
  BY <1>2, TextsAreMeasured, OthersAreMeasured DEF FinishCgi, SaysTooLarge
<1>. QED  BY <1>1, <1>3, RespondKeeps

IsOther(status) == status # 413

\* Most steps answer something, answer with a text, fail, or go on with a file.
LEMMA Unrefused ==
    ASSUME IInv, AtWork
    PROVE  ~Now.tooLarge /\ pc # "answered" /\ \A r : IsOther(r.status) => SaysTooLarge(r)
<1>1. ~Now.tooLarge
  BY DEF IInv, Replied
<1>. QED  BY <1>1 DEF SaysTooLarge, IsOther, AtWork

\* Something that comes of the same request.
SameRequest ==
    AtWork /\ DOMAIN disk' = File /\ UNCHANGED request /\ linked' = FALSE

\* A handler answers with a body,
LEMMA AnswerKeeps ==
    ASSUME IInv, SameRequest, NEW status, NEW body, IsOther(status),
           Respond(Answer(status, body))
    PROVE  IInv'
<1>1. SaysTooLarge(Answer(status, body)) /\ Measured(Answer(status, body))
  BY Unrefused, AnswersAreMeasured DEF SameRequest
<1>. QED  BY <1>1, Unrefused, RespondKeeps DEF SameRequest

\* with a text,
LEMMA TextKeeps ==
    ASSUME IInv, SameRequest, NEW status, IsOther(status), Respond(Plain(status)) PROVE IInv'
<1>1. SaysTooLarge(Plain(status)) /\ Measured(Plain(status))
  BY Unrefused, TextsAreMeasured DEF SameRequest
<1>. QED  BY <1>1, Unrefused, RespondKeeps DEF SameRequest

\* or with an error.
LEMMA ErrorKeeps ==
    ASSUME IInv, SameRequest, NEW status, IsError(status), Fail(status) PROVE IInv'
BY Unrefused, FailKeeps DEF SameRequest

\* The codes of the handlers.
LEMMA Codes ==
    /\ IsError(403) /\ IsError(404) /\ IsError(500)
    /\ IsOther(200) /\ IsOther(201) /\ IsOther(204) /\ IsOther(400)
BY DEF IsError, IsOther

\* handleGet: a file,
LEMMA GetFileKeeps == ASSUME IInv, GetFile PROVE IInv'
<1>1. /\ pc = "get" /\ AtWork /\ Unchanged /\ linked = FALSE /\ DOMAIN disk = File
      /\ request \in Request /\ Serves("GET") /\ current = Now.file
  BY DEF IInv, TypeOK, Pursued, AtWork, GetFile
<1>2. CASE fileExists(current)
  <2>1. Continue("read", current)
    BY <1>2 DEF GetFile
  <2>2. current = Deeds[request].file
    BY <1>1, <1>2, FoundIsAsked DEF Serves, Now, fileExists
  <2>3. TypeOK'
    BY <1>1, <2>1 DEF IInv, TypeOK, Continue, Unchanged
  <2>4. Pursued' /\ Replied'
    BY <1>1, <2>1, <2>2 DEF IInv, Pursued, Replied, AtWork, Serves, Now, Continue, Unchanged
  <2>. QED  BY <2>3, <2>4 DEF IInv
<1>3. CASE ~fileExists(current) /\ isDirectory(Now.directory)
  <2>1. Continue("index", Now.index)
    BY <1>3 DEF GetFile
  <2>2. TypeOK'
    BY <1>1, <2>1 DEF IInv, TypeOK, Continue, Unchanged
  <2>3. Pursued' /\ Replied'
    BY <1>1, <1>3, <2>1 DEF IInv, Pursued, Replied, AtWork, Serves, Now, Continue, Unchanged
  <2>. QED  BY <2>2, <2>3 DEF IInv
<1>4. CASE ~fileExists(current) /\ ~isDirectory(Now.directory)
  <2>1. Fail(404)
    BY <1>4 DEF GetFile
  <2>2. SameRequest
    BY <1>1 DEF SameRequest, Unchanged
  <2>. QED  BY <2>1, <2>2, ErrorKeeps, Codes
<1>. QED  BY <1>2, <1>3, <1>4

\* the index of a directory,
LEMMA GetIndexKeeps == ASSUME IInv, GetIndex PROVE IInv'
<1>1. /\ pc = "index" /\ AtWork /\ Unchanged /\ linked = FALSE /\ DOMAIN disk = File
      /\ request \in Request /\ Serves("GET") /\ current = Now.index
      /\ isDirectory(Now.directory)
  BY DEF IInv, TypeOK, Pursued, AtWork, GetIndex
<1>2. CASE fileExists(current)
  <2>1. Continue("read", current)
    BY <1>2 DEF GetIndex
  <2>2. current = Deeds[request].file
    BY <1>1, Fetches DEF Serves, Now
  <2>3. TypeOK'
    BY <1>1, <2>1 DEF IInv, TypeOK, Continue, Unchanged
  <2>4. Pursued' /\ Replied'
    BY <1>1, <2>1, <2>2 DEF IInv, Pursued, Replied, AtWork, Serves, Now, Continue, Unchanged
  <2>. QED  BY <2>3, <2>4 DEF IInv
<1>3. CASE ~fileExists(current) /\ Now.location.autoindex
  <2>1. Continue("list", <<>>)
    BY <1>3 DEF GetIndex
  <2>2. TypeOK'
    BY <1>1, <2>1 DEF IInv, TypeOK, Continue, Unchanged
  <2>3. Pursued' /\ Replied'
    BY <1>1, <1>3, <2>1 DEF IInv, Pursued, Replied, AtWork, Serves, Now, Continue, Unchanged
  <2>. QED  BY <2>2, <2>3 DEF IInv
<1>4. CASE ~fileExists(current) /\ ~Now.location.autoindex
  <2>1. Fail(404)
    BY <1>4 DEF GetIndex
  <2>2. SameRequest
    BY <1>1 DEF SameRequest, Unchanged
  <2>. QED  BY <2>1, <2>2, ErrorKeeps, Codes
<1>. QED  BY <1>2, <1>3, <1>4

\* its listing,
LEMMA GetListingKeeps == ASSUME IInv, GetListing PROVE IInv'
<1>1. /\ SameRequest
      /\ Respond(Answer(200, Listing)) \/ Fail(403)
  BY DEF IInv, TypeOK, AtWork, SameRequest, GetListing, Unchanged
<1>. QED  BY <1>1, AnswerKeeps, TextKeeps, ErrorKeeps, Codes

\* and what was found.
LEMMA ReadFileKeeps == ASSUME IInv, ReadFile PROVE IInv'
<1>1. /\ SameRequest
      /\ Respond(Answer(200, disk[current])) \/ Respond(Plain(400))
  BY DEF IInv, TypeOK, AtWork, SameRequest, ReadFile, Unchanged
<1>. QED  BY <1>1, AnswerKeeps, TextKeeps, ErrorKeeps, Codes

\* handleDelete: the test,
LEMMA DeleteFileKeeps == ASSUME IInv, DeleteFile PROVE IInv'
<1>1. /\ pc = "delete" /\ AtWork /\ Unchanged /\ linked = FALSE /\ DOMAIN disk = File
  BY DEF IInv, TypeOK, AtWork, DeleteFile
<1>2. CASE Fail(403) \/ Fail(404)
  <2>1. PICK status : IsError(status) /\ Fail(status)
    BY <1>2, Codes
  <2>2. SameRequest
    BY <1>1 DEF SameRequest, Unchanged
  <2>. QED  BY <2>1, <2>2, ErrorKeeps
<1>3. CASE ~isDirectory(current) /\ Continue("unlink", current)
  <2>1. TypeOK'
    BY <1>1, <1>3 DEF IInv, TypeOK, Continue, Unchanged
  <2>2. Pursued' /\ Replied'
    BY <1>1, <1>3 DEF IInv, Pursued, Replied, AtWork, Serves, Now, isDirectory, Continue,
       Unchanged
  <2>. QED  BY <2>1, <2>2 DEF IInv
<1>. QED  BY <1>2, <1>3 DEF DeleteFile

\* and the removal.
LEMMA UnlinkKeeps == ASSUME IInv, Unlink PROVE IInv'
<1>1. /\ SameRequest
      /\ Respond(Answer(204, <<>>)) \/ Fail(500)
  BY DEF IInv, TypeOK, AtWork, SameRequest, Unlink
<1>. QED  BY <1>1, AnswerKeeps, TextKeeps, ErrorKeeps, Codes

\* handlePost: the file is opened,
LEMMA OpenUploadKeeps == ASSUME IInv, OpenUpload PROVE IInv'
<1>1. pc = "post" /\ AtWork /\ UNCHANGED request /\ linked = FALSE /\ DOMAIN disk = File
  BY DEF IInv, TypeOK, AtWork, OpenUpload
<1>2. CASE Fail(500) /\ UNCHANGED <<disk, linked>>
  <2>1. SameRequest
    BY <1>1, <1>2 DEF SameRequest
  <2>. QED  BY <1>2, <2>1, ErrorKeeps, Codes
<1>3. CASE /\ current \in File /\ disk' = [disk EXCEPT ![current] = <<>>]
           /\ linked' = TRUE /\ Continue("write", current)
  <2>1. TypeOK'
    BY <1>1, <1>3 DEF IInv, TypeOK, Continue
  <2>2. Pursued' /\ Replied'
    BY <1>1, <1>3 DEF IInv, Pursued, Replied, AtWork, Serves, Now, Continue
  <2>. QED  BY <2>1, <2>2 DEF IInv
<1>. QED  BY <1>2, <1>3 DEF OpenUpload

\* and written.
LEMMA WriteUploadKeeps == ASSUME IInv, WriteUpload PROVE IInv'
<1>1. /\ SameRequest
      /\ Respond(Answer(201, <<"created">>)) \/ Fail(500)
  BY DEF IInv, TypeOK, AtWork, SameRequest, WriteUpload, Kept
<1>. QED  BY <1>1, AnswerKeeps, TextKeeps, ErrorKeeps, Codes

\* The page of an error is looked for,
LEMMA FindErrorPageKeeps == ASSUME IInv, FindErrorPage PROVE IInv'
<1>1. pc = "error" /\ Unchanged /\ linked = FALSE /\ DOMAIN disk = File
      /\ AtWork /\ IsOther(code)
  BY DEF IInv, TypeOK, Replied, IsError, IsOther, AtWork, FindErrorPage
<1>2. CASE Respond(Plain(code))
  <2>1. SameRequest
    BY <1>1 DEF SameRequest, Unchanged
  <2>. QED  BY <1>1, <1>2, <2>1, TextKeeps
<1>3. CASE pc' = "errorPage" /\ current' = ErrorPage[code] /\ UNCHANGED <<code, response>>
  <2>1. TypeOK'
    BY <1>1, <1>3 DEF IInv, TypeOK, Unchanged
  <2>2. Pursued' /\ Replied'
    BY <1>1, <1>3 DEF IInv, Pursued, Replied, IsError, AtWork, Now, Unchanged
  <2>. QED  BY <2>1, <2>2 DEF IInv
<1>. QED  BY <1>2, <1>3 DEF FindErrorPage

\* and read.
LEMMA ReadErrorPageKeeps == ASSUME IInv, ReadErrorPage PROVE IInv'
<1>1. /\ SameRequest
      /\ Respond(Answer(code, disk[current])) \/ Respond(Plain(code))
  BY DEF IInv, TypeOK, AtWork, SameRequest, ReadErrorPage, Unchanged
<1>2. IsOther(code)
  BY DEF IInv, Replied, IsError, IsOther, ReadErrorPage
<1>. QED  BY <1>1, <1>2, AnswerKeeps, TextKeeps

\* The answer is sent.
LEMMA FinishKeeps == ASSUME IInv, Finish PROVE IInv'
BY DEF IInv, TypeOK, Pursued, Replied, AtWork, Finish

\* Others change files, never what the server is about.
LEMMA OthersKeep == ASSUME IInv, Others PROVE IInv'
<1>1. UNCHANGED <<pc, request, current, code, response>> /\ DOMAIN disk' = DOMAIN disk
      /\ (linked' => linked)
  BY DEF Others
<1>2. TypeOK'
  BY <1>1 DEF IInv, TypeOK
<1>3. Pursued'
  BY <1>1 DEF IInv, Pursued, Serves, Now
<1>4. Replied'
  BY <1>1 DEF IInv, Replied, IsError, AtWork, SaysTooLarge, Now
<1>. QED  BY <1>2, <1>3, <1>4 DEF IInv

\* The invariant holds in every reachable state.
THEOREM Inductive == Spec => []IInv
<1>1. Init => IInv
  BY DEF Init, IInv, TypeOK, Pursued, Replied, AtWork
<1>2. IInv /\ [Next]_vars => IInv'
  <2>. SUFFICES ASSUME IInv, [Next]_vars PROVE IInv'
    OBVIOUS
  <2>1. CASE ServerStep
    BY <2>1, ProcessRequestKeeps, GetFileKeeps, GetIndexKeeps, GetListingKeeps,
       ReadFileKeeps, DeleteFileKeeps, UnlinkKeeps, OpenUploadKeeps,
       WriteUploadKeeps, FindErrorPageKeeps, ReadErrorPageKeeps, FinishKeeps DEF ServerStep
  <2>2. CASE FinishCgi \/ (\E r \in Request : Receive(r)) \/ Others
    BY <2>2, FinishCgiKeeps, ReceiveKeeps, OthersKeep
  <2>3. CASE UNCHANGED vars
    BY <2>3 DEF vars, IInv, TypeOK, Pursued, Replied, IsError, AtWork, SaysTooLarge, Serves,
       Now
  <2>. QED  BY <2>1, <2>2, <2>3 DEF Next
<1>. QED  BY <1>1, <1>2, PTL DEF Spec

\* Every variable keeps its type, whatever is asked for and whatever happens to the files.
THEOREM TypeCorrect == Spec => []TypeOK
<1>1. IInv => TypeOK
  BY DEF IInv
<1>. QED  BY <1>1, Inductive, PTL

\* A request whose line is cut at the same places by both parsers is refused with 413
\* exactly when it announces more than the location that serves it allows, other than by a
\* script that says so itself.
THEOREM LimitsAreTheRoutes == Spec => []LimitOfItsRoute
<1>1. IInv => LimitOfItsRoute
  <2>. SUFFICES ASSUME IInv, pc \notin {"idle", "received"}, request.cut = request.path
                PROVE  LimitOfItsRoute
    BY DEF LimitOfItsRoute
  <2>. DEFINE path == IF pc = "script" THEN WithoutQuery(request.path) ELSE request.path
  <2>1. request \in Request
    BY DEF IInv, TypeOK
  <2>2. FindLocation(config, path) = FindLocation(config, request.path)
    BY <2>1, BlockOfScript
  <2>3. Now.tooLarge <=> request.announced > LimitOf(config, request.path)
    BY <2>1 DEF Now, Routed
  <2>4. ServingLimit = LimitOf(config, request.path)
    BY <2>2, LimitOfBlock DEF ServingLimit
  <2>5. /\ Now.tooLarge => pc = "answered" /\ response.status = 413
        /\ pc = "answered" /\ response.status = 413 => Now.tooLarge \/ Now.script
    BY DEF IInv, TypeOK, Replied, AtWork, SaysTooLarge
  <2>. QED  BY <2>3, <2>4, <2>5 DEF LimitOfItsRoute
<1>. QED  BY <1>1, Inductive, PTL

\* A path is refused exactly when at some point it climbs above where the URL starts,
\* wherever it ends: what does is neither looked for on the disk nor given to a script.
THEOREM ClimbersAreRefused == Spec => []ClimbingIsRefused
<1>1. IInv => ClimbingIsRefused
  <2>. SUFFICES ASSUME IInv PROVE ClimbingIsRefused
    OBVIOUS
  <2>1. request \in Request
    BY DEF IInv, TypeOK
  <2>2. request.path \in Seq(Range(request.path))
    BY <2>1, SiteAssumption DEF IsText
  <2>3. isPathSafe(request.path) <=> ~Climbs(request.path)
    BY <2>2, SafeIffNotClimbing
  <2>4. Now.refusal = 400 <=> ~isPathSafe(request.path)
    BY <2>1 DEF Now, Routed, Refusal, RouteRefuses
  <2>5. pc = "error" /\ code = 400 => Now.refusal = 400
    BY DEF IInv, Replied, IsError
  <2>6. pc \in {"get", "delete", "post"} => Now.refusal = 0
    BY DEF IInv, Pursued, Serves, Served, Now
  <2>7. WithoutQuery(request.path) \in Seq(Range(request.path))
    BY <2>2, QueryIsCut
  <2>8. isPathSafe(WithoutQuery(request.path)) <=> ~Climbs(WithoutQuery(request.path))
    BY <2>7, SafeIffNotClimbing
  <2>9. pc = "script" => isPathSafe(WithoutQuery(request.path))
    BY <2>1 DEF IInv, Pursued, Now, Routed, isCgiRequest
  <2>. QED  BY <2>3, <2>4, <2>5, <2>6, <2>8, <2>9 DEF ClimbingIsRefused
<1>. QED  BY <1>1, Inductive, PTL

\* For every form a browser sends whose first part is a file, what is written is that
\* file, under its name if that is one for the upload store; any other body, a form that
\* begins with a field included, is written as it came.
THEOREM UploadsAreIntended == Spec => []UploadIsIntended
<1>1. IInv => UploadIsIntended
  <2>. SUFFICES ASSUME IInv, pc = "write", request.form => request.sent # <<>>
                PROVE  Now.upload = Meant(request)
    BY DEF UploadIsIntended
  <2>1. request \in Request
    BY DEF IInv, TypeOK
  <2>. QED  BY <2>1, UploadIsMeant DEF Now, Routed
<1>. QED  BY <1>1, Inductive, PTL

\* The header "Content-Length" is the length of the body in every response, also when a
\* script printed one in these letters.
THEOREM LengthsAreTrue == Spec => []LengthIsTrue
<1>1. IInv => LengthIsTrue
  BY DEF IInv, Replied, Measured, LengthIsTrue
<1>. QED  BY <1>1, Inductive, PTL

-----------------------------------------------------------------------------
(* Every step of the server is a step of the site, or none.                *)

\* What the site sees as the outcome.
Told ==
    /\ PhaseOf # "decided" \/ Deeds[request].kind = "none" => OutcomeOf = AsSite!Undecided
    /\ pc \in {"error", "errorPage"} /\ Deeds[request].kind # "none" =>
         OutcomeOf = AsSite!Status(code)
    /\ pc = "answered" /\ Deeds[request].kind # "none" =>
         OutcomeOf = [status |-> response.status,
                      content |-> IF response.status = 200 THEN response.body ELSE <<>>]

\* What Site sees of the server, now and in the next state.
LEMMA Outcome == Told /\ Told'
BY DEF Told, OutcomeOf, PhaseOf, AsSite!Undecided, AsSite!Status

\* The server goes on to the next step of the same request: nothing is seen of it.
LEMMA GoingOn ==
    ASSUME PhaseOf # "decided", PhaseOf' = PhaseOf, UNCHANGED <<disk, request, linked>>
    PROVE  UNCHANGED AsSite!vars
BY Outcome DEF Told, AsSite!vars

\* A request that asks nothing of the disk is disposed of.
LEMMA Disposed ==
    ASSUME PhaseOf = "asked", PhaseOf' = "decided", Deeds[request].kind = "none",
           UNCHANGED <<disk, request, linked>>
    PROVE  AsSite!Dispose
BY Outcome DEF Told, AsSite!Dispose, AsSite!Decide

\* An error decides the outcome there,
LEMMA Failed ==
    ASSUME NEW status, Fail(status), UNCHANGED request, Deeds[request].kind # "none"
    PROVE  AsSite!Decide(AsSite!Status(status))
<1>1. PhaseOf' = "decided"
  BY DEF Fail, PhaseOf
<1>. QED  BY <1>1, Outcome DEF Told, Fail, AsSite!Decide

\* and so does an answer.
LEMMA Answered ==
    ASSUME NEW status, NEW body, Respond(Answer(status, body)), UNCHANGED request,
           Deeds[request].kind # "none"
    PROVE  AsSite!Decide([status |-> status, content |-> IF status = 200 THEN body ELSE <<>>])
<1>1. PhaseOf' = "decided" /\ pc' = "answered"
  BY DEF Respond, PhaseOf
<1>2. response'.status = status /\ response'.body = body
  BY AnswersAreMeasured DEF Respond
<1>. QED  BY <1>1, <1>2, Outcome DEF Told, AsSite!Decide

\* A new request is one Site is asked.
LEMMA ReceiveImplements ==
    ASSUME NEW r \in Request, Receive(r) PROVE AsSite!Ask
<1>1. PhaseOf = "idle" /\ PhaseOf' = "asked"
  BY DEF Receive, PhaseOf
<1>. QED  BY <1>1, Outcome DEF Told, Receive, AsSite!Ask

\* Routing disposes of a request, or is not seen.
LEMMA ProcessRequestImplements ==
    ASSUME IInv, ProcessRequest PROVE AsSite!Dispose \/ UNCHANGED AsSite!vars
<1>1. request \in Request /\ PhaseOf = "asked" /\ UNCHANGED <<disk, request, linked>>
  BY DEF IInv, TypeOK, ProcessRequest, Unchanged, PhaseOf
<1>2. CASE \E place : \E next \in {"get", "delete", "post"} : Continue(next, place)
  BY <1>1, <1>2, GoingOn DEF PhaseOf, Continue
<1>3. ASSUME PhaseOf' = "decided", Deeds[request].kind = "none" PROVE AsSite!Dispose
  BY <1>1, <1>3, Disposed
<1>4. CASE ~Served(request) /\ PhaseOf' = "decided"
  BY <1>1, <1>3, <1>4, NotServed
<1>5. (\E r : Respond(r)) \/ (\E status : Fail(status)) \/ Continue("script", <<>>) =>
        PhaseOf' = "decided"
  BY DEF Respond, Fail, Continue, PhaseOf
<1>6. CASE Served(request)
  <2>1. Route /\ Now.refusal = 0
    BY <1>6 DEF ProcessRequest, Served, Now
  <2>2. CASE request.method = "POST" /\ Now.location.uploadStore = Empty /\ Fail(403)
    BY <1>1, <1>3, <1>5, <1>6, <2>2, Stores DEF Now
  <2>. QED  BY <1>1, <1>2, <2>1, <2>2, Routing
<1>7. CASE ~Served(request)
  <2>1. CASE request.parses /\ ~Now.tooLarge /\ ~Now.script /\ Route
    <3>1. Now.refusal # 0
      BY <1>7, <2>1 DEF Served, Now
    <3>. QED  BY <1>1, <1>4, <1>5, <1>7, <2>1, <3>1, Routing
  <2>2. CASE (\E r : Respond(r)) \/ Continue("script", <<>>)
    BY <1>4, <1>5, <1>7, <2>2
  <2>. QED  BY <2>1, <2>2 DEF ProcessRequest
<1>. QED  BY <1>6, <1>7

\* The end of a script is not seen: its request was disposed of when it began.
LEMMA FinishCgiImplements ==
    ASSUME IInv, FinishCgi PROVE UNCHANGED AsSite!vars
<1>1. Deeds[request].kind = "none"
  BY NotServed DEF IInv, TypeOK, Pursued, FinishCgi, Served, Now
<1>2. PhaseOf = "decided" /\ PhaseOf' = "decided" /\ UNCHANGED <<disk, request, linked>>
  BY DEF FinishCgi, Unchanged, Respond, PhaseOf
<1>. QED  BY <1>1, <1>2, Outcome DEF Told, AsSite!vars

\* Looking for the file and opening it are one step of the site: the last one.
LEMMA GetFileImplements ==
    ASSUME IInv, GetFile PROVE AsSite!Fetch \/ UNCHANGED AsSite!vars
<1>1. /\ pc = "get" /\ PhaseOf = "asked" /\ UNCHANGED <<disk, request, linked>>
      /\ request \in Request /\ Serves("GET") /\ current = Now.file
  BY DEF IInv, TypeOK, Pursued, GetFile, Unchanged, PhaseOf
<1>2. CASE \E place : \E next \in {"read", "index"} : Continue(next, place)
  BY <1>1, <1>2, GoingOn DEF PhaseOf, Continue
<1>3. CASE ~fileExists(current) /\ ~isDirectory(Now.directory)
  <2>1. /\ Deeds[request].kind = "fetch" /\ Deeds[request].file = current
        /\ Deeds[request].listed = FALSE
    BY <1>1, <1>3, Fetches DEF Serves, Now
  <2>2. AsSite!Decide(AsSite!Missing)
    BY <1>1, <1>3, <2>1, Failed DEF GetFile, AsSite!Missing
  <2>3. ~AsSite!Holds(current)
    BY <1>3 DEF fileExists, AsSite!Holds, Absent, AsSite!Absent
  <2>. QED  BY <1>1, <2>1, <2>2, <2>3 DEF AsSite!Fetch
<1>. QED  BY <1>2, <1>3 DEF GetFile

\* The index of a directory is fetched, or the next step lists it,
LEMMA GetIndexImplements ==
    ASSUME IInv, GetIndex PROVE AsSite!Fetch \/ UNCHANGED AsSite!vars
<1>1. /\ pc = "index" /\ PhaseOf = "asked" /\ UNCHANGED <<disk, request, linked>>
      /\ request \in Request /\ Serves("GET") /\ isDirectory(Now.directory)
      /\ current = Now.index
  BY DEF IInv, TypeOK, Pursued, GetIndex, Unchanged, PhaseOf
<1>2. /\ Deeds[request].kind = "fetch" /\ Deeds[request].file = current
      /\ Deeds[request].listed = Now.location.autoindex
  BY <1>1, Fetches DEF Serves, Now
<1>3. CASE fileExists(current)
  BY <1>1, <1>3, GoingOn DEF GetIndex, PhaseOf, Continue
<1>4. ~fileExists(current) => ~AsSite!Holds(current)
  BY DEF fileExists, AsSite!Holds, Absent, AsSite!Absent
<1>5. CASE ~fileExists(current) /\ Now.location.autoindex
  <2>1. PhaseOf' = "listing"
    BY <1>5 DEF GetIndex, Continue, PhaseOf
  <2>. QED  BY <1>1, <1>2, <1>4, <1>5, <2>1, Outcome DEF Told, AsSite!Fetch
<1>6. CASE ~fileExists(current) /\ ~Now.location.autoindex
  <2>1. AsSite!Decide(AsSite!Missing)
    BY <1>1, <1>2, <1>6, Failed DEF GetIndex, AsSite!Missing
  <2>. QED  BY <1>1, <1>2, <1>4, <1>6, <2>1 DEF AsSite!Fetch
<1>. QED  BY <1>3, <1>5, <1>6

\* as it is at that moment.
LEMMA GetListingImplements ==
    ASSUME IInv, GetListing PROVE AsSite!List
<1>1. /\ PhaseOf = "listing" /\ UNCHANGED <<disk, request, linked>> /\ request \in Request
      /\ Serves("GET")
  BY DEF IInv, TypeOK, Pursued, GetListing, Unchanged, PhaseOf
<1>2. Deeds[request].kind # "none"
  BY <1>1, Fetches DEF Serves
<1>3. AsSite!Decide([status |-> 200, content |-> Listing]) \/ AsSite!Decide(AsSite!Forbidden)
  BY <1>1, <1>2, Answered, Failed DEF GetListing, AsSite!Forbidden
<1>. QED  BY <1>1, <1>3 DEF AsSite!List, Listing, AsSite!Listing

\* The content is the one the file has when it is read.
LEMMA ReadFileImplements ==
    ASSUME IInv, ReadFile PROVE AsSite!Fetch
<1>1. /\ PhaseOf = "asked" /\ UNCHANGED <<disk, request, linked>> /\ request \in Request
      /\ Serves("GET") /\ current = Deeds[request].file
  BY DEF IInv, TypeOK, Pursued, ReadFile, Unchanged, PhaseOf
<1>2. Deeds[request].kind = "fetch"
  BY <1>1, Fetches DEF Serves
<1>3. CASE fileExists(current) /\ Respond(Answer(200, disk[current]))
  <2>1. AsSite!Decide([status |-> 200, content |-> disk[current]])
    BY <1>1, <1>2, <1>3, Answered
  <2>2. AsSite!Holds(current)
    BY <1>3 DEF fileExists, AsSite!Holds, Absent, AsSite!Absent
  <2>. QED  BY <1>1, <1>2, <2>1, <2>2 DEF AsSite!Fetch
<1>4. CASE Respond(Plain(400))
  <2>1. AsSite!Decide(AsSite!Unreadable)
    BY <1>1, <1>2, <1>4, Answered DEF Plain, AsSite!Unreadable, AsSite!Status
  <2>. QED  BY <1>1, <1>2, <2>1 DEF AsSite!Fetch
<1>. QED  BY <1>3, <1>4 DEF ReadFile

\* The test of DELETE decides, or leaves the removal to the next step.
LEMMA DeleteFileImplements ==
    ASSUME IInv, DeleteFile
    PROVE  AsSite!Dispose \/ AsSite!Remove \/ UNCHANGED AsSite!vars
<1>1. /\ pc = "delete" /\ PhaseOf = "asked" /\ UNCHANGED <<disk, request, linked>>
      /\ request \in Request /\ Serves("DELETE") /\ current = Now.file
  BY DEF IInv, TypeOK, Pursued, DeleteFile, Unchanged, PhaseOf
<1>2. IF isDirectory(current) THEN Deeds[request].kind = "none"
      ELSE Deeds[request].kind = "remove" /\ Deeds[request].file = current
  BY <1>1, Removes DEF Serves, Now
<1>3. CASE isDirectory(current)
  <2>1. PhaseOf' = "decided"
    BY <1>3 DEF DeleteFile, Fail, PhaseOf
  <2>. QED  BY <1>1, <1>2, <1>3, <2>1, Disposed
<1>4. CASE ~isDirectory(current) /\ ~fileExists(current)
  <2>1. AsSite!Decide(AsSite!Missing)
    BY <1>1, <1>2, <1>4, Failed DEF DeleteFile, AsSite!Missing
  <2>2. ~AsSite!Holds(current)
    BY <1>4 DEF fileExists, AsSite!Holds, Absent, AsSite!Absent
  <2>. QED  BY <1>1, <1>2, <1>4, <2>1, <2>2 DEF AsSite!Remove
<1>5. CASE ~isDirectory(current) /\ fileExists(current)
  BY <1>1, <1>5, GoingOn DEF DeleteFile, PhaseOf, Continue
<1>. QED  BY <1>3, <1>4, <1>5

\* That unlink() fails because the file is gone is reported as a failure.
LEMMA UnlinkImplements ==
    ASSUME IInv, Unlink PROVE AsSite!Remove
<1>1. /\ PhaseOf = "asked" /\ UNCHANGED <<request, linked>> /\ request \in Request
      /\ Serves("DELETE") /\ current = Now.file /\ ~isDirectory(current)
  BY DEF IInv, TypeOK, Pursued, Unlink, PhaseOf
<1>2. Deeds[request].kind = "remove" /\ Deeds[request].file = current
  BY <1>1, Removes DEF Serves, Now
<1>3. CASE /\ fileExists(current) /\ disk' = [disk EXCEPT ![current] = Absent]
           /\ Respond(Answer(204, <<>>))
  <2>1. AsSite!Decide(AsSite!Status(204))
    BY <1>1, <1>2, <1>3, Answered DEF AsSite!Status
  <2>2. AsSite!Holds(current)
    BY <1>3 DEF fileExists, AsSite!Holds, Absent, AsSite!Absent
  <2>. QED  BY <1>1, <1>2, <1>3, <2>1, <2>2 DEF AsSite!Remove, Absent, AsSite!Absent
<1>4. CASE Fail(500) /\ UNCHANGED disk
  <2>1. AsSite!Decide(AsSite!Failed)
    BY <1>1, <1>2, <1>4, Failed DEF AsSite!Failed
  <2>. QED  BY <1>1, <1>2, <1>4, <2>1 DEF AsSite!Remove
<1>. QED  BY <1>3, <1>4 DEF Unlink

\* An upload that is opened clears its file, one that cannot be is disposed of.
LEMMA OpenUploadImplements ==
    ASSUME IInv, OpenUpload PROVE AsSite!Clear \/ AsSite!Dispose
<1>1. /\ PhaseOf = "asked" /\ UNCHANGED request /\ request \in Request
      /\ Serves("POST") /\ Now.location.uploadStore # Empty /\ current = Now.target
  BY DEF IInv, TypeOK, Pursued, OpenUpload, PhaseOf
<1>2. IF current \notin File THEN Deeds[request].kind = "none"
      ELSE Deeds[request].kind = "store" /\ Deeds[request].file = current
  BY <1>1, Stores DEF Serves, Now
<1>3. CASE /\ current \in File /\ disk' = [disk EXCEPT ![current] = <<>>] /\ linked' = TRUE
           /\ Continue("write", current)
  <2>1. PhaseOf' = "filling"
    BY <1>3 DEF Continue, PhaseOf
  <2>2. UNCHANGED OutcomeOf
    BY <1>1, <2>1, Outcome DEF Told
  <2>. QED  BY <1>1, <1>2, <1>3, <2>1, <2>2 DEF AsSite!Clear
<1>4. CASE Fail(500) /\ UNCHANGED <<disk, linked>>
  <2>1. PhaseOf' = "decided"
    BY <1>4 DEF Fail, PhaseOf
  <2>2. CASE current \in File
    <3>1. AsSite!Decide(AsSite!Failed)
      BY <1>1, <1>2, <1>4, <2>2, Failed DEF AsSite!Failed
    <3>. QED  BY <1>1, <1>2, <1>4, <2>2, <3>1 DEF AsSite!Clear
  <2>3. CASE current \notin File
    BY <1>1, <1>2, <1>4, <2>1, <2>3, Disposed
  <2>. QED  BY <2>2, <2>3
<1>. QED  BY <1>3, <1>4 DEF OpenUpload

\* What is written is all of the upload or its beginning.
LEMMA WriteUploadImplements ==
    ASSUME IInv, WriteUpload PROVE AsSite!Fill
<1>1. /\ PhaseOf = "filling" /\ UNCHANGED request /\ request \in Request /\ linked' = FALSE
      /\ Serves("POST") /\ Now.location.uploadStore # Empty /\ current = Now.target
      /\ current \in File
  BY DEF IInv, TypeOK, Pursued, WriteUpload, PhaseOf
<1>2. /\ Deeds[request].kind = "store" /\ Deeds[request].file = current
      /\ Deeds[request].data = Now.upload.data
  BY <1>1, Stores DEF Serves, Now
<1>3. PICK n \in 0 .. Len(Now.upload.data) :
        /\ Kept(n)
        /\ \/ Respond(Answer(201, <<"created">>))
           \/ n < Len(Now.upload.data) /\ Fail(500)
  BY DEF WriteUpload
<1>4. \/ AsSite!Decide(AsSite!Status(201))
      \/ n < Len(Now.upload.data) /\ AsSite!Decide(AsSite!Failed)
  BY <1>1, <1>2, <1>3, Answered, Failed DEF AsSite!Status, AsSite!Failed
<1>. QED  BY <1>1, <1>2, <1>3, <1>4 DEF AsSite!Fill, Kept

\* What the user sees of an error is not decided by its page.
LEMMA ErrorPageImplements ==
    ASSUME IInv, FindErrorPage \/ ReadErrorPage PROVE UNCHANGED AsSite!vars
<1>1. /\ pc \in {"error", "errorPage"} /\ PhaseOf = "decided" /\ code # 200
      /\ UNCHANGED <<disk, request, linked>>
  BY DEF IInv, Replied, IsError, FindErrorPage, ReadErrorPage, Unchanged, PhaseOf
<1>2. CASE Deeds[request].kind = "none"
  <2>1. PhaseOf' = "decided"
    BY DEF FindErrorPage, ReadErrorPage, Respond, PhaseOf
  <2>. QED  BY <1>1, <1>2, <2>1, Outcome DEF Told, AsSite!vars
<1>3. CASE Deeds[request].kind # "none"
  <2>1. OutcomeOf = AsSite!Status(code)
    BY <1>1, <1>3, Outcome DEF Told
  <2>2. CASE pc' = "errorPage" /\ UNCHANGED code
    <3>1. PhaseOf' = "decided" /\ OutcomeOf' = AsSite!Status(code)
      BY <1>1, <1>3, <2>2, Outcome DEF Told, PhaseOf
    <3>. QED  BY <1>1, <2>1, <3>1 DEF AsSite!vars
  <2>3. CASE \E body : Respond(Answer(code, body))
    <3>1. AsSite!Decide(AsSite!Status(code))
      BY <1>1, <1>3, <2>3, Answered DEF AsSite!Status
    <3>. QED  BY <1>1, <2>1, <3>1 DEF AsSite!Decide, AsSite!vars
  <2>. QED  BY <2>2, <2>3 DEF FindErrorPage, ReadErrorPage, Plain
<1>. QED  BY <1>2, <1>3

\* When the answer is sent, Site rests.
LEMMA FinishImplements == ASSUME Finish PROVE AsSite!Rest
<1>1. PhaseOf = "decided" /\ PhaseOf' = "idle"
  BY DEF Finish, PhaseOf
<1>. QED  BY <1>1, Outcome DEF Told, Finish, AsSite!Rest

\* What others do to the files they do there.
LEMMA OthersImplement == ASSUME IInv, Others PROVE AsSite!Others
<1>1. PICK f \in File, c \in Content \cup {Absent} :
        /\ c # disk[f] /\ disk' = [disk EXCEPT ![f] = c]
        /\ linked' = (linked /\ f # current)
        /\ UNCHANGED <<pc, request, current, code, response>>
  BY DEF Others
<1>2. UNCHANGED <<PhaseOf, request, OutcomeOf>>
  BY <1>1 DEF PhaseOf, OutcomeOf
<1>3. linked => Deeds[request].file = current
  <2>. SUFFICES ASSUME linked PROVE Deeds[request].file = current
    OBVIOUS
  <2>1. /\ request \in Request /\ Serves("POST") /\ Now.location.uploadStore # Empty
        /\ current = Now.target /\ current \in File
    BY DEF IInv, TypeOK, Pursued
  <2>. QED  BY <2>1, Stores DEF Serves, Now
<1>4. linked' = (linked /\ f # Deeds[request].file)
  BY <1>1, <1>3
<1>. QED  BY <1>1, <1>2, <1>4 DEF AsSite!Others, Absent, AsSite!Absent

\* Every step is one of Site, or changes nothing there.
LEMMA StepImplements ==
    ASSUME IInv, [Next]_vars PROVE [AsSite!Next]_(AsSite!vars)
<1>1. CASE ServerStep
  BY <1>1, ProcessRequestImplements, GetFileImplements, GetIndexImplements,
     GetListingImplements, ReadFileImplements, DeleteFileImplements,
     UnlinkImplements, OpenUploadImplements, WriteUploadImplements, ErrorPageImplements,
     FinishImplements DEF ServerStep, AsSite!Next
<1>2. CASE FinishCgi \/ (\E r \in Request : Receive(r)) \/ Others
  BY <1>2, FinishCgiImplements, ReceiveImplements, OthersImplement DEF AsSite!Next
<1>3. CASE UNCHANGED vars
  BY <1>3 DEF vars, AsSite!vars, PhaseOf, OutcomeOf
<1>. QED  BY <1>1, <1>2, <1>3 DEF Next

\* With any configuration and any files, a request whose file is looked for, opened, read
\* or written in several system calls, between which others change it, is answered as if
\* it had been carried out at one moment.
THEOREM HandlingImplementsSite == Spec => ImplementsSite
<1>1. Init => AsSite!Init
  <2>. SUFFICES ASSUME Init PROVE AsSite!Init
    OBVIOUS
  <2>1. PhaseOf = "idle"
    BY DEF Init, PhaseOf
  <2>. QED  BY <2>1, Outcome DEF Told, Init, AsSite!Init, Absent, AsSite!Absent
<1>2. IInv /\ [Next]_vars => [AsSite!Next]_(AsSite!vars)
  BY StepImplements
<1>. QED  BY <1>1, <1>2, Inductive, PTL DEF Spec, ImplementsSite, AsSite!Spec

=============================================================================
