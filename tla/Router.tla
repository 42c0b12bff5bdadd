------------------------------- MODULE Router -------------------------------
(***************************************************************************)
(* What the Router makes of a request without looking at the disk: whether *)
(* its path is accepted, which location serves it, which file or script it *)
(* names, and what an upload's body holds.                                 *)
(* A path or a file name is a sequence of "/", ".", "?" and words, so ".." *)
(* is two dots; a body is a sequence of the pieces forms are made of.      *)
(***************************************************************************)
EXTENDS Config, FiniteSets

CONSTANTS
    Uploaded    \* the name of an upload that has none: "upload"

GetPostDelete == {"GET", "POST", "DELETE"}

-----------------------------------------------------------------------------
(* Paths.                                                                  *)

Places(path, c) == {i \in DOMAIN path : path[i] = c}
\* The k-th slash, with one before the path and one behind it.
Cut(path, k) ==
    LET cuts == {0, Len(path) + 1} \cup Places(path, "/")
    IN  CHOOSE i \in cuts : Cardinality({j \in cuts : j < i}) = k
\* std::getline(stream, segment, '/')
Segments(path) ==
    [k \in 1 .. Cardinality(Places(path, "/")) + 1 |->
       SubSeq(path, Cut(path, k - 1) + 1, Cut(path, k) - 1)]

Parent == <<".", ".">>
Nothing == {<<>>, <<".">>}
\* How many names deep a path is after each of its segments.
Depths(path) ==
    LET segments == Segments(path)
        depth[k \in 0 .. Len(segments)] ==
          IF k = 0 THEN 0
          ELSE CASE segments[k] \in Nothing -> depth[k - 1]
                 [] segments[k] = Parent -> depth[k - 1] - 1
                 [] OTHER -> depth[k - 1] + 1
    IN  depth

\* mutant: only where the path ends is looked at
SafeAtEnd(path) == Depths(path)[Len(Segments(path))] >= 0
isPathSafe(path) == \A k \in 1 .. Len(Segments(path)) : Depths(path)[k] >= 0

\* path.find(c) and path.find_last_of(c); 0 for npos
FindLast(path, c) ==
    IF Places(path, c) = {} THEN 0
    ELSE CHOOSE i \in Places(path, c) : \A j \in Places(path, c) : j <= i
Find(path, c) ==
    IF Places(path, c) = {} THEN 0
    ELSE CHOOSE i \in Places(path, c) : \A j \in Places(path, c) : i <= j
From(path, i) == SubSeq(path, i, Len(path))
WithoutQuery(path) ==
    IF Find(path, "?") = 0 THEN path ELSE SubSeq(path, 1, Find(path, "?") - 1)

\* The location's setting, and the server's where it is "".
Setting(own, servers) == IF own = Empty THEN servers ELSE own
RootOf(server, location) == Setting(location.root, server.root)
IndexOf(server, location) == Setting(location.index, server.index)
Relative(location, path) == From(path, Len(location.path) + 1)

buildFilePath(server, path) ==
    LET location == FindLocation(server, path)
        relative == Relative(location, path)
    IN  RootOf(server, location) \o IF relative \in {<<>>, <<"/">>}
                                    THEN <<"/">> \o IndexOf(server, location) ELSE relative

buildDirPath(server, path) ==
    LET location == FindLocation(server, path)
        relative == Relative(location, path)
    IN  RootOf(server, location) \o IF relative \in {<<>>, <<"/">>} THEN <<>> ELSE relative

-----------------------------------------------------------------------------
(* What is refused, and what is a script.                                  *)

\* mutant: the search goes on behind the first block that fits
LimitOfLast(server, path) ==
    LET fits == {i \in DOMAIN server.locations :
                   /\ IsPrefix(server.locations[i].path, path)
                   /\ server.locations[i].limit # 0}
    IN  IF fits = {} THEN server.limit ELSE server.locations[LastOf(fits)].limit
\* Connection::isBodyTooLarge, which looks for the location itself; path is what it cuts
\* out of the request line.
LimitOf(server, path) ==
    LET fits == {i \in DOMAIN server.locations :
                   IsPrefix(server.locations[i].path, path)}
    IN  IF fits = {} \/ server.locations[FirstOf(fits)].limit = 0 THEN server.limit
        ELSE server.locations[FirstOf(fits)].limit

\* What the location of a path has against a request, 0 if nothing.
RouteRefuses(location, method) ==
    IF location.redirect # Empty THEN 301
    ELSE IF IsMethodAllowed(location, method) THEN 0 ELSE 405

\* The status handleRequest answers with before it goes to the disk, or 0.
Refusal(server, r) ==
    IF ~isPathSafe(r.path) THEN 400
    ELSE IF r.version # "HTTP/1.1" THEN 505
    ELSE IF r.method \notin GetPostDelete THEN 405
    ELSE RouteRefuses(FindLocation(server, r.path), r.method)

\* The extension is looked for in the whole path.
getCgiInterpreter(location, path) ==
    IF FindLast(path, ".") = 0 THEN Empty
    ELSE Get(location.cgi, From(path, FindLast(path, ".")))

isCgiRequest(server, r) ==
    LET path == WithoutQuery(r.path)
        location == FindLocation(server, path)
    IN  /\ isPathSafe(path)
        /\ location.redirect = Empty
        /\ IsMethodAllowed(location, r.method)
        /\ getCgiInterpreter(location, path) # Empty

-----------------------------------------------------------------------------
(* Uploads.                                                                *)

Crlf == "crlf"
Boundary == "--boundary"
Filename == "filename="
Quote == "quote"

FindFrom(body, piece, from) ==
    LET found == {i \in from .. Len(body) : body[i] = piece}
    IN  IF found = {} THEN 0 ELSE FirstOf(found)
HeaderEnd(body, from) ==
    LET found == {i \in from .. Len(body) - 1 : body[i] = Crlf /\ body[i + 1] = Crlf}
    IN  IF found = {} THEN 0 ELSE FirstOf(found)

\* mutant: the line break before the last boundary stays
KeepsBreak(body, start, boundary) == SubSeq(body, start, boundary - 1)
\* Without a line break of its own the data is cut into the header's, its length
\* wraps and substr() takes the rest of the body.
DataBefore(body, start, boundary) ==
    LET last == IF body[boundary - 1] = Crlf THEN boundary - 2 ELSE boundary - 1
    IN  IF last < start - 1 THEN From(body, start) ELSE SubSeq(body, start, last)

\* extractMultipart for a Content-Type that names the boundary: the file, if any.
extractMultipart(body) ==
    LET part == FindFrom(body, Boundary, 1)
        headerEnd == HeaderEnd(body, part + 1)
        header == SubSeq(body, part + 1, headerEnd - 1)
        filename == FindFrom(header, Filename, 1)
        nameEnd == FindFrom(header, Quote, filename + 1)
        last == FindFrom(body, Boundary, headerEnd + 2)
    IN  IF 0 \in {part, headerEnd, filename, nameEnd, last} THEN {}
        ELSE {[name |-> SubSeq(header, filename + 1, nameEnd - 1),
               data |-> DataBefore(body, headerEnd + 2, last)]}

HasSubpath(text) ==
    "/" \in Range(text) \/ \E i \in 1 .. Len(text) - 1 : SubSeq(text, i, i + 1) = Parent

\* What handlePost writes and under which name.
Upload(r) ==
    LET files == IF r.form THEN extractMultipart(r.body) ELSE {}
        file == IF files = {} THEN [name |-> Uploaded, data |-> r.body]
                ELSE CHOOSE f \in files : TRUE
    IN  IF file.name = Empty \/ HasSubpath(file.name)
        THEN [file EXCEPT !.name = Uploaded] ELSE file

=============================================================================
