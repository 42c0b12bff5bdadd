-------------------------- MODULE RequestHandling --------------------------
(***************************************************************************)
(* A complete request from Connection::processRequest to its response:     *)
(* the Router with one action per look at the disk or change of it, and    *)
(* between any two of them other processes change the same files.  The     *)
(* directories stay.  A file is a sequence of names below the directory    *)
(* the server runs in, its content a sequence of pieces.                   *)
(***************************************************************************)
EXTENDS Router, HttpResponse

CONSTANTS
    config,     \* the ServerConfig
    Dirs,       \* the directories
    File,       \* the places in them where a file is or may be
    Content,    \* what other processes put there
    Request,    \* [method, path, version, parses, cut, announced, form, body, sent]
                \* cut: what is between the first two spaces of the request line
                \* announced: its Content-Length, of a decoded body the length
                \* sent: the parts [file, name, data] of a form a browser sends
    Printed     \* what scripts print

\* The settings that are put together to names are texts, and so are paths and
\* bodies; no block is for paths with a query; a script prints one of three kinds
\* of output; and a place is a file or a directory.
IsText(text) == text \in Seq(Range(text))
ASSUME SiteAssumption ==
    /\ IsText(config.locations) /\ IsText(Empty)
    /\ \A settings \in {config} \cup Range(config.locations) :
         IsText(settings.root) /\ IsText(settings.index)
    /\ \A location \in Range(config.locations) :
         IsText(location.path) /\ "?" \notin Range(location.path)
    /\ \A r \in Request : IsText(r.path) /\ IsText(r.body) /\ r.announced \in Nat
    /\ \A output \in Printed : output.kind \in {"nothing", "body", "headed"}
    /\ File \cap Dirs = {}

\* How a browser sends a part of a form, and which names and data it can send that
\* way: a quote in a name is escaped, and the boundary is chosen to be in no part.
Sent(part) ==
    <<Boundary, Crlf>>
    \o (IF part.file THEN <<Filename>> \o part.name \o <<Quote>> ELSE <<"field">>)
    \o <<Crlf, Crlf>> \o part.data \o <<Crlf>>
Sendable(part) ==
    /\ part.file \in BOOLEAN /\ IsText(part.name) /\ IsText(part.data)
    /\ Range(part.name) \cap {Boundary, Crlf, Quote} = {}
    /\ Boundary \notin Range(part.data)
ASSUME FormAssumption ==
    \A r \in Request : r.sent # <<>> =>
        /\ r.form /\ Sendable(r.sent[1])
        /\ IsPrefix(Sent(r.sent[1]) \o <<Boundary>>, r.body)

VARIABLES
    pc,         \* what comes next
    disk,       \* disk[f]: the content of f, Absent if there is no file
    request,
    current,    \* the file being looked at, read or written
    linked,     \* the file opened for writing is still in its place
    code,       \* the status buildErrorResponse was called with
    response

vars == <<pc, disk, request, current, linked, code, response>>

Absent == <<"absent">>
Listing == <<"listing">>
NoResponse == setStatus(NewResponse, 0)

-----------------------------------------------------------------------------
(* What the kernel makes of a name, from the directory the server runs in. *)

\* Under a file, in a directory that is not there, or above where the server runs:
\* of these nothing is modelled.
Nowhere == <<Parent>>
Reached(text) ==
    LET segments == Segments(text)
        at[k \in 0 .. Len(segments)] ==
          IF k = 0 THEN <<>>
          ELSE LET before == at[k - 1]
               IN  CASE before \notin Dirs -> Nowhere
                     [] before \in Dirs /\ segments[k] \in Nothing -> before
                     [] before \in Dirs /\ segments[k] = Parent ->
                          IF before = <<>> THEN Nowhere ELSE Front(before)
                     [] OTHER -> Append(before, segments[k])
    IN  at[Len(segments)]

isDirectory(place) == place \in Dirs
fileExists(place) == place \in File /\ disk[place] # Absent

\* What follows from a request and the configuration alone.
Routed ==
    [r \in Request |->
       LET location == FindLocation(config, r.path)
           directory == buildDirPath(config, r.path)
       IN  [location |-> location,
            tooLarge |-> r.announced > LimitOf(config, r.cut),
            script |-> isCgiRequest(config, r),
            refusal |-> Refusal(config, r),
            file |-> Reached(buildFilePath(config, r.path)),
            directory |-> Reached(directory),
            index |-> Reached(directory \o <<"/">> \o IndexOf(config, location)),
            upload |-> Upload(r),
            target |-> Reached(location.uploadStore \o <<"/">> \o Upload(r).name)]]
ErrorPage == [status \in DOMAIN config.errorPages |-> Reached(config.errorPages[status])]

-----------------------------------------------------------------------------
Init ==
    /\ pc = "idle" /\ disk \in [File -> Content \cup {Absent}]
    /\ request \in Request /\ current = <<>> /\ linked = FALSE
    /\ code = 0 /\ response = NoResponse

Unchanged == UNCHANGED <<disk, request, linked>>

\* mutant: the status of an error outlives its answer
RespondKeepingCode(r) ==
    pc' = "answered" /\ response' = r /\ current' = <<>> /\ UNCHANGED code
Respond(r) == pc' = "answered" /\ response' = r /\ code' = 0 /\ current' = <<>>
Fail(status) == pc' = "error" /\ code' = status /\ current' = <<>> /\ UNCHANGED response
Continue(next, place) == pc' = next /\ current' = place /\ UNCHANGED <<code, response>>

Receive(r) ==
    /\ pc = "idle"
    /\ pc' = "received" /\ request' = r
    /\ UNCHANGED <<disk, current, linked, code, response>>

Now == Routed[request]

\* handleRequest
Route ==
    CASE Now.refusal = 301 -> Respond(Redirect(Now.location.redirect))
      [] Now.refusal \notin {0, 301} -> Fail(Now.refusal)
      [] Now.refusal = 0 /\ request.method = "GET" -> Continue("get", Now.file)
      [] Now.refusal = 0 /\ request.method = "DELETE" -> Continue("delete", Now.file)
      [] Now.refusal = 0 /\ request.method = "POST" ->
           IF Now.location.uploadStore = Empty THEN Fail(403)
           ELSE Continue("post", Now.target)

\* processRequest: a script is looked for before the Router is asked.
ProcessRequest ==
    /\ pc = "received"
    /\ IF Now.tooLarge THEN Respond(Plain(413))
       ELSE IF ~request.parses THEN Respond(Plain(400))
       ELSE IF Now.script THEN Continue("script", <<>>) \/ Respond(Plain(500))
       ELSE Route
    /\ Unchanged

\* The script has printed all it will, or was killed at its deadline.
FinishCgi ==
    /\ pc = "script"
    /\ (\E output \in Printed : Respond(FromScript(output))) \/ Respond(Plain(504))
    /\ Unchanged

-----------------------------------------------------------------------------
(* handleGet, handleDelete, handlePost.                                    *)

GetFile ==
    /\ pc = "get"
    /\ CASE fileExists(current) -> Continue("read", current)
         [] ~fileExists(current) /\ isDirectory(Now.directory) ->
              Continue("index", Now.index)
         [] OTHER -> Fail(404)
    /\ Unchanged

GetIndex ==
    /\ pc = "index"
    /\ CASE fileExists(current) -> Continue("read", current)
         [] ~fileExists(current) /\ Now.location.autoindex -> Continue("list", <<>>)
         [] OTHER -> Fail(404)
    /\ Unchanged

\* opendir() may fail; then the directory is read.
GetListing ==
    /\ pc = "list"
    /\ Respond(Answer(200, Listing)) \/ Fail(403)
    /\ Unchanged

\* mutant: a file that cannot be opened is taken for an empty one
ReadUnchecked ==
    /\ pc = "read"
    /\ IF fileExists(current) THEN Respond(Answer(200, disk[current]))
       ELSE Respond(Answer(200, <<>>))
    /\ Unchanged
\* readFile: open() may fail for any reason; the exception reaches processRequest.
ReadFile ==
    /\ pc = "read"
    /\ \/ fileExists(current) /\ Respond(Answer(200, disk[current]))
       \/ Respond(Plain(400))
    /\ Unchanged

DeleteFile ==
    /\ pc = "delete"
    /\ CASE isDirectory(current) -> Fail(403)
         [] ~isDirectory(current) /\ ~fileExists(current) -> Fail(404)
         [] OTHER -> Continue("unlink", current)
    /\ Unchanged

Unlink ==
    /\ pc = "unlink"
    /\ \/ /\ fileExists(current)
          /\ disk' = [disk EXCEPT ![current] = Absent]
          /\ Respond(Answer(204, <<>>))
       \/ Fail(500) /\ UNCHANGED disk
    /\ UNCHANGED <<request, linked>>

\* ofstream(..., trunc), and file.is_open()
OpenUpload ==
    /\ pc = "post"
    /\ \/ /\ current \in File
          /\ disk' = [disk EXCEPT ![current] = <<>>] /\ linked' = TRUE
          /\ Continue("write", current)
       \/ Fail(500) /\ UNCHANGED <<disk, linked>>
    /\ UNCHANGED request

Kept(n) ==
    disk' = IF linked THEN [disk EXCEPT ![current] = SubSeq(Now.upload.data, 1, n)]
            ELSE disk

\* What write() leaves in the buffer is flushed by the destructor, behind
\* file.good(): a disk that is full then is not noticed.
WriteUpload ==
    /\ pc = "write"
    /\ \E n \in 0 .. Len(Now.upload.data) :
         /\ Kept(n)
         /\ \/ Respond(Answer(201, <<"created">>))
            \/ n < Len(Now.upload.data) /\ Fail(500)
    /\ linked' = FALSE /\ UNCHANGED request

-----------------------------------------------------------------------------
(* buildErrorResponse.                                                     *)

FindErrorPage ==
    /\ pc = "error"
    /\ IF code \in DOMAIN ErrorPage /\ fileExists(ErrorPage[code])
       THEN pc' = "errorPage" /\ current' = ErrorPage[code] /\ UNCHANGED <<code, response>>
       ELSE Respond(Plain(code))
    /\ Unchanged

\* mutant: the exception is answered like any other error
ReadErrorPageAgain ==
    /\ pc = "errorPage"
    /\ \/ fileExists(current) /\ Respond(Answer(code, disk[current]))
       \/ Fail(500)
    /\ Unchanged
ReadErrorPage ==
    /\ pc = "errorPage"
    /\ \/ fileExists(current) /\ Respond(Answer(code, disk[current]))
       \/ Respond(Plain(code))
    /\ Unchanged

\* queueResponse, and what follows in the event loop.
Finish ==
    /\ pc = "answered"
    /\ pc' = "idle" /\ response' = NoResponse
    /\ UNCHANGED <<disk, request, current, linked, code>>

\* Another process puts a file in the place of what is there, or takes it away.
Others ==
    \E f \in File, c \in Content \cup {Absent} :
        /\ c # disk[f]
        /\ disk' = [disk EXCEPT ![f] = c]
        /\ linked' = (linked /\ f # current)
        /\ UNCHANGED <<pc, request, current, code, response>>

ServerStep ==
    \/ ProcessRequest \/ GetFile \/ GetIndex \/ GetListing \/ ReadFile
    \/ DeleteFile \/ Unlink \/ OpenUpload \/ WriteUpload
    \/ FindErrorPage \/ ReadErrorPage \/ Finish

Next == ServerStep \/ FinishCgi \/ (\E r \in Request : Receive(r)) \/ Others

Spec == Init /\ [][Next]_vars
\* One call of processRequest goes on to its end; a script need not end.
LiveSpec == Spec /\ WF_vars(ServerStep)

-----------------------------------------------------------------------------
(* Properties.                                                             *)

\* Every variable keeps its type, and a file is only open where one may be.
TypeOK ==
    /\ pc \in {"idle", "received", "script", "get", "index", "read", "list", "delete",
               "unlink", "post", "write", "error", "errorPage", "answered"}
    /\ DOMAIN disk = File /\ request \in Request
    /\ linked => pc = "write"
    /\ pc = "write" => current \in File
    /\ (code # 0) <=> pc \in {"error", "errorPage"}
    /\ (response # NoResponse) <=> pc = "answered"

\* A request that the Router takes to the disk, and what it asks of it.
Served(r) ==
    r.parses /\ ~Routed[r].tooLarge /\ ~Routed[r].script /\ Routed[r].refusal = 0
NoDeed == [kind |-> "none", file |-> Nowhere]
Deeds ==
    [r \in Request |->
       LET routed == Routed[r]
       IN  CASE ~Served(r) -> NoDeed
             [] Served(r) /\ r.method = "GET" ->
                  IF isDirectory(routed.directory)
                  THEN [kind |-> "fetch", file |-> routed.index,
                        listed |-> routed.location.autoindex]
                  ELSE [kind |-> "fetch", file |-> routed.file, listed |-> FALSE]
             [] Served(r) /\ r.method = "DELETE" ->
                  IF isDirectory(routed.file) THEN NoDeed
                  ELSE [kind |-> "remove", file |-> routed.file]
             [] Served(r) /\ r.method = "POST" ->
                  IF routed.location.uploadStore = Empty \/ routed.target \notin File
                  THEN NoDeed
                  ELSE [kind |-> "store", file |-> routed.target,
                        data |-> routed.upload.data]]

PhaseOf ==
    CASE pc = "idle" -> "idle" [] pc = "list" -> "listing" [] pc = "write" -> "filling"
      [] pc \in {"script", "error", "errorPage", "answered"} -> "decided"
      [] OTHER -> "asked"
OutcomeOf ==
    IF PhaseOf # "decided" \/ Deeds[request].kind = "none"
    THEN [status |-> 0, content |-> <<>>]
    ELSE [status |-> IF pc = "answered" THEN response.status ELSE code,
          content |-> IF response.status = 200 /\ pc = "answered"
                      THEN response.body ELSE <<>>]
AsSite == INSTANCE Site WITH Deed <- Deeds, phase <- PhaseOf, outcome <- OutcomeOf

\* Whatever others do to the files between its system calls, every request is
\* answered as if it had been carried out at one moment: no page that was not
\* there at that moment, no 404 for one that was, no file touched but the one
\* named, and an error page never changes what the error was.
ImplementsSite == AsSite!Spec

\* The limit of the location that serves the request.
ServingLimit ==
    LET location == FindLocation(config, IF pc = "script" THEN WithoutQuery(request.path)
                                         ELSE request.path)
    IN  IF location.limit = 0 THEN config.limit ELSE location.limit

\* isBodyTooLarge looks for the location by itself, in a path it cuts out itself.  If that
\* is the path that is served, a request is refused exactly when it announces more than
\* the location that serves it allows.  (A script may say 413 of its own accord.)
LimitOfItsRoute ==
    pc \notin {"idle", "received"} /\ request.cut = request.path =>
        LET refused == pc = "answered" /\ response.status = 413
        IN  /\ request.announced > ServingLimit => refused
            /\ refused => request.announced > ServingLimit \/ Now.script

\* A path goes above its start if, up to some segment, it has more ".." than names.
Climbs(path) ==
    LET segments == Segments(path)
        Until(k, kind) == {i \in 1 .. k : segments[i] \in kind}
        Other == Range(segments) \ (Nothing \cup {Parent})
    IN  \E k \in DOMAIN segments :
          Cardinality(Until(k, {Parent})) > Cardinality(Until(k, Other))

\* A path that at any point leads above where the URL starts, and no other, is refused;
\* a script's path ends at its query.
ClimbingIsRefused ==
    /\ pc = "error" /\ code = 400 => Climbs(request.path)
    /\ pc \in {"get", "delete", "post"} => ~Climbs(request.path)
    /\ pc = "script" => ~Climbs(WithoutQuery(request.path))

AtDisk == pc \in {"get", "index", "read", "delete", "unlink"}
RootReached == Reached(RootOf(config, Now.location))
NamesIn(path) ==
    Cardinality({k \in DOMAIN Segments(path) : Segments(path)[k] \notin Nothing \cup {Parent}})

\* The location's prefix is cut off after isPathSafe has counted its names: what is left
\* of a path stays below the location's root unless it climbs itself, and then leads
\* above that root by as many names as the prefix has, and by no more.  (If what is left
\* begins with a slash; it is put behind the root as it is.)
ClimbIsBounded ==
    LET prefix == Now.location.path
        left == Relative(Now.location, request.path)
        root == RootReached
        above == IF Climbs(left) THEN NamesIn(prefix) ELSE 0
    IN  AtDisk /\ (left # <<>> => left[1] = "/") /\ current # Nowhere =>
            IsPrefix(SubSeq(root, 1, Len(root) - above), current)

\* What a browser means by a form whose first part is a file.
Meant(r) ==
    IF r.sent = <<>> \/ ~r.sent[1].file THEN [name |-> Uploaded, data |-> r.body]
    ELSE [name |-> IF r.sent[1].name = Empty \/ HasSubpath(r.sent[1].name) THEN Uploaded
                   ELSE r.sent[1].name,
          data |-> r.sent[1].data]

\* Of a form that begins with a file that file is written, line breaks and all, and
\* nothing of the form around it; any other body, also a form that begins with a field,
\* is written as it came.
UploadIsIntended ==
    pc = "write" /\ (request.form => request.sent # <<>>) => Now.upload = Meant(request)

\* Under the name the server writes itself, Content-Length is the length of the body:
\* a script's own, in the same letters, does not outlive setBody.
LengthIsTrue ==
    pc = "answered" => response.headers["Content-Length"] = Len(response.body)

\* Every request is answered, whatever fails on the way and whatever becomes of the files,
\* the error page included, unless it waits for its script for ever.
EveryRequestAnswered == pc = "received" ~> (pc = "answered" \/ [](pc = "script"))

=============================================================================
