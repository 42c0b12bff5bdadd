# webserv in TLA+

A verification development for webserv, the single-threaded HTTP/1.1 server of
this repository (`../src`). Modules of TLA+ model the server's event loop, its
CGI scripts, its request framing, its router over files that others change, and
the parser of its configuration; TLC checks them on small instances, and TLAPS
proves theorems about them for every value of their constants.

## The system

One process, one thread, one `poll()`. Every component below lives in it.

| Component | State | Operations | Interacts with | Hard behaviour |
| --- | --- | --- | --- | --- |
| `Server` | `_listenFds`, `_connections` (by descriptor), `_pollFds`, `_cgiFds`, `g_stop` | `setListenSocket`, `buildPollSet`, `dispatch`, `acceptNew`, `closeConnection`, `cleanConnectionInactive`, destructor | owns `Connection`s; looks everything up by descriptor number | numbers are reused inside a round; events of one round outlive the handlers they were polled for; SIGINT; failed start-up |
| `Connection` | `_state`, buffers, `_lastActivity`, `_cgi` | `toRead`, `toWrite`, `onCgiReadable`, `onCgiWritable`, `abortCgi`, `finishCgi`, timers | parses, routes, owns at most one `CgiHandler` | one answer per connection although several events may end a script; two timers |
| `CgiHandler` | `_pid`, two pipe ends, `_bodySent`, `_output`, `_state`, `_start` | `start`, `onReadable`, `onWritable`, `killChild`, destructor | a child process through two pipes | partial failure of `start`, POLLHUP with data, POLLERR, full pipes, `waitpid` |
| request framing (`Connection`) | `_requestReceived` | `isRequestComplete`, `hasChunkedEnd`, `unchunkBody`, `isBodyTooLarge` | the TCP stream, cut anywhere | the same request must mean the same however it is cut |
| `HttpRequest` | method, path, version, headers, body | `parse` | `Connection`, `Router` | what counts as the body |
| `Router` | none (over the file system) | `handleRequest`, `handleGet/Post/Delete`, `isCgiRequest`, `findLocation`, `isPathSafe`, `buildErrorResponse` | configuration, files, which scripts and other processes change too | first-prefix matching repeated in three places, test and use of a file, failing calls, paths, forms |
| `HttpResponse` | status, headers, body | setters, `toString` | all of the above | the length must be set after a script's headers |
| `ServerConfig`, `LocationConfig` | the settings | setters, `isMethodAllowed`, `getErrorPage` | `ConfigParser` writes them, everybody reads them | what holds when nothing is set |
| `ConfigParser` | token cursor | `tokenize`, `parseServerBlock`, `parseLocationBlock`, `parseSize` | start-up only | malformed input, cursor bounds |

What makes each correct: the **Server** hands every event to the client or
script it was polled for, keeps exactly the descriptors it has a use for, and
lets every client go; a **Connection** queues one answer and never strands its
client; a **CgiHandler** delivers the body once, collects the whole output and
leaves no process behind; the **framing** finds the same body for every
segmentation and applies the limit to it; the **Router** answers as its
configuration says; the **ConfigParser** accepts what is well formed and stays
inside its tokens.

`PROJECT.json` lists, under `hazards`, each place where the code can go wrong in
a way a test would hardly reach, with the properties that cover it.

## The modules

| Module | Models |
| --- | --- |
| `EventLoop` | `Server`, and the part of `Connection` and `CgiHandler` that owns descriptors and processes, over the kernel's descriptor and process tables |
| `Exchange` | the abstract specification: what a client is promised, whatever the loop is built from |
| `CgiHandler` | one script: the handler, both kernel pipes, and the child at the other end |
| `Framing` | how a request's end and body are found in a TCP stream |
| `CgiInheritance` | several scripts at once: what `fork()` leaves open in each of them |
| `Config` | `ServerConfig` and `LocationConfig`: defaults, setters, lookups |
| `ConfigParser` | one pass over the tokens of the configuration file |
| `ConfigReading` | the abstract counterpart: what such a file says, read as a whole |
| `Router` | what the Router makes of a request without looking at the disk |
| `HttpResponse` | responses, and the one made of a script's output |
| `RequestHandling` | a request from `processRequest` to its response, over files others change |
| `Site` | the abstract specification: each request carried out at one moment |
| `EventLoopInvariants` | theorems: types; descriptors, connections and events keep to their owner |
| `EventLoopExchange` | theorems: child processes, the shutdown, the answers, and that the loop implements `Exchange` |
| `CgiHandlerProofs`, `CgiInheritanceProofs`, `FramingProofs`, `ConfigReadingProofs`, `RequestHandlingProofs` | theorems about the module they are named after |
| `ConfigReadingLemmas` | what the reading of a file makes of one statement more |
| `MC_*` | constants for TLC |

`RequestHandling` is built from `Router`, `HttpResponse` and `Config`, and
`ConfigReading` from `ConfigParser` and `Config`; the parser fills the records the
Router reads. `EventLoop` takes of a request that it is answered or starts a
script; `RequestHandling` says which, `Framing` what its body is, and `CgiHandler`
and `CgiInheritance` look at scripts more closely than the loop does.

### EventLoop

`pc` follows `Server::start()`: `boot` (`setListenSocket`), `head` (the loop
test), `dispatch`, `clean`, `down`, and `waitpid` for the one blocking call.
`conn[fd]` and `cgi[fd]` are the `Connection` and its `CgiHandler`, or `NULL`.
`open` and `procs` are the kernel's: a new descriptor is the lowest free one, as
POSIX has it, so numbers are reused as soon as they are free.

A round is `BuildPollSet`, any number of `Dispatch(e)` steps, `EndDispatch` and
`CleanConnectionInactive`. `pollFds` holds the entries `dispatch()` has not
passed; `Rank` is their order in the vector. Dispatching `e` drops it and
everything before it: what is skipped had `revents == 0`. This lets TLC choose
what `poll()` reports without a variable for it; it only adds behaviours, since
an event may also come to be within the round. As in the code, an entry is
looked up by its number in `listenFds`, then `cgiFds`, then `conn`. `role` and
`owner` record what it was polled for, which the code does not keep: they serve
the order and the property `EventsReachTheirOwner`.

Each branch of a handler is an action: `AcceptNew`, `ClientHangup`, the five
outcomes of `toRead` (`ToReadEnds`, `ToReadMore`, `ToReadAnswers`,
`ToReadStartsScript`, `ToReadScriptFails`), `ToWrite`, `OnCgiWritable`,
`OnCgiPrinted`, `OnCgiEnds`, `OnCgiEndsEarly`. `ToReadScriptFails` gives every
failing return of `CgiHandler::start`. `killChild`'s own `waitpid` follows a
SIGKILL and is taken as immediate; `onReadable`'s may block, and is `pc =
"waitpid"`.

Ages (`idle`, `stall`) stand for `time(NULL)` less `_lastActivity` and `_start`.
The code reads the clock for each of the two by itself, the client's first, so a
second may end between the readings: `ActiveFirst` leaves the client's age at 0 or
1. More than one second does not pass between two statements of a handler, except in
`waitpid()`, whose time counts: `_lastActivity` was set before it. `Older` lets an age
grow to one past the longer timeout; the code compares it with no more.

A request is any number of pieces and an output any number of reads, so a client may
send its headers, and a script print, for ever. A body is `MaxBody` writes and a
response `ResponseLen` units, any number of which one `send()` may take.

### Exchange

A client is absent, asking, scripted, answering or leaving; a script works for
one scripted client only. `EventLoop` maps `READING`, `CGI`, `WRITING`, `DONE`
to these and its children to the helpers (`Abstract`), and TLC checks
`ImplementsExchange`.

### CgiHandler

Pipes of `PipeCap` units, `read()` of at most `ReadUnits`. `Poll` records what
poll() saw in `ready`; the script goes on while the entries are handled, so the
handlers work on a report that may be stale. `Kinds` are the scripts: `filter`
(prints as it reads), `collector` (reads all, then prints), `speaker` (prints
all, then reads), `closer` (closes its output, then reads) and `any`.

### Framing

Tokens instead of bytes: CRLF, digits, other octets, so that data may spell the
end mark. `ReadLimit` is smaller than the mark, so that it straddles reads. What
the headers announce is a field of the request; header syntax is not modelled.
`Limit` is the limit of the route, which `LimitOf` of `Router` finds, and `Size`
what `strtol` makes of a text. `WellFormed` says what a client that keeps to HTTP
sends, independently of how the code reads it: either the announced length is the
body's, or the body comes in chunks, each its size, a line end, that many tokens
of data and a line end, up to a chunk of size zero. `starts` are the places of the
size lines. A chunked request whose data spells the end mark does not count as
well formed here: that is what `framing_endmark` is about.

### CgiInheritance

No descriptor of the server is close-on-exec, so a script starts with a copy of
all of them and closes the four ends of its own pipes only. `writers`, `printers`
and `sockets` are the processes that hold the write end of a script's stdin, of
its stdout, and a client's socket; `start()` is one step for the server
(`StartCgi`) and one for the child (`ChildCloses`), and between them the child
holds its own stdin. `birth` numbers the scripts for `InputHeldByLater`; the code
does not keep it. Bytes, POLLERR and `waitpid()` are in `CgiHandler`; here the
output of a script ends when the script does.

### Config, ConfigParser, ConfigReading

The parser looks at one token at a time and never ahead, so the file is made up as
it is read: `Look(t)` appends `t` to `tokens`, and `EndOfFile` is possible at every
look. `pc` is the place of the look: `file` (`parseConfigFile`), `serverBrace` and
`server` (`parseServerBlock`), `path`, `locationBrace` and `location`
(`parseLocationBlock`), `value`, `second`, `methods` and `semicolon`
(`parseInsideBlock`). `Tested` are the looks the code tests `pos` before; at the
others, reading behind the vector may crash the program or pass for a token
(`ReadsPastEnd`). A token is a value, whose number and unit `Digits` and `Unit`
give. `slips` counts the tokens that are not usual where they are, and bounds
them.

`ConfigReading` reads the same tokens all at once, with no cursor and no state:
where statements begin, how deep they are, and the last statement of each name in
a block. `AcceptedAsWritten` and `RefusedWithReason` compare the two.

### Router, HttpResponse, RequestHandling, Site

A path is a sequence of `/`, `.`, `?` and words, as fine as the Router takes it
apart; the body of a form is a sequence of its boundaries, line breaks, header
pieces and data. `Router` holds the functions without a system call, `Routed` all
that follows from a request and the configuration alone.

In `RequestHandling` every look at the disk and every change of it is an action of
its own, in the order of the code: `GetFile` (`fileExists`, `isDirectory`),
`GetIndex`, `ReadFile`; `DeleteFile` (`stat`), `Unlink`; `OpenUpload` (the file is
truncated), `WriteUpload`; `FindErrorPage`, `ReadErrorPage`. `Others` may replace,
create or remove any file between any two of them: scripts do, since the server
does not wait for one to serve another client, and so do the people who keep the
site. Two requests are never handled at once, as the process has one thread.
Every call may fail; `write()` may keep any beginning of the data, and what is
flushed by the destructor of the stream only after `good()` was asked may be
lost silently. Directories do not change.

`isBodyTooLarge` reads the raw request by itself: `announced` is the Content-Length it
finds (after unchunking, the decoded length), whatever the length of `body` is, and
`cut` what is between the first two spaces of the request line, where
`HttpRequest::parse` reads words whatever is between them into `path`. `Reached`
follows a file's name from the server's directory; above it, it is `Nowhere`.

A request carries what its sender meant: `sent` are the parts a browser was asked
to put into a form, and `Sent` how it does so. Requests with `form` and no `sent`
are of other clients, whose body may be anything.

`Site` is what a user may expect of this: a request is one step, taken at some
moment between its arrival and its answer, at which the file was as the answer
says. Only an upload is two, as the file is empty in between. `Deeds` maps a
request to what it asks of the disk, `PhaseOf` and `OutcomeOf` the rest.

Operators introduced by a comment `mutant:` are small wrong variants of the
operator that follows them; no specification uses them. They show that each
property depends on the code it is about.

## The runs

| Run | Shows | Bounds |
| --- | --- | --- |
| `loop_safety` | `TypeOK`, `FdOwnership`, `NeverStranded`, `SingleAnswer`, `EventsReachTheirOwner`, `ImplementsExchange`, `AnswerIsFinal` | 3 clients, 1 script at a time, 6 descriptors beside the standard ones: beside a second client a script cannot have all four pipe ends; responses of 2 units, of which `send()` may take one |
| `loop_liveness` | `EveryClientReleased`, `SigintHonoured`, `AlwaysPollsAgain`, `ChildOwnership`, `IdleWithinStall`, `CleanShutdown` | 2 listeners, 2 clients, 2 scripts without a body, timeouts of 0 and 1, `ExitingSpec` |
| `loop_blocked` | violates `AlwaysPollsAgain` | `FairSpec`: nothing assumed of scripts |
| `cgi_safety` | `TypeOK`, `AnswerIsComplete`, `BodyFedOnce`, `CompleteAnswer` | bodies to 3 units, pipes of 2, script `any` and those that read their input |
| `cgi_runaway` | violates `RunawayIsClosed` | script `closer` |
| `cgi_failed` | violates `FailedMeansKilled` | script `any` |
| `cgi_inheritance` | `TypeOK`, `InputHeldByLater`, `OutputEndsWithScript`, `EmptyInputEnds`, `EndsAreSeen` | 3 clients, 2 scripts side by side |
| `framing_wellformed` | `TypeOK`, `WindowSuffices`, `BodyIsIntended`, `LimitEnforced`, `EndIsSeen` | every body of up to 4 tokens, chunked in every way or announced |
| `framing_endmark` | violates `EndMeansTerminator` | chunk data that spells the end mark |
| `framing_overlimit` | violates `NothingOverLimit` | bodies larger than announced, or not announced |
| `config_reading` | `TypeOK`, `AcceptedAsWritten`, `RefusedWithReason`, `OnlyLocationOverruns` | files of up to 11 tokens, one of which may be any token; numbers that do not fit and sizes that wrap |
| `site` | `TypeOK`, `LimitOfItsRoute`, `ClimbingIsRefused`, `ClimbIsBounded`, `UploadIsIntended`, `LengthIsTrue`, `ImplementsSite`, `EveryRequestAnswered` | 6 locations, 4 files with one content, one of them also the error page, a request or a few for each way through the Router |

Two clients and two scripts give every coincidence of two clients' events and of
four pipe ends. The third client is needed for reuse: only then can the lowest free
numbers become a script's pipes and later, once it has ended, a client, which is
when a stale lookup table would mislead. Timeouts of 0 or 1 tick keep every order of
the two timers; `IdleWithinStall` is checked where the longer one is 1, so that the
ages can differ by more than it allows. Pipes smaller than the body make both sides
wait; reads shorter than the end mark cut it everywhere. Two scripts of three
clients are started in either order, before or after the third client came, so that
a copy is or is not made of every descriptor. Eleven tokens hold a server block with
a location block of one directive, two directives, or two empty server blocks; one
token out of place at every look covers each throw, and each value that looks like
something else. One content beside "absent" and "empty" tells a page that was there
from one that was not and from one that was being uploaded; the paths of
`MC_RequestHandling` reach each branch of the Router, and two of the six locations
overlap and one ends in a slash.

### Fairness

`FairSpec` assumes that the process is scheduled and that time passes, nothing else:
no client has to send or read, poll() need not report anything. `ExitingSpec` adds
that the script the server waits for exits; `loop_blocked` shows that this is
needed. No timeout ends a client that sends a piece of its headers every now and
then, nor a script that prints every now and then, and the code limits neither;
`EveryClientReleased` says so: a client is let go, or drips for ever (`Drips`), or
its script prints for ever (`PrintsOn`). In `CgiHandler`, `SharedSpec` assumes that
a script which reads its input to the end does what it can, and nothing of the
others, `FairSpec` that any script does: statements about the script. In
`CgiInheritance`, `FairSpec` has the clock run, the sweep find what is too late and
answers be sent, as each round of the loop does. That there are rounds rests on
scripts keeping their stdout open until they end (`loop_blocked`); nothing else is
assumed of them, and a script that prints for ever, which the sweep never finds,
keeps what it inherited: `EndsAreSeen` names it. In `Framing`, what a client sends
arrives. In `RequestHandling`, `LiveSpec` has the server go on with the request at
hand, as the thread does. A script need not end and its deadline need not come, so
`EveryRequestAnswered` leaves out requests that wait for their script for ever; when
there are such is the matter of `EventLoop`.

### What the violations say

- `loop_blocked`: `CgiHandler::onReadable` waits for the child when its stdout
  ends. A script may close its stdout and go on; the whole server then stops,
  also for SIGINT. The README promises that one slow client cannot block others.
- `cgi_runaway`: the same wait, with the script's stdin still open, is a deadlock
  if the script reads its input to the end. No timeout ends it, although runaway
  scripts are said to be closed.
- `cgi_failed`: POLLERR on a full stdin pipe that the script no longer reads is
  handled as output; `read()` returns EAGAIN and the client gets 502.
- `framing_endmark`: the end mark is searched for in the raw bytes, so data that
  spells it ends the request when a read stops there.
- `framing_overlimit`: the limit is compared with Content-Length, while the body
  is all that follows the headers.

### What the models show beside that

No run is needed to see these; they are in the models as they are in the code, and the
properties beside them are stated so that they say what does hold.

- `isPathSafe` counts from the start of the URL, but the location's prefix is cut off
  before the rest is put behind its root. `GET /dir/../page` is safe by that count and
  reads `./w/dir/../page`, beside the root of `/dir`, although the README refuses with
  400 what would leave the root (`src/README.md:54`). `ClimbIsBounded` says by how much
  a path can leave it, and that it cannot if what is left of it does not climb.
- Root and rest are joined as they are. Where the prefix ends in a slash (`location /`)
  there is none left between them: `./wwwpage` for `/page`, although `root` is said to
  be the directory the URL is resolved against (`src/README.md:138`).
- `isBodyTooLarge` cuts the path out of the request line by itself. With two spaces
  behind the method it finds an empty one and applies the server's limit, while
  `HttpRequest::parse` finds the path, whose location serves the body even if it is over
  its own limit. `LimitOfItsRoute` supposes that both find the same path (`cut`).
- A location's `client_max_body_size` may raise the server's limit as well as lower it;
  `src/README.md:140` and the comment at `src/src/server/Connection.cpp:322` speak of
  lowering only.
- `startCgi` comes before the Router's tests of the version and of the supported
  methods, and `isCgiRequest` has neither: a script answers HTTP/1.0, which
  `src/README.md:62` gives a 505, and, where its location has no `allowed_methods`,
  a PUT or DELETE, although the comment at `src/src/server/Connection.cpp:430` says
  that only GET and POST reach one.
- A script's `content-length`, in other letters than the server's own, is another key
  of the header map and is sent beside it, although the comment at
  `src/src/server/Connection.cpp:559` says that a stale length cannot desynchronise the
  answer. `LengthIsTrue` is about the server's spelling.
- A `client_max_body_size` of 0 is taken as not set.
- `LocationConfig` starts with the root `./www`, so a `root` in the server block
  is never inherited by a location.
- A form whose first part is not a file is stored as it came, boundaries and all.
- `writeFile` asks `good()` before the stream is flushed: 201 does not mean that
  the file is complete.

## The proofs

Each theorem holds for all constants that satisfy the named assumptions of its
module. Those of `EventLoop`: at least one listener and a response of at least one
unit (`LimitsAssumption`), a script timeout no longer than the connection timeout
(`TimeoutAssumption`; the code has 5 and 30 seconds), and values for "none" that
are no process id, connection or handler (`NoPidAssumption`, `NullAssumption`).
`EventLoopExchange` builds on `EventLoopInvariants`.

`EventLoopInvariants`. `TypeCorrect`: `Spec => []TypeOK`. The inductive invariant
`TypeInv` adds that a client whose script is waited for is there and has a
handler (`WaitsForScript`), which `finishCgi` needs when `waitpid()` returns.
Lemmas `ConnTypes` and `HandlerTypes` give the types of what the methods do to
their object; `ClientEventTypes` and `PipeEventTypes` have a step per handler.

In the same module, `DescriptorsAreOwned` (`FdOwnership`), `NobodyIsStranded`
(`NeverStranded`) and `EventsAreNotMisrouted` (`EventsReachTheirOwner`). None of
the three is inductive alone. To know that `closeFds()` closes the handler's own
pipe one must know whose event was handled; to know that, that no number in the
poll vector changed hands within the round; to know that, that a client whose
pipes were polled is in state CGI until its handler is gone. `LoopInv` is their
conjunction with `TypeInv` and `RoundInv`, which says of the entries ahead of
`dispatch()` what no property needs to say: the client that is waited for has no
client entry left, and a client whose pipes were polled is not reading, so it
cannot start a second script in that round. `finished \subseteq Clients` makes
`closeConnection()` at the end of the round meet clients only. Every handler of
`dispatch()` is first shown to be a `HandlerStep`: it touches its own client and
that client's pipes, and nothing else. `HandlerStepKeeps` then preserves
`LoopInv` once for all of them, by `FdStep` (one client exchanges its pipes for
fresh ones or none) and `EventsStep` (what that does to the later entries);
`FdRelease` does the same for the end of the round and the sweep.

`EventLoopExchange`. `ChildrenAreOwned` (`ChildOwnership`), inductive together
with `LoopInv`: handlers go with their child (`ChildRelease`), and a script is
started under an id nobody has (`ChildStart`). From it and `FdOwnership`,
`ShutdownIsClean` (`CleanShutdown`). `ConnMove` lists the five things a step can do
to a `Connection` that stays, `HandlerMove` what it can do to its handler and to
the two clocks; `StepMoves` shows that no step does anything else. From these
follow `OneAnswerEach` (`SingleAnswer`), `AnswersAreFinal` (`AnswerIsFinal`),
`StallIsSeenFirst` (`IdleWithinStall`: the client's age runs ahead of the script's by
at most the second between the two readings of the clock, whatever handler set them)
and `LoopImplementsExchange` (`ImplementsExchange`): the destructor is
`Halt`, every other step before it serves, and after it nothing changes.

`CgiHandlerProofs` (`ScriptAssumption`: sizes are numbers, a pipe and a read hold at
least one unit). `AnswersAreComplete`, `BodiesAreFedOnce` and `TypeCorrect`. `IInv`
adds `Kept`: what a script printed is in the pipe or in the handler; `Last`: an
answer is the end of the script; and `Waiting`: `waitpid()` is entered with the
output at its end, or given up. Without the latter, the verdict after `waitpid()`
could be a 200 while something is still in the pipe.

`CgiInheritanceProofs` (`InheritanceAssumption`: the server is not a client).
`NoCircle`, `OwnOutput`, `EndOfEmptyInput` and `TypeCorrect`. That a copy is held
by a later script only rests on scripts being counted (`Counted`), on a script
that is not started having no pipes, and on the server holding the write end only
while a part of the body is left (`ServerFeeds`), which also keeps an empty input
from being handed on.

`FramingProofs` (`FramingAssumption`: a read returns at least one token, `Size`
gives numbers, that of `0` is zero, and a request that is marked well formed is).
`IInv` is the conjunction of the four properties with `NotEnded`.

- `WindowIsEnough` (`WindowSuffices`): the search of the tail finds the end mark
  exactly when the whole buffer has it. `NotEnded` says that a connection that
  still reads has not seen the end: a mark further to the front than the window was
  complete before the last read, and would have ended the request then.
- `BodyArrives` (`BodyIsIntended`): of a well-formed request, in any pieces and with
  nothing sent behind it, the body handed on is the one meant. The loop of
  `unchunkBody` is the recursive function `Decode`. That such a function exists
  (`DecodingExists`), yields tokens, and from the start of each chunk on yields what
  is left of the data (`FromChunkOn`) is induction over positions, and is done by a
  least or a last counterexample (`LeastNumber`, from the library's `WFMin`): the
  theorems of the library that take an operator cannot be used. `MarkIsTheEnd`: a
  chunked well-formed request is complete at its last token and not before.
- `LimitHolds` (`LimitEnforced`) and `TypeCorrect` follow. Of requests that are not
  well formed nothing is proved: `framing_overlimit` and `framing_endmark` show that
  neither holds of them.

`ConfigReadingProofs` (`TokenAssumption`: a token has a number or none, sizes are
computed modulo a positive number). `TypeCorrect`: whatever is read, all the parser
builds fits `ServerConfig` and `LocationConfig`, and a refused file leaves nothing.
`Begun` adds that a directive belongs to the block it stands in, without which a
value could be given to a setter the block does not have, and that the word
`location` was read right before the one look no test of `pos` precedes; this is
`OverrunsAreKnown` (`OnlyLocationOverruns`).

- `AcceptedIsWritten` (`AcceptedAsWritten`): of every file that is accepted, the
  servers returned are what the file says when it is read as a whole. The
  inductive invariant `ReadSoFar` says so at every look of the parser: between
  statements, that the tokens up to there are complete statements, each all right in
  its block, and that `server`, `location` and `servers` are the reading of the
  open server block, the open location and the closed blocks (`AtFile`, `AtServer`,
  `AtLocation`); within a statement, that this held before it and which of its
  tokens have come; before a `{` or `;`, that it will hold when that comes.
- `ConfigReadingLemmas` has what the step needs. `Reading` finds statements by
  closing a set of places under their widths, depth by counting braces, a setting as the
  last of its name, and the order of blocks by sorting places. `HeadsAreUnique`
  and `NextHeads` say that a statement more adds one place and moves none;
  `DepthNext`, `InsideNext` and `OneOpen` where it stands, and that only one block
  of a kind is open; `LocationNext` and `ServerNext` what it changes of
  the reading, setting by setting, and `LocationDirective`, `ServerDirective`,
  `ServerBegins`, `ServerEnds`, `LocationBegins` and `LocationEnds` that the
  parser changes the same. So the induction over the file is the one over the steps of
  the parser; numbers below a bound have a least element by `WFMin`.
- `RefusedForGood` and `RefusedIsWrong` (`RefusedWithReason`): an exception is thrown
  only at a file that is none. The run tries the endings in `Endings`; the first
  theorem is about all continuations, of whatever tokens (`Hopeless`). Beside
  `ReadSoFar` it needs how much of the statement at hand is there (`Awaited`). Complete
  statements stay where and as deep as they were, however the file goes on
  (`HeadsKept`, `DepthStays`), so that a well-formed file has a statement that is all
  right behind them (`GoesOnWell`), and each refusal denies one of the things such a
  statement has: its name (`WrongName`), the brace or semicolon at its place
  (`WrongToken`), a value that is accepted (`WrongValue`), a method (`NoMethods`); at
  the end of the file, those that are still missing (`TooShort`, `MethodsCut`), a
  server (`FileHasServer`), or a port of its own.

`RequestHandlingProofs`. `SiteAssumption`: settings, paths and bodies are texts, no
location has a `?` in its path, and no place is both a file and a directory.
`FormAssumption`: what `sent` means, namely that the body begins with the first
part as a browser writes it and the boundary behind it; a browser escapes quotes in
a name and chooses a boundary that is in no part. `IInv` says which request is
served in which step and that the file at hand is the one it asks for (`Pursued`),
and that every response was measured last, that 413 is said for what is too large, and
that nothing too large is worked on (`Replied`).

- `TypeCorrect`, and `LengthsAreTrue` (`LengthIsTrue`): under the name the server
  itself writes, the length is the body's; other spellings are another header to
  this code.
- `HandlingImplementsSite` (`ImplementsSite`): every action is a step of `Site` or
  changes nothing there. The one fact that is not control is `IndexOfDirectory`:
  when the path of a request names a directory, the file found under
  `buildFilePath` can only be its index, so that the two ways `handleGet` has to an
  index page agree. It needs no more than that joining texts is associative.
- `LimitsAreTheRoutes` (`LimitOfItsRoute`): `isBodyTooLarge` looks for the location
  itself, with the query still on the path, and `isCgiRequest` without it. As no
  location has a `?` in its path, both find the same block (`QueryIsBehind`,
  `BlockOfScript`), so that what is announced is held to the limit of the block the
  request is served in, provided that `cut` is the path, without which it is not so.
  A script may say 413 for its own reasons, which the property leaves open.
- `ClimbersAreRefused` (`ClimbingIsRefused`): `isPathSafe` keeps a running count
  and stops when it is negative; the property counts, at every point of the path
  (of a script's, up to its query: `QueryIsCut`), the `..` and the names up to there.
  This is from the start of the URL; what becomes of it below the location's
  root is `ClimbIsBounded`.
  `DepthIsHeight` shows that the count is the
  difference, again by a least counterexample.
- `UploadsAreIntended` (`UploadIsIntended`): `Layout` gives the place of every
  piece of a part in the body, for names and data of every length; `FoundInBody`
  and `NameInHeader` that each `find()` of `extractMultipart` stops at the piece it
  is meant for and at none in front of it, although the data may contain line ends
  and whatever looks like a header.

Model-checked only: liveness, which is out of the prover's reach (fairness and
`ENABLED`), and `ClimbIsBounded`. Every other invariant and action property of the
passing runs is a theorem.

## What is not modelled

- `HttpResponse::toString`, the texts of statuses, content types, and the markup of
  a listing: formatting on which no control depends. `setDefaultErrorPage` is
  never called.
- The syntax of request lines and header fields (`HttpRequest::parse`,
  `getHeaderValue`): what they say is a field of the request.
- The environment of a script and its argument vector (`startCgi`, `buildArray`,
  `splitScriptPath`), which only format the request.
- `ConfigParser::tokenize`, which splits a text; getters, copy constructors and
  assignments.
- Sizes near 2^64 in chunk headers, the rate at which the loop runs when
  `accept()` fails, and memory: `PROJECT.json` names them under `hazards`.

## Plan

1. Done: `EventLoop` and `Exchange`, `CgiHandler`, `CgiInheritance`, `Framing`,
   `Router`, `HttpResponse`, `RequestHandling` and `Site`, `Config`,
   `ConfigParser` and `ConfigReading`; the theorems above, one for every invariant
   and action property of the passing runs but `ClimbIsBounded`.
2. To come: a proof of `ClimbIsBounded`, by a joint count over prefix and rest;
   requests with another one behind them; chunk sizes with their width; the two
   header parsers (`getHeaderValue` takes the first of two fields of one name,
   `HttpRequest::parse` the last) and what follows when they disagree.
