-------------------------- MODULE CgiInheritance --------------------------
(***************************************************************************)
(* What scripts inherit.  CgiHandler::start forks without close-on-exec:   *)
(* a child starts with a copy of every descriptor the server has open, and *)
(* closes only the four ends of its own two pipes.  Other scripts' stdin   *)
(* and the clients' sockets therefore stay open in it, and what closing    *)
(* them in the server should tell (the end of the input, the end of the    *)
(* answer) is not seen before the child ends.                              *)
(*                                                                         *)
(* A client asks for at most one script, so a script goes by the name of   *)
(* its client.  For each end of a pipe or socket whose closing means       *)
(* something, the processes that hold it open are a variable.  Scripts     *)
(* read, print and exit as they like, but keep stdout open until they end:  *)
(* modules EventLoop and CgiHandler show what the server does otherwise.   *)
(***************************************************************************)
EXTENDS Integers

CONSTANTS
    Client,      \* clients, and the scripts run for them
    Server,      \* the server process
    MaxBody,     \* bound: write() calls a request body takes
    MaxForks,    \* bound: scripts started
    CgiTimeout   \* cgiTimeout, in ticks of time()

ASSUME InheritanceAssumption ==
    /\ Server \notin Client
    /\ MaxBody \in Nat /\ MaxForks \in Nat
    /\ CgiTimeout \in Nat

VARIABLES
    forks,      \* scripts started so far
    birth,      \* birth[c]: the value of forks when c's script was started, 0 before
    process,    \* "none", "forked", "running", "exited", "reaped"
    body,       \* body[c]: the request body, in write() calls
    unsent,     \* what of it is left
    stall,      \* now - _start
    writers,    \* who holds the write end of c's script's stdin
    printers,   \* who holds the write end of its stdout
    sockets,    \* who holds c's socket
    client      \* "none", "waiting", "answered", "closed"

pipes == <<writers, printers>>
vars == <<forks, birth, process, body, unsent, stall, writers, printers,
          sockets, client>>

Process == {Server} \cup Client
Alive(c) == process[c] \in {"forked", "running"}
Unreaped(c) == process[c] \in {"forked", "running", "exited"}

Init ==
    /\ forks = 0
    /\ birth = [c \in Client |-> 0]
    /\ process = [c \in Client |-> "none"]
    /\ body = [c \in Client |-> 0] /\ unsent = body
    /\ stall = [c \in Client |-> 0]
    /\ writers = [c \in Client |-> {}] /\ printers = writers
    /\ sockets = writers
    /\ client = [c \in Client |-> "none"]

-----------------------------------------------------------------------------
(* Descriptors of several processes.                                       *)

\* fork(): the child holds whatever the server holds.
Inherited(ends, child) ==
    [c \in Client |-> IF Server \in ends[c] THEN ends[c] \cup {child} ELSE ends[c]]

\* close() in one process, and the end of a process, which closes all it holds.
Closed(ends, c, p) == [ends EXCEPT ![c] = @ \ {p}]
Released(ends, p) == [c \in Client |-> ends[c] \ {p}]

\* killChild() and waitpid(), or waitpid() alone: script c is no more.
Ends(c) ==
    /\ process' = [process EXCEPT ![c] = "reaped"]
    /\ printers' = Released(printers, c)

\* c's handler is deleted: closeFds(), and nothing is counted any more.
HandlerGone(c) == Closed(Released(writers, c), c, Server)
Forgotten(c) ==
    /\ unsent' = [unsent EXCEPT ![c] = 0]
    /\ stall' = [stall EXCEPT ![c] = 0]

\* mutant: a script that is too slow is given up, not killed
ScriptLeftAlone(c) ==
    /\ writers' = Closed(writers, c, Server)
    /\ UNCHANGED <<process, printers, sockets>>
ScriptKilled(c) ==
    /\ Ends(c)
    /\ writers' = HandlerGone(c)
    /\ sockets' = Released(sockets, c)

-----------------------------------------------------------------------------
(* The server.                                                             *)

\* acceptNew()
Accept(c) ==
    /\ client[c] = "none"
    /\ client' = [client EXCEPT ![c] = "waiting"]
    /\ sockets' = [sockets EXCEPT ![c] = {Server}]
    /\ UNCHANGED <<forks, birth, process, body, unsent, stall, pipes>>

\* start(): pipe(), pipe(), fork(), and in the parent close(inPipe[0]),
\* close(outPipe[1]) and, when there is no body, close(_inFd).
NewStdin(c) == [writers EXCEPT ![c] = {Server}]
NewStdout(c) == [printers EXCEPT ![c] = {Server}]

\* mutant: an empty body leaves the script's stdin open
KeepsStdin(ends, c, size) == ends
CloseEmpty(ends, c, size) == IF size = 0 THEN Closed(ends, c, Server) ELSE ends
\* mutant: the parent keeps the script's end of stdout
KeepsOutPipe(ends, c) == ends
CloseOutPipe(ends, c) == Closed(ends, c, Server)

StartCgi(c) ==
    /\ client[c] = "waiting" /\ process[c] = "none" /\ forks < MaxForks
    /\ \E size \in 0 .. MaxBody :
         /\ body' = [body EXCEPT ![c] = size]
         /\ unsent' = [unsent EXCEPT ![c] = size]
         /\ writers' = CloseEmpty(Inherited(NewStdin(c), c), c, size)
    /\ printers' = CloseOutPipe(Inherited(NewStdout(c), c), c)
    /\ sockets' = Inherited(sockets, c)
    /\ process' = [process EXCEPT ![c] = "forked"]
    /\ forks' = forks + 1
    /\ birth' = [birth EXCEPT ![c] = forks']
    /\ UNCHANGED <<stall, client>>

\* A request without a script, or whose script could not be started.
AnswerDirectly(c) ==
    /\ client[c] = "waiting" /\ process[c] = "none"
    /\ client' = [client EXCEPT ![c] = "answered"]
    /\ UNCHANGED <<forks, birth, process, body, unsent, stall, pipes, sockets>>

\* onWritable(): another part of the body; after the last one stdin is closed.
\* mutant: the body is sent once more
FedOnceMore(c) == [unsent EXCEPT ![c] = @ - 2]
Fed(c) == [unsent EXCEPT ![c] = @ - 1]

OnCgiWritable(c) ==
    /\ client[c] = "waiting" /\ Server \in writers[c]
    /\ Alive(c)
    /\ unsent' = Fed(c)
    /\ stall' = [stall EXCEPT ![c] = 0]
    /\ writers' = IF unsent'[c] <= 0 THEN Closed(writers, c, Server) ELSE writers
    /\ UNCHANGED <<forks, birth, process, body, printers, sockets, client>>

\* onWritable(): nobody reads any more (EPIPE).
OnCgiBroken(c) ==
    /\ client[c] = "waiting" /\ Server \in writers[c]
    /\ process[c] \in {"running", "exited"}
    /\ writers' = Closed(writers, c, Server)
    /\ UNCHANGED <<forks, birth, process, body, unsent, stall,
                   printers, sockets, client>>

\* The script prints, and onReadable() takes it.
OnCgiPrinted(c) ==
    /\ client[c] = "waiting" /\ process[c] = "running"
    /\ stall' = [stall EXCEPT ![c] = 0]
    /\ UNCHANGED <<forks, birth, process, body, unsent, pipes, sockets, client>>

\* onReadable() reads 0, which it does when nobody holds the other end; the
\* script is waited for and finishCgi() answers.
OnCgiEnds(c) ==
    /\ client[c] = "waiting" /\ process[c] = "exited" /\ printers[c] = {}
    /\ Ends(c)
    /\ writers' = HandlerGone(c)
    /\ client' = [client EXCEPT ![c] = "answered"]
    /\ Forgotten(c)
    /\ UNCHANGED <<forks, birth, body, sockets>>

\* cleanConnectionInactive(): killChild() and 504.
TimedOut(c) == Unreaped(c) /\ stall[c] > CgiTimeout

AbortCgi(c) ==
    /\ client[c] = "waiting" /\ TimedOut(c)
    /\ ScriptKilled(c)
    /\ client' = [client EXCEPT ![c] = "answered"]
    /\ Forgotten(c)
    /\ UNCHANGED <<forks, birth, body>>

\* closeConnection(): the answer was sent, or the client left and its script is
\* killed by the destructor.
HangUp(c) ==
    /\ client[c] = "waiting"
    /\ IF process[c] \in {"none", "reaped"}
       THEN /\ sockets' = Closed(sockets, c, Server)
            /\ UNCHANGED <<process, pipes>>
       ELSE /\ Ends(c)
            /\ writers' = HandlerGone(c)
            /\ sockets' = Closed(Released(sockets, c), c, Server)
    /\ client' = [client EXCEPT ![c] = "closed"]
    /\ Forgotten(c)
    /\ UNCHANGED <<forks, birth, body>>

CloseConnection(c) ==
    /\ client[c] = "answered"
    /\ sockets' = Closed(sockets, c, Server)
    /\ client' = [client EXCEPT ![c] = "closed"]
    /\ UNCHANGED <<forks, birth, process, body, unsent, stall, pipes>>

-----------------------------------------------------------------------------
(* The scripts and the clock.                                              *)

\* The child closes the ends of its own pipes before it becomes the script.
\* mutant: the child keeps the write end of its own stdin
ClosesNothing(c) == writers
ClosesInPipe(c) == Closed(writers, c, c)

ChildCloses(c) ==
    /\ process[c] = "forked"
    /\ process' = [process EXCEPT ![c] = "running"]
    /\ writers' = ClosesInPipe(c)
    /\ UNCHANGED <<forks, birth, body, unsent, stall, printers, sockets, client>>

ScriptExits(c) ==
    /\ Alive(c)
    /\ process' = [process EXCEPT ![c] = "exited"]
    /\ writers' = Released(writers, c) /\ printers' = Released(printers, c)
    /\ sockets' = Released(sockets, c)
    /\ UNCHANGED <<forks, birth, body, unsent, stall, client>>

\* time() moves for all scripts that are waited for; it is kept only up to the
\* first tick that is too late.
Tick ==
    /\ \E c \in Client : Unreaped(c) /\ stall[c] <= CgiTimeout
    /\ stall' = [c \in Client |->
                   IF Unreaped(c) /\ stall[c] <= CgiTimeout THEN stall[c] + 1 ELSE stall[c]]
    /\ UNCHANGED <<forks, birth, process, body, unsent, pipes, sockets, client>>

Over ==
    /\ \A c \in Client : client[c] = "closed" /\ process[c] \in {"none", "reaped"}
    /\ UNCHANGED vars

ServerStep(c) ==
    \/ Accept(c) \/ StartCgi(c) \/ AnswerDirectly(c) \/ OnCgiWritable(c)
    \/ OnCgiBroken(c) \/ OnCgiPrinted(c) \/ OnCgiEnds(c) \/ AbortCgi(c)
    \/ HangUp(c) \/ CloseConnection(c)
ScriptStep(c) == ChildCloses(c) \/ ScriptExits(c)

Next == (\E c \in Client : ServerStep(c) \/ ScriptStep(c)) \/ Tick \/ Over

Spec == Init /\ [][Next]_vars

\* The clock runs, the sweep finds what is too late, and answers are sent: the loop
\* goes round, which it does while no script closes its stdout before it ends.  Nothing
\* else is assumed of scripts.
FairSpec ==
    /\ Spec
    /\ WF_vars(Tick)
    /\ \A c \in Client :
         WF_vars(AbortCgi(c)) /\ WF_vars(OnCgiEnds(c)) /\ WF_vars(CloseConnection(c))

-----------------------------------------------------------------------------
(* Properties.                                                             *)

TypeOK ==
    /\ forks \in Nat
    /\ birth \in [Client -> Nat]
    /\ process \in [Client -> {"none", "forked", "running", "exited", "reaped"}]
    /\ body \in [Client -> 0 .. MaxBody]
    /\ unsent \in [Client -> 0 .. MaxBody]
    /\ stall \in [Client -> 0 .. (CgiTimeout + 1)]
    /\ writers \in [Client -> SUBSET Process]
    /\ printers \in [Client -> SUBSET Process]
    /\ sockets \in [Client -> SUBSET Process]
    /\ client \in [Client -> {"none", "waiting", "answered", "closed"}]

\* Apart from the server, a script's input is held open only by scripts that were
\* started later (fork() copies _inFd), or by itself until it has closed its own
\* ends.  Waiting for the end of one's input therefore never goes round in a
\* circle.
InputHeldByLater ==
    \A c, d \in Client :
      d \in writers[c] =>
        \/ d = c /\ process[c] = "forked"
        \/ birth[c] < birth[d] /\ Alive(d)

\* The end of a script's output depends on that script alone: however many others
\* are running, onReadable() sees it when the script has exited.
OutputEndsWithScript ==
    \A c \in Client : printers[c] \subseteq {c}

\* A script without a body sees the end of its input straight away, whatever is
\* running beside it and whatever is started later (CgiHandler::start).
EmptyInputEnds ==
    \A c \in Client :
      process[c] = "running" /\ body[c] = 0 => writers[c] = {}

\* What the server has closed is closed for good: a client that waits for the end
\* of its answer, and a script that waits for the end of its input, see it once
\* the scripts that hold copies have ended or were timed out.  A script that prints
\* again and again is never timed out, and keeps what it holds.
PrintsOn(d) == []<><<OnCgiPrinted(d)>>_vars
EndsAreSeen ==
    \A c \in Client :
      /\ \/ client[c] = "closed" ~> sockets[c] = {}
         \/ \E d \in Client : <>[](d \in sockets[c]) /\ PrintsOn(d)
      /\ \/ (process[c] # "none" /\ Server \notin writers[c]) ~> writers[c] = {}
         \/ \E d \in Client : <>[](d \in writers[c]) /\ PrintsOn(d)

=============================================================================
