----------------------------- MODULE EventLoop -----------------------------
(***************************************************************************)
(* The single-threaded poll() loop of webserv: Server (the loop and its    *)
(* tables), Connection (one client) and CgiHandler (one script and its two *)
(* pipes), over the part of the kernel they depend on: the table of open   *)
(* descriptors, which hands out the lowest free number, and the table of   *)
(* child processes.                                                        *)
(*                                                                         *)
(* The bytes of a request, of an answer and of a script's output are       *)
(* counted, not modelled; module Framing models the bytes of a request and *)
(* module CgiHandler the bytes in a script's pipes.  What poll() reports   *)
(* is chosen when the entry is dispatched: an entry that is skipped is one *)
(* whose revents was 0.                                                    *)
(***************************************************************************)
EXTENDS Integers, FiniteSets

CONSTANTS
    FdLimit,            \* the process's descriptor limit: 3 .. FdLimit-1 are usable
    Blocks,             \* server blocks of the configuration, one listener each
    Pid,                \* process ids a fork() may return
    NoPid,              \* _pid == -1
    NULL,               \* no Connection, no CgiHandler
    MaxClients,         \* bound: clients connected at the same time
    MaxBody,            \* bound: write() calls a request body needs
    ResponseLen,        \* send() units of a response
    ConnectionTimeout,  \* connectionTimeout, in ticks of time()
    CgiTimeout          \* cgiTimeout, in ticks of time()

Fd == 3 .. (FdLimit - 1)
NoFd == -1

ASSUME LimitsAssumption ==
    /\ FdLimit \in Nat /\ Blocks \in Nat \ {0}
    /\ MaxClients \in Nat /\ MaxBody \in Nat /\ ResponseLen \in Nat \ {0}
ASSUME TimeoutAssumption ==
    /\ ConnectionTimeout \in Nat /\ CgiTimeout \in Nat
    /\ CgiTimeout <= ConnectionTimeout
ASSUME NoPidAssumption == NoPid \notin Pid

VARIABLES
    pc,         \* where Server::start() is
    stop,       \* g_stop
    listenFds,  \* the keys of Server::_listenFds
    conn,       \* Server::_connections, by client descriptor
    cgi,        \* Connection::_cgi, by client descriptor
    pollFds,    \* the entries of Server::_pollFds that dispatch() has not passed
    cgiFds,     \* Server::_cgiFds: which client owns a pipe
    finished,   \* the local vector of dispatch()
    waiting,    \* the client whose script waitpid() is blocked on
    open,       \* kernel: the descriptors that are open
    procs       \* kernel: the state of every child process

vars == <<pc, stop, listenFds, conn, cgi, pollFds, cgiFds, finished, waiting,
          open, procs>>

-----------------------------------------------------------------------------
(* The data.                                                               *)

Conn == [state : {"READING", "CGI", "WRITING", "DONE"},
         idle : 0 .. (ConnectionTimeout + 1),   \* now - _lastActivity
         left : 0 .. ResponseLen,               \* still to send
         answers : Nat]                         \* history: responses queued

Handler == [pid : Pid \cup {NoPid},
            in : Fd \cup {NoFd},                \* _inFd
            out : Fd \cup {NoFd},               \* _outFd
            body : 0 .. MaxBody,                \* body still to feed
            stall : 0 .. (ConnectionTimeout + 1)]   \* now - _start

\* An entry of _pollFds.  The code keeps only fd and events; role and owner say
\* where in the vector the entry stands and, to the properties, what buildPollSet
\* polled it for.
Entry == [fd : Fd, events : {"IN", "OUT", "NONE"},
          role : {"listener", "client", "stdout", "stdin"}, owner : Fd]

ASSUME NullAssumption == NULL \notin Conn /\ NULL \notin Handler

Clients == {c \in Fd : conn[c] # NULL}
Scripted == {c \in Fd : cgi[c] # NULL}
Pipes(c) == IF cgi[c] = NULL THEN {} ELSE {cgi[c].in, cgi[c].out} \ {NoFd}

NewConnection ==
    [state |-> "READING", idle |-> 0, left |-> 0, answers |-> 0]
\* _lastActivity = time(NULL)
Active(k) == [k EXCEPT !.idle = 0]
\* mutant: the handlers of a script's pipes forget it
Unrefreshed(k) == {k}
\* The same where the script's _start = time(NULL) comes after it: a second may end
\* between the two readings of the clock.
ActiveFirst(k) == {[k EXCEPT !.idle = seconds] : seconds \in {0, 1}}
Done(k) == [k EXCEPT !.state = "DONE"]
InScript(k) == [k EXCEPT !.state = "CGI"]
\* queueResponse() and queueError()
Queued(k) ==
    [k EXCEPT !.state = "WRITING", !.left = ResponseLen, !.answers = @ + 1]

\* POSIX: a new descriptor is the lowest one that is not open.
IsLowest(f, used) == f \in Fd \ used /\ \A g \in Fd \ used : f <= g

-----------------------------------------------------------------------------
(* Server::setListenSocket, and the exception it lets out.                 *)

Init ==
    /\ pc = "boot" /\ stop = FALSE
    /\ listenFds = {}
    /\ conn = [f \in Fd |-> NULL]
    /\ cgi = [f \in Fd |-> NULL]
    /\ pollFds = {} /\ cgiFds = [f \in Fd |-> NoFd]
    /\ finished = {} /\ waiting = NoFd
    /\ open = {} /\ procs = [p \in Pid |-> "none"]

\* One turn of the loop over _configs; after the last, signal() and the main loop.
CreateListenSocket ==
    /\ pc = "boot"
    /\ \E f \in Fd :
         /\ IsLowest(f, open)
         /\ open' = open \cup {f}
         /\ listenFds' = listenFds \cup {f}
    /\ pc' = IF Cardinality(listenFds') = Blocks THEN "head" ELSE "boot"
    /\ UNCHANGED <<stop, conn, cgi, pollFds, cgiFds, finished, waiting, procs>>

\* A script whose handler is deleted is killed and reaped.
\* mutant: killChild() without its waitpid()
KilledOf(S) ==
    [p \in Pid |-> IF \E c \in S : cgi[c] # NULL /\ cgi[c].pid = p
                   THEN "zombie" ELSE procs[p]]
ReapedOf(S) ==
    [p \in Pid |-> IF \E c \in S : cgi[c] # NULL /\ cgi[c].pid = p
                   THEN "none" ELSE procs[p]]
\* mutant: ~Connection without delete _cgi's closeFds()
ClosedSocketsOf(S) == S
ClosedOf(S) == S \cup UNION {Pipes(c) : c \in S}

\* closeConnection() of every client in S.
CloseConnections(S) ==
    /\ conn' = [c \in Fd |-> IF c \in S THEN NULL ELSE conn[c]]
    /\ cgi' = [c \in Fd |-> IF c \in S THEN NULL ELSE cgi[c]]
    /\ open' = open \ ClosedOf(S)
    /\ procs' = ReapedOf(S)

\* Server::~Server: every Connection, then every listener.
\* mutant: the destructor closes the listeners only
ClosedListeners == listenFds
ClosedAtExit == ClosedOf(Clients) \cup listenFds

Destructor ==
    /\ conn' = [c \in Fd |-> NULL] /\ cgi' = [c \in Fd |-> NULL]
    /\ open' = open \ ClosedAtExit
    /\ procs' = ReapedOf(Clients)
    /\ listenFds' = {}
    /\ pollFds' = {} /\ cgiFds' = [f \in Fd |-> NoFd]
    /\ pc' = "down"
    /\ UNCHANGED <<stop, finished, waiting>>

\* socket(), bind() or listen() failed: the exception unwinds through main().
BootFails == pc = "boot" /\ Destructor

\* The loop condition: g_stop is set.
\* mutant: the loop goes on until the clients have left
StopsWhenIdle == stop /\ Clients = {}
Stops == stop
Shutdown == pc = "head" /\ Stops /\ Destructor

-----------------------------------------------------------------------------
(* One round: buildPollSet(), poll(), dispatch(), cleanConnectionInactive(). *)

\* mutant: a client is read from while it is written to
ClientEventsWithInput(k) ==
    IF k.state \in {"READING", "WRITING"} THEN "IN" ELSE "NONE"
ClientEvents(k) == CASE k.state = "READING" -> "IN"
                     [] k.state = "WRITING" -> "OUT"
                     [] OTHER -> "NONE"

\* mutant: _cgiFds is not cleared first
PipeOwnersKept ==
    [f \in Fd |-> IF \E c \in Clients : f \in Pipes(c)
                  THEN CHOOSE c \in Clients : f \in Pipes(c) ELSE cgiFds[f]]
PipeOwners ==
    [f \in Fd |-> IF \E c \in Clients : f \in Pipes(c)
                  THEN CHOOSE c \in Clients : f \in Pipes(c) ELSE NoFd]

BuildPollSet ==
    /\ pc = "head" /\ ~Stops
    /\ pollFds' =
         {[fd |-> l, events |-> "IN", role |-> "listener", owner |-> l] :
             l \in listenFds}
         \cup {[fd |-> c, events |-> ClientEvents(conn[c]), role |-> "client",
                owner |-> c] : c \in Clients}
         \cup {[fd |-> cgi[c].out, events |-> "IN", role |-> "stdout",
                owner |-> c] :
             c \in {d \in Clients \cap Scripted : cgi[d].out # NoFd}}
         \cup {[fd |-> cgi[c].in, events |-> "OUT", role |-> "stdin",
                owner |-> c] :
             c \in {d \in Clients \cap Scripted : cgi[d].in # NoFd}}
    /\ cgiFds' = PipeOwners
    /\ pc' = "dispatch"
    /\ UNCHANGED <<stop, listenFds, conn, cgi, finished, waiting, open, procs>>

\* The order of the vector: listeners, then each client with its pipes.
Rank(e) == CASE e.role = "listener" -> e.fd
             [] e.role = "client" -> FdLimit + 3 * e.owner
             [] e.role = "stdout" -> FdLimit + 3 * e.owner + 1
             [] e.role = "stdin" -> FdLimit + 3 * e.owner + 2

\* dispatch() reaches an entry poll() marked; the ones before it were not.
Reach(e) ==
    /\ pc = "dispatch"
    /\ pollFds' = {x \in pollFds : Rank(x) > Rank(e)}

IsPipe(f) == f \notin listenFds /\ cgiFds[f] # NoFd
IsClient(f) == f \notin listenFds /\ cgiFds[f] = NoFd /\ conn[f] # NULL
Owner(e) == cgiFds[e.fd]

\* getDone() after a handler ran for client c.
\* mutant: nobody looks at getDone()
NoteNothing(c) == finished' = finished
NoteDone(c) ==
    finished' = IF conn'[c].state = "DONE" THEN finished \cup {c} ELSE finished

\* Server::acceptNew.  When accept() or fcntl() fails nothing is kept, which is
\* the same as not being told of the client.
AcceptNew(e) ==
    /\ Reach(e) /\ e.fd \in listenFds
    /\ Cardinality(Clients) < MaxClients
    /\ \E f \in Fd :
         /\ IsLowest(f, open)
         /\ open' = open \cup {f}
         /\ conn' = [conn EXCEPT ![f] = NewConnection]
         /\ cgi' = [cgi EXCEPT ![f] = NULL]
    /\ UNCHANGED <<pc, stop, listenFds, cgiFds, finished, waiting, procs>>

\* POLLERR, POLLHUP or POLLNVAL on a client socket.
ClientHangup(e) ==
    /\ Reach(e) /\ IsClient(e.fd)
    /\ finished' = finished \cup {e.fd}
    /\ UNCHANGED <<pc, stop, listenFds, conn, cgi, cgiFds, waiting, open, procs>>

-----------------------------------------------------------------------------
(* Connection::toRead: the end of the stream, one more piece of a request   *)
(* that is not complete, or the piece that completes it (or shows it too    *)
(* large), which is answered at once or handed to a script.                 *)

Readable(e) == Reach(e) /\ IsClient(e.fd) /\ e.events = "IN"

\* recv() returned 0 or -1.
ToReadEnds(e) ==
    /\ Readable(e)
    /\ conn' = [conn EXCEPT ![e.fd] = Done(@)]
    /\ NoteDone(e.fd)
    /\ UNCHANGED <<pc, stop, listenFds, cgi, cgiFds, waiting, open, procs>>

ToReadMore(e) ==
    /\ Readable(e)
    /\ conn' = [conn EXCEPT ![e.fd] = Active(@)]
    /\ NoteDone(e.fd)
    /\ UNCHANGED <<pc, stop, listenFds, cgi, cgiFds, waiting, open, procs>>

\* 413, 400, or whatever Router::handleRequest answers.
ToReadAnswers(e) ==
    /\ Readable(e)
    /\ conn' = [conn EXCEPT ![e.fd] = Queued(Active(@))]
    /\ NoteDone(e.fd)
    /\ UNCHANGED <<pc, stop, listenFds, cgi, cgiFds, waiting, open, procs>>

\* pipe(): the two lowest descriptors, the read end first.
Pipe(r, w, used) == IsLowest(r, used) /\ IsLowest(w, used \cup {r})

\* CgiHandler::start succeeds: the parent keeps the write end of one pipe and the
\* read end of the other; without a body the write end is closed at once.
Started(c, p, body, i0, i1, o0, o1) ==
    /\ cgi' = [cgi EXCEPT ![c] =
         [pid |-> p, in |-> IF body = 0 THEN NoFd ELSE i1, out |-> o0,
          body |-> body, stall |-> 0]]
    /\ open' = (open \cup {i0, i1, o0, o1}) \
               ({i0, o1} \cup (IF body = 0 THEN {i1} ELSE {}))
    /\ procs' = [procs EXCEPT ![p] = "running"]

ToReadStartsScript(e) ==
    /\ Readable(e)
    /\ \E p \in Pid, body \in 0 .. MaxBody, i0, i1, o0, o1 \in Fd :
         /\ procs[p] = "none"
         /\ Pipe(i0, i1, open) /\ Pipe(o0, o1, open \cup {i0, i1})
         /\ Started(e.fd, p, body, i0, i1, o0, o1)
    /\ \E k \in ActiveFirst(conn[e.fd]) : conn' = [conn EXCEPT ![e.fd] = InScript(k)]
    /\ NoteDone(e.fd)
    /\ UNCHANGED <<pc, stop, listenFds, cgiFds, waiting>>

\* What is open after start() gave up: no pipe, a second pipe that could not be
\* had, a fork() that failed, or a fcntl() that failed with the child running.
\* mutant: the first pipe is forgotten
SecondPipeLeaks(i0, i1) == open \cup {i0, i1}
SecondPipeFails(i0, i1) == (open \cup {i0, i1}) \ {i0, i1}
ForkFails(i0, i1, o0, o1) ==
    (open \cup {i0, i1, o0, o1}) \ {i0, i1, o0, o1}
\* the child is killed and reaped, closeFds() closes what the parent had kept
FcntlFails(i0, i1, o0, o1) ==
    ((open \cup {i0, i1, o0, o1}) \ {i0, o1}) \ {i1, o0}

ToReadScriptFails(e) ==
    /\ Readable(e)
    /\ \/ open' = open
       \/ \E i0, i1 \in Fd :
            /\ Pipe(i0, i1, open)
            /\ \/ open' = SecondPipeFails(i0, i1)
               \/ \E o0, o1 \in Fd :
                    /\ Pipe(o0, o1, open \cup {i0, i1})
                    /\ \/ open' = ForkFails(i0, i1, o0, o1)
                       \/ open' = FcntlFails(i0, i1, o0, o1)
    /\ cgi' = [cgi EXCEPT ![e.fd] = NULL]
    /\ conn' = [conn EXCEPT ![e.fd] = Queued(Active(@))]
    /\ NoteDone(e.fd)
    /\ UNCHANGED <<pc, stop, listenFds, cgiFds, waiting, procs>>

-----------------------------------------------------------------------------
(* Connection::toWrite.                                                    *)

\* mutant: one unit too many is counted as sent
SentTooMuch(k, n) == [Active(k) EXCEPT !.left = @ - n - 1,
                                       !.state = IF k.left <= n THEN "DONE" ELSE @]
Sent(k, n) == [Active(k) EXCEPT !.left = @ - n,
                                !.state = IF k.left <= n THEN "DONE" ELSE @]

ToWrite(e) ==
    /\ Reach(e) /\ IsClient(e.fd) /\ e.events = "OUT"
    /\ \/ conn' = [conn EXCEPT ![e.fd] = Done(@)]       \* send() <= 0
       \/ \E n \in 1 .. conn[e.fd].left :
            conn' = [conn EXCEPT ![e.fd] = Sent(@, n)]
    /\ NoteDone(e.fd)
    /\ UNCHANGED <<pc, stop, listenFds, cgi, cgiFds, waiting, open, procs>>

-----------------------------------------------------------------------------
(* A script's pipes.  The owner is looked up by the number of the pipe; the *)
(* handler may have been deleted earlier in the round.                      *)

PipeEvent(e) ==
    /\ Reach(e) /\ IsPipe(e.fd)
    /\ conn[Owner(e)] # NULL /\ cgi[Owner(e)] # NULL

\* onCgiWritable: write() took part of the body, took the last of it, or failed.
Fed(h, n) == [h EXCEPT !.body = @ - n, !.stall = 0,
                       !.in = IF h.body <= n THEN NoFd ELSE @]

OnCgiWritable(e) ==
    /\ PipeEvent(e) /\ e.events = "OUT"
    /\ LET c == Owner(e) IN
         /\ \/ /\ cgi' = [cgi EXCEPT ![c].in = NoFd]
               /\ conn' = [conn EXCEPT ![c] = Active(@)]
            \/ /\ \E n \in 1 .. cgi[c].body : cgi' = [cgi EXCEPT ![c] = Fed(@, n)]
               /\ \E k \in ActiveFirst(conn[c]) : conn' = [conn EXCEPT ![c] = k]
         /\ open' = IF cgi'[c].in = NoFd THEN open \ {cgi[c].in} ELSE open
         /\ NoteDone(c)
    /\ UNCHANGED <<pc, stop, listenFds, cgiFds, waiting, procs>>

\* onCgiReadable, for what is printed.  POLLERR on the script's stdin comes here
\* as well, so the entry may be either pipe's.
OnCgiPrinted(e) ==
    /\ PipeEvent(e)
    /\ LET c == Owner(e) IN
         /\ cgi' = [cgi EXCEPT ![c].stall = 0]
         /\ \E k \in ActiveFirst(conn[c]) : conn' = [conn EXCEPT ![c] = k]
         /\ NoteDone(c)
    /\ UNCHANGED <<pc, stop, listenFds, cgiFds, waiting, open, procs>>

\* mutant: finishCgi() without delete _cgi, _cgi = NULL
Emptied(c) == [cgi EXCEPT ![c].in = NoFd, ![c].out = NoFd]
Deleted(c) == [cgi EXCEPT ![c] = NULL]

\* mutant: every child is waited for, as in while (wait(NULL) > 0)
AllHaveExited(p) == \A q \in Pid : procs[q] # "running"
HasExited(p) == procs[p] = "zombie"

\* finishCgi() once the child has been waited for: the handler goes, with the
\* stdin pipe if it is still open, and the answer (200 or 502) is queued; k is the
\* connection as onCgiReadable() left it.
FinishCgi(c, k) ==
    /\ cgi' = Deleted(c)
    /\ open' = open \ Pipes(c)
    /\ procs' = [procs EXCEPT ![cgi[c].pid] = "none"]
    /\ conn' = [conn EXCEPT ![c] = Queued(k)]
    /\ NoteDone(c)

\* onCgiReadable, end of output or read error, when the child has exited.
OnCgiEnds(e) ==
    /\ PipeEvent(e)
    /\ HasExited(cgi[Owner(e)].pid)
    /\ FinishCgi(Owner(e), Active(conn[Owner(e)]))
    /\ UNCHANGED <<pc, stop, listenFds, cgiFds, waiting>>

\* The same when the child is still alive: CgiHandler::onReadable has closed the
\* pipe and sits in waitpid(), and the whole loop with it.
OnCgiEndsEarly(e) ==
    /\ PipeEvent(e)
    /\ LET c == Owner(e) IN
         /\ ~HasExited(cgi[c].pid)
         /\ cgi' = [cgi EXCEPT ![c].out = NoFd]
         /\ open' = open \ {cgi[c].out}
         /\ conn' = [conn EXCEPT ![c] = Active(@)]
         /\ waiting' = c
    /\ pc' = "waitpid"
    /\ UNCHANGED <<stop, listenFds, cgiFds, finished, procs>>

\* The time that went by in waitpid() counts: _lastActivity was read before it.
WaitpidReturns ==
    /\ pc = "waitpid" /\ HasExited(cgi[waiting].pid)
    /\ FinishCgi(waiting, conn[waiting])
    /\ pc' = "dispatch" /\ waiting' = NoFd
    /\ UNCHANGED <<stop, listenFds, pollFds, cgiFds>>

Dispatch(e) ==
    \/ AcceptNew(e) \/ ClientHangup(e)
    \/ ToReadEnds(e) \/ ToReadMore(e) \/ ToReadAnswers(e)
    \/ ToReadStartsScript(e) \/ ToReadScriptFails(e) \/ ToWrite(e)
    \/ OnCgiWritable(e) \/ OnCgiPrinted(e) \/ OnCgiEnds(e) \/ OnCgiEndsEarly(e)

\* The rest of the entries had nothing to report: close what is finished.
EndDispatch ==
    /\ pc = "dispatch"
    /\ CloseConnections(finished)
    /\ pollFds' = {} /\ finished' = {}
    /\ pc' = "clean"
    /\ UNCHANGED <<stop, listenFds, cgiFds, waiting>>

\* cleanConnectionInactive(), with its one reading of the clock.
TimedOutScripts == {c \in Clients : cgi[c] # NULL /\ cgi[c].stall > CgiTimeout}
\* mutant: only clients that are still sending time out
StaleReaders ==
    {c \in Clients : conn[c].state = "READING" /\ conn[c].idle > ConnectionTimeout}
StaleClients ==
    {c \in Clients : cgi[c] = NULL /\ conn[c].idle > ConnectionTimeout}

CleanConnectionInactive ==
    /\ pc = "clean"
    /\ conn' = [c \in Fd |-> CASE c \in TimedOutScripts -> Queued(conn[c])
                               [] c \in StaleClients -> NULL
                               [] OTHER -> conn[c]]
    /\ cgi' = [c \in Fd |-> IF c \in TimedOutScripts THEN NULL ELSE cgi[c]]
    /\ open' = open \ (StaleClients \cup UNION {Pipes(c) : c \in TimedOutScripts})
    /\ procs' = ReapedOf(TimedOutScripts)
    /\ pc' = "head"
    /\ UNCHANGED <<stop, listenFds, pollFds, cgiFds, finished, waiting>>

-----------------------------------------------------------------------------
(* The environment: the clock, the scripts, the operator's control-C.       *)

Older(n, limit) == IF n > limit THEN n ELSE n + 1

\* A second passes.  Ages stop one past the longer timeout.
Tick ==
    /\ pc \notin {"boot", "down"}
    /\ conn' = [c \in Fd |-> IF conn[c] = NULL THEN NULL
         ELSE [conn[c] EXCEPT !.idle = Older(@, ConnectionTimeout)]]
    /\ cgi' = [c \in Fd |-> IF cgi[c] = NULL THEN NULL
         ELSE [cgi[c] EXCEPT !.stall = Older(@, ConnectionTimeout)]]
    /\ UNCHANGED <<pc, stop, listenFds, pollFds, cgiFds, finished, waiting,
                   open, procs>>

ScriptExits(p) ==
    /\ procs[p] = "running"
    /\ procs' = [procs EXCEPT ![p] = "zombie"]
    /\ UNCHANGED <<pc, stop, listenFds, conn, cgi, pollFds, cgiFds, finished,
                   waiting, open>>

\* handleSigint.  poll() returns -1 and the round goes on without a dispatch;
\* waitpid() is restarted, since signal() installs the handler with SA_RESTART.
Sigint ==
    /\ pc \notin {"boot", "down"} /\ ~stop
    /\ stop' = TRUE
    /\ UNCHANGED <<pc, listenFds, conn, cgi, pollFds, cgiFds, finished, waiting,
                   open, procs>>

\* main() has returned.
Terminated == pc = "down" /\ UNCHANGED vars

ServerStep ==
    \/ CreateListenSocket \/ BootFails \/ Shutdown
    \/ BuildPollSet \/ EndDispatch \/ CleanConnectionInactive
    \/ (\E e \in pollFds : Dispatch(e)) \/ WaitpidReturns

Next ==
    \/ ServerStep
    \/ Tick \/ (\E p \in Pid : ScriptExits(p)) \/ Sigint \/ Terminated

Spec == Init /\ [][Next]_vars

\* The process is scheduled and the clock runs; nothing is assumed of clients,
\* of scripts or of what poll() reports.
FairSpec == Spec /\ WF_vars(ServerStep) /\ WF_vars(Tick)

\* Besides, the script the server waits for, which has closed its stdout, exits.
ExitingSpec ==
    FairSpec /\ WF_vars(pc = "waitpid" /\ ScriptExits(cgi[waiting].pid))

-----------------------------------------------------------------------------
(* Properties.                                                             *)

\* Every variable keeps its type: in particular no age, counter or descriptor
\* leaves its range, and an entry of the poll vector names real descriptors.
TypeOK ==
    /\ pc \in {"boot", "head", "dispatch", "waitpid", "clean", "down"}
    /\ stop \in BOOLEAN
    /\ listenFds \in SUBSET Fd
    /\ conn \in [Fd -> Conn \cup {NULL}]
    /\ cgi \in [Fd -> Handler \cup {NULL}]
    /\ pollFds \in SUBSET Entry
    /\ cgiFds \in [Fd -> Fd \cup {NoFd}]
    /\ finished \in SUBSET Fd
    /\ waiting \in Fd \cup {NoFd}
    /\ open \in SUBSET Fd
    /\ procs \in [Pid -> {"none", "running", "zombie"}]

\* Every open descriptor is a listener, a client or a pipe end and nothing is two
\* of these: no path of accept, start() with its partial failures, finishCgi,
\* abortCgi, the destructors or the shutdown leaks a descriptor or closes one
\* that by then is somebody else's.
FdOwnership ==
    /\ open = listenFds \cup Clients \cup UNION {Pipes(c) : c \in Fd}
    /\ listenFds \cap Clients = {}
    /\ \A c \in Fd :
         /\ Pipes(c) \cap (listenFds \cup Clients) = {}
         /\ cgi[c] # NULL => cgi[c].in = NoFd \/ cgi[c].in # cgi[c].out
         /\ \A d \in Fd \ {c} : Pipes(c) \cap Pipes(d) = {}

\* Every child process belongs to exactly one handler and every handler has a
\* child that was not reaped yet: no zombie or orphan stays behind when a client
\* leaves or times out, and no process is waited for or killed twice.
ChildOwnership ==
    /\ \A p \in Pid : procs[p] # "none" =>
         \E c \in Scripted : cgi[c].pid = p
    /\ \A c \in Scripted :
         /\ cgi[c].pid \in Pid /\ procs[cgi[c].pid] # "none"
         /\ \A d \in Scripted : cgi[d].pid = cgi[c].pid => c = d

\* A connection has a handler exactly while it is in state CGI, and the end of
\* that script's output is still being watched for: otherwise isTimedOut() would
\* never let go of the client or its request would never be answered.
NeverStranded ==
    /\ \A c \in Fd : cgi[c] # NULL <=> (conn[c] # NULL /\ conn[c].state = "CGI")
    /\ \A c \in Scripted : cgi[c].out = NoFd <=> waiting = c
    /\ waiting # NoFd <=> pc = "waitpid"
    /\ \A c \in Clients : conn[c].state = "DONE" => c \in finished
    /\ finished # {} => pc \in {"dispatch", "waitpid"}

\* One response is queued for a connection, at the moment it starts writing:
\* events that follow finishCgi or abortCgi in the same round do not queue a
\* second one over the first.
SingleAnswer ==
    \A c \in Clients :
      CASE conn[c].state \in {"READING", "CGI"} -> conn[c].answers = 0
        [] conn[c].state = "WRITING" -> conn[c].answers = 1 /\ conn[c].left > 0
        [] OTHER -> conn[c].answers <= 1

\* What dispatch() finds by number for an entry still ahead of it is what
\* buildPollSet put it there for, although descriptors were closed and reused
\* since: a listener is still that listener; a client is still connected and
\* still reads or writes as it was polled; the number of a pipe still leads to
\* the client that owned it, whose handler is gone or still uses that pipe.
EntryIsCurrent(e) ==
    CASE e.role = "listener" -> e.fd \in listenFds
      [] e.role = "client" ->
           /\ IsClient(e.fd) /\ e.owner = e.fd
           /\ e.events = ClientEvents(conn[e.fd])
      [] e.role = "stdout" ->
           /\ IsPipe(e.fd) /\ Owner(e) = e.owner /\ conn[e.owner] # NULL
           /\ cgi[e.owner] # NULL => cgi[e.owner].out = e.fd
      [] e.role = "stdin" ->
           /\ IsPipe(e.fd) /\ Owner(e) = e.owner /\ conn[e.owner] # NULL
           /\ cgi[e.owner] # NULL /\ waiting # e.owner => cgi[e.owner].in = e.fd
EventsReachTheirOwner ==
    pc \in {"dispatch", "waitpid"} => \A e \in pollFds : EntryIsCurrent(e)

\* While a script runs its client has been idle at most one second longer than the
\* script has stalled, however long that is.  abortCgi() does not refresh
\* _lastActivity: a sweep in the first second after the script's deadline leaves the
\* 504 all but two seconds of the difference of the two timeouts.
IdleWithinStall ==
    \A c \in Clients \cap Scripted : conn[c].idle <= cgi[c].stall + 1

\* After main() has returned nothing is open and no child was left, whatever the
\* server was doing when SIGINT came, or a listener could not be bound.
CleanShutdown ==
    pc = "down" => open = {} /\ \A p \in Pid : procs[p] = "none"

\* An answer, once queued, is never taken back: a connection that writes only
\* writes on or is closed, and what is left to send never grows.
AnswerIsFinal ==
    [][\A c \in Clients :
         conn[c].state = "WRITING" /\ conn'[c] # NULL =>
           /\ conn'[c].state \in {"WRITING", "DONE"}
           /\ conn'[c].left <= conn[c].left
           /\ conn'[c].answers = conn[c].answers]_vars

\* Every client is let go in the end, unless it sends another piece of its request
\* again and again, or its script prints again and again: each resets a timeout, and
\* neither the headers nor a script's output has a limit.  (That the script of a
\* blocked waitpid() exits is ExitingSpec's assumption.)
Drips(c) == \E e \in pollFds : e.fd = c /\ ToReadMore(e)
PrintsOn(c) == \E e \in pollFds : Owner(e) = c /\ OnCgiPrinted(e)
EveryClientReleased ==
    \A c \in Fd :
      []<>(conn[c] = NULL) \/ []<><<Drips(c)>>_vars \/ []<><<PrintsOn(c)>>_vars

\* Control-C ends the server.
SigintHonoured == stop ~> pc = "down"

\* One slow client cannot block the others: the loop always comes back to poll().
AlwaysPollsAgain == []<>(pc \in {"head", "down"})

-----------------------------------------------------------------------------
(* The loop implements Exchange: a client's phase is the state of its       *)
(* Connection, and its helper the child of its handler.                     *)

PhaseOf(k) == CASE k.state = "READING" -> "asking"
                [] k.state = "CGI" -> "scripted"
                [] k.state = "WRITING" -> "answering"
                [] k.state = "DONE" -> "leaving"

Abstract == INSTANCE Exchange WITH
    Client <- Fd, Helper <- Pid, NoHelper <- NoPid,
    up <- pc # "down",
    phase <- [c \in Fd |->
                IF conn[c] = NULL THEN "absent" ELSE PhaseOf(conn[c])],
    helper <- [c \in Fd |-> IF cgi[c] = NULL THEN NoPid ELSE cgi[c].pid]

\* Every step of the loop is a step of the exchange it promises: no client is
\* answered twice or asked again, and a script lives for one waiting client.
ImplementsExchange == Abstract!Spec

=============================================================================
