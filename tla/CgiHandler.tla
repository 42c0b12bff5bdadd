---------------------------- MODULE CgiHandler ----------------------------
(***************************************************************************)
(* One CGI script: the CgiHandler that feeds and drains it, the two kernel *)
(* pipes between them, and the script at the other end.  Bytes are counted *)
(* in units of which a pipe holds PipeCap.  Each round of the server polls *)
(* the two pipes, handles what poll() saw (stdout first, as buildPollSet   *)
(* lists it), and looks at the clock; what the script does meanwhile is    *)
(* not seen before the next round.                                         *)
(***************************************************************************)
EXTENDS Integers

CONSTANTS
    Kinds,       \* the kinds of script that are run, see MayRead and MayPrint
    MaxBody,     \* bound: units of request body
    PipeCap,     \* units a pipe holds
    ReadUnits,   \* cgiReadLimit: units one read() takes at most
    CgiTimeout   \* cgiTimeout, in ticks of time()

AllKinds == {"any", "filter", "collector", "speaker", "closer"}

ASSUME ScriptAssumption ==
    /\ Kinds \subseteq AllKinds
    /\ MaxBody \in Nat /\ PipeCap \in Nat \ {0} /\ ReadUnits \in Nat \ {0}
    /\ CgiTimeout \in Nat

VARIABLES
    pc,       \* where the server is: "poll", "dispatch", "clean", "waitpid", "over"
    ready,    \* the pipes poll() reported and dispatch() has not come to
    handler,  \* the CgiHandler
    answer,   \* the response finishCgi or abortCgi queued
    stdin,    \* kernel: units in the script's stdin pipe
    stdout,   \* kernel: units in the script's stdout pipe
    script    \* the child process

vars == <<pc, ready, handler, answer, stdin, stdout, script>>

Handler == [body : 0 .. MaxBody, sent : 0 .. MaxBody,   \* _body, _bodySent
            in : BOOLEAN, out : BOOLEAN,                \* _inFd, _outFd open
            got : 0 .. (MaxBody + 1),                   \* _output
            state : {"RUNNING", "FINISHED", "FAILED"},
            stall : 0 .. (CgiTimeout + 1)]              \* now - _start

Script == [kind : AllKinds, in : BOOLEAN, out : BOOLEAN,
           taken : 0 .. MaxBody, printed : 0 .. (MaxBody + 1),
           process : {"running", "zombie", "reaped"}]

\* start() has succeeded; without a body stdin was closed at once.
Started(body) ==
    [body |-> body, sent |-> 0, in |-> body > 0, out |-> TRUE, got |-> 0,
     state |-> "RUNNING", stall |-> 0]

Init ==
    /\ pc = "poll" /\ ready = {} /\ answer = "none"
    /\ stdin = 0 /\ stdout = 0
    /\ \E body \in 0 .. MaxBody : handler = Started(body)
    /\ \E kind \in Kinds :
         script = [kind |-> kind, in |-> TRUE, out |-> TRUE, taken |-> 0,
                   printed |-> 0, process |-> "running"]

-----------------------------------------------------------------------------
(* The server.                                                             *)

\* POLLIN or POLLHUP on stdout; POLLOUT on stdin while it has room; POLLERR alone
\* on a stdin that is full and that nobody reads any more.
\* mutant: stdout is not polled before the body has been sent
PolledAfterFeeding(pipe) == IF pipe = "stdout" THEN ~handler.in ELSE handler.in
Polled(pipe) == IF pipe = "stdout" THEN handler.out ELSE handler.in

Reported ==
    {p \in {"stdout"} : Polled(p) /\ (stdout > 0 \/ ~script.out)}
    \cup {p \in {"stdin"} : Polled(p) /\ stdin < PipeCap}
    \cup {p \in {"stdinError"} : Polled("stdin") /\ stdin = PipeCap /\ ~script.in}

Poll ==
    /\ pc = "poll"
    /\ ready' = Reported
    /\ pc' = IF ready' = {} THEN "clean" ELSE "dispatch"
    /\ UNCHANGED <<handler, answer, stdin, stdout, script>>

EndDispatch ==
    /\ pc = "dispatch" /\ ready = {}
    /\ pc' = "clean"
    /\ UNCHANGED <<ready, handler, answer, stdin, stdout, script>>

\* finishCgi(): 502 when the handler failed or the script printed nothing.  The
\* pipes go with the handler, and so do the entries dispatch() has not come to.
Verdict(h) == IF h.state = "FAILED" \/ h.got = 0 THEN "502" ELSE "200"

Reaped(s) == [s EXCEPT !.process = "reaped"]

Finish(h) ==
    /\ answer' = Verdict(h)
    /\ handler' = [h EXCEPT !.in = FALSE, !.out = FALSE]
    /\ script' = Reaped(script)
    /\ ready' = {} /\ pc' = "over"

\* mutant: append(buffer, sizeof(buffer))
DrainedBuffer(h, n) == [h EXCEPT !.got = @ + ReadUnits, !.stall = 0]
Drained(h, n) == [h EXCEPT !.got = @ + n, !.stall = 0]

\* onReadable(): what the pipe holds, the end of it, or EAGAIN when it is empty
\* and the script may still print.
Reads ==
    /\ stdout > 0
    /\ \E n \in 1 .. stdout :
         /\ n <= ReadUnits
         /\ stdout' = stdout - n
         /\ handler' = Drained(handler, n)
    /\ UNCHANGED <<pc, answer, script>>

\* mutant: POLLHUP is taken for the end of the output
HangupSeen == stdout = 0 \/ ~script.out
NothingToRead == stdout = 0

Ended == [handler EXCEPT !.out = FALSE,
                         !.state = IF script.out THEN "FAILED" ELSE "FINISHED"]

ReadsNoMore ==
    /\ NothingToRead
    /\ IF script.process = "zombie"
       THEN Finish(Ended)
       ELSE /\ handler' = Ended /\ pc' = "waitpid"
            /\ UNCHANGED <<answer, script>>
    /\ UNCHANGED stdout

onReadable == Reads \/ ReadsNoMore

\* onWritable(): part of the rest of the body, or EPIPE when nobody reads it.
\* mutant: _bodySent is not advanced
FedAgain(h, n) == [h EXCEPT !.stall = 0, !.in = @ /\ h.sent + n < h.body]
Fed(h, n) == [h EXCEPT !.sent = @ + n, !.stall = 0, !.in = @ /\ h.sent + n < h.body]

onWritable ==
    \/ /\ ~script.in
       /\ handler' = [handler EXCEPT !.in = FALSE]
       /\ UNCHANGED stdin
    \/ /\ script.in
       /\ \E n \in 1 .. (handler.body - handler.sent) :
            /\ stdin + n <= PipeCap
            /\ stdin' = stdin + n
            /\ handler' = Fed(handler, n)

DispatchStdout ==
    /\ pc = "dispatch" /\ "stdout" \in ready
    /\ onReadable
    /\ pc' # "over" => ready' = ready \ {"stdout"}
    /\ UNCHANGED stdin

DispatchStdin ==
    /\ pc = "dispatch" /\ ready = {"stdin"}
    /\ onWritable
    /\ ready' = {}
    /\ UNCHANGED <<pc, answer, stdout, script>>

\* dispatch() hands whatever is not POLLOUT to onCgiReadable.
DispatchStdinError ==
    /\ pc = "dispatch" /\ ready = {"stdinError"}
    /\ onReadable
    /\ ready' = {}
    /\ UNCHANGED stdin

\* onReadable()'s waitpid() comes back, and onCgiReadable goes on to finishCgi().
WaitpidReturns ==
    /\ pc = "waitpid" /\ script.process = "zombie"
    /\ Finish(handler)
    /\ UNCHANGED <<stdin, stdout>>

\* cleanConnectionInactive: killChild(), 504.
TimedOut == handler.state = "RUNNING" /\ handler.stall > CgiTimeout

Abort ==
    /\ pc = "clean" /\ TimedOut
    /\ answer' = "504"
    /\ handler' = [handler EXCEPT !.in = FALSE, !.out = FALSE, !.state = "FAILED"]
    /\ script' = [Reaped(script) EXCEPT !.in = FALSE, !.out = FALSE]
    /\ pc' = "over"
    /\ UNCHANGED <<ready, stdin, stdout>>

Clean ==
    /\ pc = "clean" /\ ~TimedOut
    /\ pc' = "poll"
    /\ UNCHANGED <<ready, handler, answer, stdin, stdout, script>>

\* The client hangs up, or the server stops: the destructor kills the script.
ClientGone ==
    /\ pc \in {"poll", "dispatch"}
    /\ answer' = "nobody"
    /\ handler' = [handler EXCEPT !.in = FALSE, !.out = FALSE, !.state = "FAILED"]
    /\ script' = [Reaped(script) EXCEPT !.in = FALSE, !.out = FALSE]
    /\ pc' = "over" /\ ready' = {}
    /\ UNCHANGED <<stdin, stdout>>

Over == pc = "over" /\ UNCHANGED vars

ServerStep ==
    \/ Poll \/ DispatchStdout \/ DispatchStdin \/ DispatchStdinError
    \/ EndDispatch \/ WaitpidReturns \/ Abort \/ Clean

Tick ==
    /\ pc # "over" /\ handler.stall <= CgiTimeout
    /\ handler' = [handler EXCEPT !.stall = @ + 1]
    /\ UNCHANGED <<pc, ready, answer, stdin, stdout, script>>

-----------------------------------------------------------------------------
(* The script.  A filter prints a line of its own and one for each unit it  *)
(* reads; a collector reads all its input first; a speaker prints           *)
(* everything first; a closer closes its output before it reads; the kind   *)
(* "any" does what it likes.                                                *)

Alive == script.process = "running"
InputEnded == stdin = 0 /\ ~handler.in
Wanted == IF script.kind = "closer" THEN 1 ELSE handler.body + 1

MayRead == CASE script.kind = "filter" -> script.printed > script.taken
             [] script.kind = "speaker" -> script.printed = Wanted
             [] script.kind = "closer" -> ~script.out
             [] OTHER -> TRUE
MayPrint == CASE script.kind = "filter" -> script.printed <= script.taken
              [] script.kind = "collector" -> InputEnded
              [] OTHER -> TRUE
MayExit == script.kind = "any" \/ (InputEnded /\ script.printed = Wanted)

ScriptReads ==
    /\ Alive /\ script.in /\ MayRead /\ stdin > 0
    /\ stdin' = stdin - 1
    /\ script' = [script EXCEPT !.taken = @ + 1]
    /\ UNCHANGED <<pc, ready, handler, answer, stdout>>

ScriptPrints ==
    /\ Alive /\ script.out /\ MayPrint /\ script.printed < Wanted
    /\ handler.out /\ stdout < PipeCap
    /\ stdout' = stdout + 1
    /\ script' = [script EXCEPT !.printed = @ + 1]
    /\ UNCHANGED <<pc, ready, handler, answer, stdin>>

ScriptClosesInput ==
    /\ Alive /\ script.kind = "any" /\ script.in
    /\ script' = [script EXCEPT !.in = FALSE]
    /\ UNCHANGED <<pc, ready, handler, answer, stdin, stdout>>

ScriptClosesOutput ==
    /\ Alive /\ script.kind \in {"any", "closer"} /\ script.out
    /\ script.kind = "closer" => script.printed = Wanted
    /\ script' = [script EXCEPT !.out = FALSE]
    /\ UNCHANGED <<pc, ready, handler, answer, stdin, stdout>>

\* It exits, or dies of SIGPIPE when nobody reads its output any more.
ScriptExits ==
    /\ Alive
    /\ MayExit \/ (~handler.out /\ script.out /\ MayPrint /\ script.printed < Wanted)
    /\ script' = [script EXCEPT !.in = FALSE, !.out = FALSE, !.process = "zombie"]
    /\ UNCHANGED <<pc, ready, handler, answer, stdin, stdout>>

ScriptStep ==
    \/ ScriptReads \/ ScriptPrints \/ ScriptClosesInput \/ ScriptClosesOutput
    \/ ScriptExits

-----------------------------------------------------------------------------
Next == ServerStep \/ ClientGone \/ Tick \/ ScriptStep \/ Over

Spec == Init /\ [][Next]_vars

\* The server is scheduled, the clock runs, and a script does what it has to do
\* as soon as it can.
FairSpec ==
    /\ Init /\ [][ServerStep \/ Tick \/ ScriptStep \/ Over]_vars
    /\ WF_vars(ServerStep) /\ WF_vars(Tick) /\ WF_vars(ScriptStep)

\* Scripts that read all of their input and then exit.
Cooperative == {"filter", "collector", "speaker"}

\* The server is scheduled and a cooperative script does what it can; the clock
\* need not run, other scripts need not move, and the client may leave.
SharedSpec ==
    /\ Init /\ [][Next]_vars
    /\ WF_vars(ServerStep) /\ WF_vars(script.kind \in Cooperative /\ ScriptStep)

-----------------------------------------------------------------------------
(* Properties.                                                             *)

TypeOK ==
    /\ pc \in {"poll", "dispatch", "clean", "waitpid", "over"}
    /\ ready \subseteq {"stdout", "stdin", "stdinError"}
    /\ handler \in Handler
    /\ answer \in {"none", "200", "502", "504", "nobody"}
    /\ stdin \in 0 .. PipeCap /\ stdout \in 0 .. PipeCap
    /\ script \in Script

\* A 200 carries everything the script printed, and is only given once the
\* script has closed its output: what it printed last is not lost to the POLLHUP
\* that comes with it.
AnswerIsComplete ==
    answer = "200" => handler.got = script.printed /\ ~script.out

\* The script reads the body it was sent, each unit once and none skipped,
\* however write() splits it; its input ends only when all of it was sent, or
\* nobody was reading.
BodyFedOnce ==
    /\ handler.sent = script.taken + stdin
    /\ pc # "over" /\ ~handler.in => handler.sent = handler.body \/ ~script.in

\* A script that reads its input and exits is answered with all its output, even
\* when the body and the output are larger than the pipes: as long as its client
\* stays and the deadline is not reached, the server and the script never wait
\* for each other.
CompleteAnswer ==
    (/\ script.kind \in Cooperative
     /\ [](handler.stall <= CgiTimeout)
     /\ [](answer # "nobody"))
    => <>(answer = "200" /\ handler.got = script.printed
          /\ script.printed = Wanted /\ script.taken = handler.body)

\* A runaway script is closed after a timeout: whatever the script does, its
\* client gets an answer.
RunawayIsClosed == <>(answer # "none")

\* FAILED: the child was killed (or never started).
FailedMeansKilled ==
    handler.state = "FAILED" => answer \in {"504", "nobody"}

=============================================================================
