-------------------------- MODULE CgiHandlerProofs --------------------------
(***************************************************************************)
(* For bodies, pipes, read() limits and deadlines of any size and every    *)
(* kind of script: no unit of input is lost or fed twice, and a 200 is     *)
(* complete.                                                               *)
(*                                                                         *)
(* BodyFedOnce is inductive.  That a 200 is complete is not: it needs that *)
(* what was printed is in the pipe or in the handler (Kept), what          *)
(* onReadable knew when it went to wait for the child (Waiting), and that  *)
(* an answer is the end of the script (Last).                              *)
(***************************************************************************)
EXTENDS CgiHandler, TLAPS

\* Output is in the handler or in the pipe, and no more is fed than the body has.
Kept ==
    /\ script.printed = handler.got + stdout
    /\ handler.sent <= handler.body
    /\ script.printed <= handler.body + 1

\* waitpid() is only called when the script closed its output and all of it was
\* read, or the handler has given it up.
Waiting ==
    pc = "waitpid" => handler.state = "FAILED" \/ (stdout = 0 /\ ~script.out)

\* Whoever is answered has no script any more.
Last == answer # "none" => pc = "over" /\ script.process = "reaped"

\* The inductive invariant.
IInv ==
    /\ TypeOK /\ Kept /\ Waiting /\ Last
    /\ AnswerIsComplete /\ BodyFedOnce

-----------------------------------------------------------------------------
(* What the methods of the handler do to it.                               *)

\* A read takes what it read from the pipe, and nothing else changes.
LEMMA DrainedHandler ==
    ASSUME IInv, NEW n \in 1 .. stdout
    PROVE  /\ Drained(handler, n) \in Handler
           /\ Drained(handler, n).got = handler.got + n
           /\ Drained(handler, n).sent = handler.sent /\ Drained(handler, n).in = handler.in
           /\ Drained(handler, n).body = handler.body
<1>1. /\ handler \in Handler /\ handler.got \in Nat /\ stdout \in Nat
      /\ script.printed = handler.got + stdout /\ script.printed <= MaxBody + 1
  BY ScriptAssumption DEF IInv, TypeOK, Kept, Handler, Script
<1>2. handler.got + n \in 0 .. (MaxBody + 1) /\ 0 \in 0 .. (CgiTimeout + 1)
  BY <1>1, ScriptAssumption
<1>. QED  BY <1>1, <1>2 DEF Drained, Handler

\* A write sends no more than there is, and closes stdin with the last byte.
LEMMA FedHandler ==
    ASSUME IInv, NEW n \in 1 .. (handler.body - handler.sent)
    PROVE  /\ Fed(handler, n) \in Handler
           /\ Fed(handler, n).sent = handler.sent + n
           /\ Fed(handler, n).sent <= handler.body
           /\ Fed(handler, n).in \/ Fed(handler, n).sent = handler.body \/ ~handler.in
           /\ Fed(handler, n).got = handler.got /\ Fed(handler, n).body = handler.body
           /\ Fed(handler, n).state = handler.state
<1>1. /\ handler \in Handler /\ handler.sent \in Nat /\ handler.body \in 0 .. MaxBody
  BY DEF IInv, TypeOK, Handler
<1>2. handler.sent + n \in 0 .. MaxBody /\ handler.sent + n <= handler.body
  BY <1>1, ScriptAssumption
<1>3. 0 \in 0 .. (CgiTimeout + 1)
  BY ScriptAssumption
<1>. DEFINE rest == handler.in /\ handler.sent + n < handler.body
<1>4. rest \in BOOLEAN /\ (rest \/ handler.sent + n = handler.body \/ ~handler.in)
  BY <1>1, <1>2
<1>5. Fed(handler, n) = [handler EXCEPT !.sent = handler.sent + n, !.stall = 0, !.in = rest]
  BY DEF Fed
<1>. HIDE DEF rest
<1>6. /\ Fed(handler, n) \in Handler /\ Fed(handler, n).sent = handler.sent + n
      /\ Fed(handler, n).in = rest /\ Fed(handler, n).got = handler.got
      /\ Fed(handler, n).body = handler.body /\ Fed(handler, n).state = handler.state
  BY <1>1, <1>2, <1>3, <1>4, <1>5 DEF Handler
<1>. QED  BY <1>2, <1>4, <1>6

\* An end of output changes no count.
LEMMA EndedHandler ==
    ASSUME IInv
    PROVE  /\ Ended \in Handler /\ Ended.got = handler.got /\ Ended.sent = handler.sent
           /\ Ended.body = handler.body /\ Ended.in = handler.in
           /\ Ended.state = "FAILED" \/ ~script.out
BY DEF IInv, TypeOK, Handler, Ended

\* finishCgi() for a handler that has given the script up or read all of it.
LEMMA FinishKeeps ==
    ASSUME IInv, pc # "over", UNCHANGED <<stdin, stdout>>,
           NEW h \in Handler, Finish(h),
           h.got = handler.got, h.sent = handler.sent, h.body = handler.body,
           h.state = "FAILED" \/ (stdout = 0 /\ ~script.out)
    PROVE  IInv'
<1>1. TypeOK'
  BY DEF IInv, TypeOK, Handler, Script, Finish, Verdict, Reaped
<1>2. /\ handler'.got = handler.got /\ handler'.sent = handler.sent
      /\ handler'.body = handler.body
      /\ script'.printed = script.printed /\ script'.taken = script.taken
      /\ script'.out = script.out /\ pc' = "over"
  BY DEF IInv, TypeOK, Handler, Script, Finish, Reaped
<1>3. Kept' /\ Waiting' /\ BodyFedOnce'
  BY <1>2 DEF IInv, Kept, Waiting, BodyFedOnce
<1>5. Last'
  BY DEF IInv, TypeOK, Script, Last, Finish, Reaped
<1>4. AnswerIsComplete'
  <2>1. answer' = "200" => stdout = 0 /\ ~script.out
    BY DEF Finish, Verdict
  <2>2. stdout = 0 => handler.got = script.printed
    BY DEF IInv, TypeOK, Kept, Handler
  <2>. QED  BY <1>2, <2>1, <2>2 DEF AnswerIsComplete
<1>. QED  BY <1>1, <1>3, <1>4, <1>5 DEF IInv

-----------------------------------------------------------------------------
(* Every action keeps the invariant.                                        *)

\* CgiHandler::onReadable: data, the end, or an error.
LEMMA onReadableKeeps ==
    ASSUME IInv, pc = "dispatch", onReadable, UNCHANGED stdin,
           ready' \subseteq {"stdout", "stdin", "stdinError"}
    PROVE  IInv'
<1>1. CASE Reads
  <2>1. PICK n \in 1 .. stdout : stdout' = stdout - n /\ handler' = Drained(handler, n)
    BY <1>1 DEF Reads
  <2>2. UNCHANGED <<pc, answer, script>>
    BY <1>1 DEF Reads
  <2>3. TypeOK'
    <3>1. stdout' \in 0 .. PipeCap
      BY <2>1, ScriptAssumption DEF IInv, TypeOK
    <3>. QED  BY <2>1, <2>2, <3>1, DrainedHandler DEF IInv, TypeOK
  <2>4. Kept'
    BY <2>1, <2>2, DrainedHandler DEF IInv, TypeOK, Kept, Handler
  <2>5. Waiting' /\ AnswerIsComplete' /\ Last'
    BY <2>2 DEF IInv, Waiting, AnswerIsComplete, Last
  <2>6. BodyFedOnce'
    BY <2>1, <2>2, DrainedHandler DEF IInv, BodyFedOnce
  <2>. QED  BY <2>3, <2>4, <2>5, <2>6 DEF IInv
<1>2. CASE ReadsNoMore /\ script.process = "zombie"
  <2>1. Finish(Ended) /\ stdout = 0 /\ UNCHANGED stdout
    BY <1>2 DEF ReadsNoMore, NothingToRead
  <2>. QED  BY <2>1, EndedHandler, FinishKeeps
<1>3. CASE ReadsNoMore /\ script.process # "zombie"
  <2>1. /\ stdout = 0 /\ handler' = Ended /\ pc' = "waitpid"
        /\ UNCHANGED <<answer, script, stdout>>
    BY <1>3 DEF ReadsNoMore, NothingToRead
  <2>2. TypeOK'
    BY <2>1, EndedHandler DEF IInv, TypeOK
  <2>3. Kept' /\ Waiting' /\ BodyFedOnce'
    BY <2>1, EndedHandler DEF IInv, Kept, Waiting, BodyFedOnce
  <2>4. AnswerIsComplete' /\ Last'
    BY <2>1 DEF IInv, AnswerIsComplete, Last
  <2>. QED  BY <2>2, <2>3, <2>4 DEF IInv
<1>. QED  BY <1>1, <1>2, <1>3 DEF onReadable

\* An event of stdout,
LEMMA DispatchStdoutKeeps == ASSUME IInv, DispatchStdout PROVE IInv'
<1>1. ready' \subseteq {"stdout", "stdin", "stdinError"}
  <2>1. CASE pc' # "over"
    BY <2>1 DEF IInv, TypeOK, DispatchStdout
  <2>2. CASE pc' = "over"
    BY <2>2 DEF DispatchStdout, onReadable, Reads, ReadsNoMore, Finish
  <2>. QED  BY <2>1, <2>2
<1>. QED  BY <1>1, onReadableKeeps DEF DispatchStdout

\* an error of stdin,
LEMMA DispatchStdinErrorKeeps == ASSUME IInv, DispatchStdinError PROVE IInv'
BY onReadableKeeps DEF DispatchStdinError

\* room in stdin,
LEMMA DispatchStdinKeeps == ASSUME IInv, DispatchStdin PROVE IInv'
<1>1. UNCHANGED <<pc, answer, stdout, script>> /\ ready' = {} /\ pc = "dispatch"
  BY DEF DispatchStdin
<1>2. CASE ~script.in /\ handler' = [handler EXCEPT !.in = FALSE] /\ UNCHANGED stdin
  BY <1>1, <1>2 DEF IInv, TypeOK, Kept, Waiting, Last, AnswerIsComplete, BodyFedOnce,
     Handler
<1>3. CASE \E n \in 1 .. (handler.body - handler.sent) :
             /\ stdin + n <= PipeCap
             /\ stdin' = stdin + n /\ handler' = Fed(handler, n)
  <2>1. PICK n \in 1 .. (handler.body - handler.sent) :
          /\ stdin + n <= PipeCap
          /\ stdin' = stdin + n /\ handler' = Fed(handler, n)
    BY <1>3
  <2>2. handler.body \in Nat /\ handler.sent \in Nat /\ stdin \in Nat /\ script.taken \in Nat
    BY ScriptAssumption DEF IInv, TypeOK, Handler, Script
  <2>3. TypeOK'
    BY <1>1, <2>1, <2>2, FedHandler, ScriptAssumption DEF IInv, TypeOK
  <2>4. Kept' /\ Waiting'
    BY <1>1, <2>1, FedHandler DEF IInv, Kept, Waiting
  <2>5. BodyFedOnce'
    <3>1. handler.sent = script.taken + stdin
      BY DEF IInv, BodyFedOnce
    <3>2. ~handler.in => handler.sent = handler.body \/ ~script.in
      BY <1>1 DEF IInv, BodyFedOnce
    <3>3. handler.sent # handler.body
      BY <2>1, <2>2
    <3>. QED  BY <1>1, <2>1, <2>2, <3>1, <3>2, <3>3, FedHandler DEF BodyFedOnce
  <2>6. AnswerIsComplete' /\ Last'
    BY <1>1 DEF IInv, AnswerIsComplete, Last
  <2>. QED  BY <2>3, <2>4, <2>5, <2>6 DEF IInv
<1>. QED  BY <1>2, <1>3 DEF DispatchStdin, onWritable

\* the return of waitpid(),
LEMMA WaitpidReturnsKeeps == ASSUME IInv, WaitpidReturns PROVE IInv'
BY FinishKeeps DEF IInv, TypeOK, Waiting, WaitpidReturns

\* killChild(): the script holds nothing any more, and there is no 200.
LEMMA KilledKeeps ==
    ASSUME IInv, Abort \/ ClientGone PROVE IInv'
<1>1. TypeOK'
  BY DEF IInv, TypeOK, Handler, Script, Abort, ClientGone, Reaped
<1>2. Kept' /\ Waiting' /\ BodyFedOnce'
  BY DEF IInv, TypeOK, Handler, Script, Kept, Waiting, BodyFedOnce, Abort, ClientGone, Reaped
<1>3. AnswerIsComplete' /\ Last'
  BY DEF IInv, TypeOK, Handler, Script, AnswerIsComplete, Last, Abort,
     ClientGone, Reaped
<1>. QED  BY <1>1, <1>2, <1>3 DEF IInv

\* the rest of a round,
LEMMA LoopKeeps == ASSUME IInv, Poll \/ EndDispatch \/ Clean PROVE IInv'
BY DEF IInv, TypeOK, Kept, Waiting, Last, AnswerIsComplete, BodyFedOnce,
   Poll, Reported, EndDispatch, Clean

\* and a second that passes.
LEMMA TickKeeps == ASSUME IInv, Tick PROVE IInv'
<1>1. handler' \in Handler
  BY ScriptAssumption DEF IInv, TypeOK, Handler, Tick
<1>. QED
  BY <1>1 DEF IInv, TypeOK, Kept, Waiting, Last, AnswerIsComplete, BodyFedOnce,
     Handler, Tick

\* A script moves only while its exchange lasts, and prints only what is kept.
LEMMA ScriptKeeps == ASSUME IInv, ScriptStep PROVE IInv'
<1>. USE DEF IInv, TypeOK, Kept, Waiting, Last, AnswerIsComplete, BodyFedOnce,
             Handler, Script, Alive
<1>1. CASE ScriptReads
  BY <1>1, ScriptAssumption DEF ScriptReads
<1>2. CASE ScriptPrints
  BY <1>2, ScriptAssumption DEF ScriptPrints, Wanted
<1>3. CASE ScriptClosesInput
  BY <1>3 DEF ScriptClosesInput
<1>4. CASE ScriptClosesOutput
  BY <1>4 DEF ScriptClosesOutput
<1>5. CASE ScriptExits
  BY <1>5 DEF ScriptExits
<1>. QED  BY <1>1, <1>2, <1>3, <1>4, <1>5 DEF ScriptStep

-----------------------------------------------------------------------------
(* The theorems.                                                           *)

\* The invariant holds in every reachable state.
THEOREM Inductive == Spec => []IInv
<1>1. Init => IInv
  <2>. SUFFICES ASSUME Init PROVE IInv
    OBVIOUS
  <2>1. PICK body \in 0 .. MaxBody : handler = Started(body)
    BY DEF Init
  <2>2. PICK kind \in Kinds :
          script = [kind |-> kind, in |-> TRUE, out |-> TRUE, taken |-> 0, printed |-> 0,
                    process |-> "running"]
    BY DEF Init
  <2>3. handler \in Handler
    <3>1. (body > 0) \in BOOLEAN /\ 0 \in 0 .. MaxBody /\ 0 \in 0 .. (MaxBody + 1)
          /\ 0 \in 0 .. (CgiTimeout + 1)
      BY ScriptAssumption
    <3>. QED  BY <2>1, <3>1 DEF Started, Handler
  <2>4. script \in Script
    BY <2>2, ScriptAssumption DEF Script
  <2>5. handler.sent = 0 /\ handler.got = 0 /\ handler.body = body /\ handler.in = (body > 0)
    BY <2>1 DEF Started
  <2>6. ~handler.in => handler.sent = handler.body
    <3>1. (body > 0) = TRUE \/ body = 0
      BY ScriptAssumption
    <3>. QED  BY <2>5, <3>1
  <2>. QED
    BY <2>2, <2>3, <2>4, <2>5, <2>6, ScriptAssumption DEF Init, IInv, TypeOK, Kept, Waiting,
       Last, AnswerIsComplete, BodyFedOnce
<1>2. IInv /\ [Next]_vars => IInv'
  <2>. SUFFICES ASSUME IInv, [Next]_vars PROVE IInv'
    OBVIOUS
  <2>1. CASE ServerStep
    BY <2>1, LoopKeeps, DispatchStdoutKeeps, DispatchStdinKeeps, DispatchStdinErrorKeeps,
       WaitpidReturnsKeeps, KilledKeeps DEF ServerStep
  <2>2. CASE ClientGone \/ Tick \/ ScriptStep
    BY <2>2, KilledKeeps, TickKeeps, ScriptKeeps
  <2>3. CASE UNCHANGED vars
    BY <2>3 DEF vars, IInv, TypeOK, Kept, Waiting, Last, AnswerIsComplete, BodyFedOnce
  <2>. QED  BY <2>1, <2>2, <2>3 DEF Next, Over
<1>. QED  BY <1>1, <1>2, PTL DEF Spec

\* Every variable keeps its type: what is read fits what was printed, and the pipes
\* never hold more than they can.
THEOREM TypeCorrect == Spec => []TypeOK
<1>1. IInv => TypeOK
  BY DEF IInv
<1>. QED  BY <1>1, Inductive, PTL

\* A 200 carries all the script printed, whatever the sizes of the pipes and of read().
THEOREM AnswersAreComplete == Spec => []AnswerIsComplete
<1>1. IInv => AnswerIsComplete
  BY DEF IInv
<1>. QED  BY <1>1, Inductive, PTL

\* The script reads the body in order and once, whatever write() takes at a time.
THEOREM BodiesAreFedOnce == Spec => []BodyFedOnce
<1>1. IInv => BodyFedOnce
  BY DEF IInv
<1>. QED  BY <1>1, Inductive, PTL

=============================================================================
