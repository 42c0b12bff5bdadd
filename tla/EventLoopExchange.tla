------------------------- MODULE EventLoopExchange -------------------------
(***************************************************************************)
(* What the loop does to one client, for every value of EventLoop's         *)
(* constants.  Its script: each child has one handler that will reap it,    *)
(* and whenever the server stops nothing is left.  Its answer: one per      *)
(* client, never taken back, with time left to send it.  Together: the      *)
(* loop implements Exchange.                                                *)
(***************************************************************************)
EXTENDS EventLoopInvariants

-----------------------------------------------------------------------------
(* Children.                                                                *)

\* Handlers in T go with their child, the others keep theirs.
LEMMA ChildRelease ==
    ASSUME TypeOK, TypeOK', ChildOwnership, NEW T \in SUBSET Fd,
           \A d \in Fd : cgi'[d] = NULL <=> (d \in T \/ cgi[d] = NULL),
           \A d \in Fd : cgi'[d] # NULL => cgi'[d].pid = cgi[d].pid,
           \A p \in Pid : procs'[p] = "none" <=>
             (procs[p] = "none" \/ \E d \in T : cgi[d] # NULL /\ cgi[d].pid = p)
    PROVE  ChildOwnership'
<1>1. Scripted' = Scripted \ T /\ Scripted \subseteq Fd
      /\ \A d \in Fd : d \in Scripted <=> cgi[d] # NULL
  BY DEF Scripted
<1>2. \A d \in Scripted' : cgi'[d].pid = cgi[d].pid
  BY <1>1
<1>3. ASSUME NEW p \in Pid, procs'[p] # "none"
      PROVE  \E c \in Scripted' : cgi'[c].pid = p
  <2>1. PICK c \in Scripted : cgi[c].pid = p
    BY <1>3 DEF ChildOwnership
  <2>2. c \notin T
    BY <1>1, <1>3, <2>1
  <2>. QED  BY <1>1, <1>2, <2>1, <2>2
<1>4. ASSUME NEW c \in Scripted'
      PROVE  /\ cgi'[c].pid \in Pid /\ procs'[cgi'[c].pid] # "none"
             /\ \A d \in Scripted' : cgi'[d].pid = cgi'[c].pid => c = d
  <2>1. /\ cgi[c].pid \in Pid /\ procs[cgi[c].pid] # "none"
        /\ \A d \in Scripted : cgi[d].pid = cgi[c].pid => c = d
    BY <1>1 DEF ChildOwnership
  <2>. QED  BY <1>1, <1>2, <2>1
<1>. QED  BY <1>3, <1>4 DEF ChildOwnership

\* A script is started under a process id nobody uses.
LEMMA ChildStart ==
    ASSUME TypeOK, ChildOwnership, NEW c \in Fd, NEW p \in Pid, procs[p] = "none",
           cgi[c] = NULL, cgi'[c] # NULL, cgi'[c].pid = p,
           \A d \in Fd \ {c} : cgi'[d] = cgi[d],
           procs' = [procs EXCEPT ![p] = "running"]
    PROVE  ChildOwnership'
<1>1. Scripted' = Scripted \cup {c} /\ c \notin Scripted /\ Scripted \subseteq Fd
  BY DEF Scripted
<1>2. /\ procs'[p] = "running"
      /\ \A q \in Pid \ {p} : procs'[q] = procs[q]
  BY DEF TypeOK
<1>3. ASSUME NEW q \in Pid, procs'[q] # "none"
      PROVE  \E d \in Scripted' : cgi'[d].pid = q
  BY <1>1, <1>2, <1>3 DEF ChildOwnership
<1>4. \A d \in Scripted : /\ cgi'[d] = cgi[d] /\ cgi[d].pid # p
                          /\ cgi[d].pid \in Pid /\ procs[cgi[d].pid] # "none"
  BY <1>1 DEF ChildOwnership
<1>5. ASSUME NEW x \in Scripted'
      PROVE  /\ cgi'[x].pid \in Pid /\ procs'[cgi'[x].pid] # "none"
             /\ \A d \in Scripted' : cgi'[d].pid = cgi'[x].pid => x = d
  BY <1>1, <1>2, <1>4 DEF ChildOwnership
<1>. QED  BY <1>3, <1>5 DEF ChildOwnership

\* waitpid() after finishCgi(): c's handler and its child go together.
LEMMA ChildFinish ==
    ASSUME LoopInv, TypeOK', ChildOwnership, NEW c \in Fd, cgi[c] # NULL,
           NEW k, FinishCgi(c, k)
    PROVE  ChildOwnership'
<1>1. /\ cgi'[c] = NULL /\ \A d \in Fd \ {c} : cgi'[d] = cgi[d]
      /\ procs' = [procs EXCEPT ![cgi[c].pid] = "none"]
  BY DEF FinishCgi, Deleted, LoopInv, TypeInv, TypeOK
<1>2. cgi[c].pid \in Pid
  BY DEF ChildOwnership, Scripted
<1>3. \A p \in Pid : procs'[p] = "none" <=>
        (procs[p] = "none" \/ \E d \in {c} : cgi[d] # NULL /\ cgi[d].pid = p)
  BY <1>1, <1>2 DEF LoopInv, TypeInv, TypeOK
<1>4. /\ \A d \in Fd : cgi'[d] = NULL <=> (d \in {c} \/ cgi[d] = NULL)
      /\ \A d \in Fd : cgi'[d] # NULL => cgi'[d].pid = cgi[d].pid
  BY <1>1
<1>. QED  BY <1>3, <1>4, ChildRelease DEF LoopInv, TypeInv

\* The children that are gone afterwards are those that were gone and those reaped.
LEMMA ReapedNone ==
    ASSUME NEW T \in SUBSET Fd, TypeOK, procs' = ReapedOf(T)
    PROVE  \A p \in Pid : procs'[p] = "none" <=>
             (procs[p] = "none" \/ \E d \in T : cgi[d] # NULL /\ cgi[d].pid = p)
BY DEF ReapedOf, TypeOK

\* Steps that change no handler's child.
LEMMA ChildrenKept ==
    ASSUME TypeOK, TypeOK', ChildOwnership,
           \A d \in Fd : cgi'[d] = NULL <=> cgi[d] = NULL,
           \A d \in Fd : cgi'[d] # NULL => cgi'[d].pid = cgi[d].pid,
           \A p \in Pid : procs'[p] = "none" <=> procs[p] = "none"
    PROVE  ChildOwnership'
<1>1. \A p \in Pid : procs'[p] = "none" <=>
        (procs[p] = "none" \/ \E d \in {} : cgi[d] # NULL /\ cgi[d].pid = p)
  OBVIOUS
<1>2. \A d \in Fd : cgi'[d] = NULL <=> (d \in {} \/ cgi[d] = NULL)
  OBVIOUS
<1>3. {} \in SUBSET Fd
  OBVIOUS
<1>. QED  BY <1>1, <1>2, <1>3, ChildRelease

\* However an entry of the poll set is dispatched, children stay owned.
LEMMA ChildDispatch ==
    ASSUME LoopInv, TypeOK', ChildOwnership, NEW e \in pollFds, Dispatch(e)
    PROVE  ChildOwnership'
<1>1. CASE AcceptNew(e)
  <2>1. PICK f \in Fd : f \notin open /\ cgi' = [cgi EXCEPT ![f] = NULL]
    BY <1>1 DEF AcceptNew, IsLowest
  <2>2. cgi[f] = NULL
    BY <2>1 DEF LoopInv, FdOwnership, NeverStranded, Clients
  <2>3. cgi' = cgi /\ procs' = procs
    BY <1>1, <2>1, <2>2 DEF AcceptNew, LoopInv, TypeInv, TypeOK
  <2>. QED  BY <2>3, ChildrenKept DEF LoopInv, TypeInv
<1>2. CASE ClientHangup(e) \/ ToReadEnds(e) \/ ToReadMore(e) \/ ToReadAnswers(e)
           \/ ToWrite(e)
  <2>1. cgi' = cgi /\ procs' = procs
    BY <1>2 DEF ClientHangup, ToReadEnds, ToReadMore, ToReadAnswers, ToWrite
  <2>. QED  BY <2>1, ChildrenKept DEF LoopInv, TypeInv
<1>3. CASE ToReadScriptFails(e)
  <2>1. cgi[e.fd] = NULL /\ e.fd \in Fd
    BY <1>3, ReachedState, ReachedClient DEF ToReadScriptFails, Readable
  <2>2. cgi' = cgi /\ procs' = procs
    BY <1>3, <2>1 DEF ToReadScriptFails, LoopInv, TypeInv, TypeOK
  <2>. QED  BY <2>2, ChildrenKept DEF LoopInv, TypeInv
<1>4. CASE ToReadStartsScript(e)
  <2>1. cgi[e.fd] = NULL /\ e.fd \in Fd
    BY <1>4, ReachedState, ReachedClient DEF ToReadStartsScript, Readable
  <2>2. PICK p \in Pid, b \in 0 .. MaxBody, i0 \in Fd, i1 \in Fd, o0 \in Fd,
             o1 \in Fd : /\ procs[p] = "none"
                         /\ Started(e.fd, p, b, i0, i1, o0, o1)
    BY <1>4 DEF ToReadStartsScript
  <2>3. /\ cgi'[e.fd] = [pid |-> p, in |-> IF b = 0 THEN NoFd ELSE i1, out |-> o0,
                         body |-> b, stall |-> 0]
        /\ \A d \in Fd \ {e.fd} : cgi'[d] = cgi[d]
        /\ procs' = [procs EXCEPT ![p] = "running"]
    BY <2>1, <2>2 DEF Started, LoopInv, TypeInv, TypeOK
  <2>4. cgi'[e.fd] \in Handler
    BY <2>3, LimitsAssumption, TimeoutAssumption DEF Handler
  <2>5. cgi'[e.fd] # NULL /\ cgi'[e.fd].pid = p
    BY <2>3, <2>4, NullTypes
  <2>. QED  BY <2>1, <2>2, <2>3, <2>5, ChildStart DEF LoopInv, TypeInv
<1>5. CASE OnCgiWritable(e) \/ OnCgiPrinted(e) \/ OnCgiEndsEarly(e)
  <2> DEFINE c == Owner(e)
  <2>1. PipeEvent(e) /\ procs' = procs
    BY <1>5 DEF OnCgiWritable, OnCgiPrinted, OnCgiEndsEarly
  <2>2. c \in Fd /\ cgi[c] \in Handler /\ cgi[c] # NULL
    BY <2>1, ReachedPipe
  <2> HIDE DEF c
  <2>3. PICK g : cgi' = [cgi EXCEPT ![c] = g] /\ g.pid = cgi[c].pid /\ g # NULL
    <3>1. CASE OnCgiWritable(e)
      <4>1. [cgi[c] EXCEPT !.in = NoFd].pid = cgi[c].pid
            /\ \A n \in 1 .. cgi[c].body : Fed(cgi[c], n).pid = cgi[c].pid
        BY <2>2 DEF Handler, Fed
      <4>2. [cgi[c] EXCEPT !.in = NoFd] # NULL
            /\ \A n \in 1 .. cgi[c].body : Fed(cgi[c], n) # NULL
        BY <2>2, HandlerTypes, NullTypes
      <4>3. \/ cgi' = [cgi EXCEPT ![c] = [cgi[c] EXCEPT !.in = NoFd]]
            \/ \E n \in 1 .. cgi[c].body : cgi' = [cgi EXCEPT ![c] = Fed(cgi[c], n)]
        BY <2>2, <3>1 DEF c, OnCgiWritable, LoopInv, TypeInv, TypeOK
      <4>. QED  BY <4>1, <4>2, <4>3
    <3>2. CASE OnCgiPrinted(e)
      <4>1. cgi' = [cgi EXCEPT ![c].stall = 0]
        BY <3>2 DEF c, OnCgiPrinted
      <4>2. cgi' = [cgi EXCEPT ![c] = [cgi[c] EXCEPT !.stall = 0]]
        BY <2>2, <4>1 DEF LoopInv, TypeInv, TypeOK, Handler
      <4>3. [cgi[c] EXCEPT !.stall = 0] # NULL
        BY <2>2, <4>1, HandlerTypes, NullTypes
      <4>4. [cgi[c] EXCEPT !.stall = 0].pid = cgi[c].pid
        BY <2>2 DEF Handler
      <4>. QED  BY <4>2, <4>3, <4>4
    <3>3. CASE OnCgiEndsEarly(e)
      <4>1. cgi' = [cgi EXCEPT ![c] = [cgi[c] EXCEPT !.out = NoFd]]
        BY <2>2, <3>3 DEF c, OnCgiEndsEarly, LoopInv, TypeInv, TypeOK
      <4>2. [cgi[c] EXCEPT !.out = NoFd] # NULL
        BY <2>2, HandlerTypes, NullTypes
      <4>3. [cgi[c] EXCEPT !.out = NoFd].pid = cgi[c].pid
        BY <2>2 DEF Handler
      <4>. QED  BY <4>1, <4>2, <4>3
    <3>. QED  BY <1>5, <3>1, <3>2, <3>3
  <2>4. cgi'[c] = g /\ \A d \in Fd \ {c} : cgi'[d] = cgi[d]
    BY <2>2, <2>3 DEF LoopInv, TypeInv, TypeOK
  <2>. QED  BY <2>1, <2>2, <2>3, <2>4, ChildrenKept DEF LoopInv, TypeInv
<1>6. CASE OnCgiEnds(e)
  <2>1. Owner(e) \in Fd /\ cgi[Owner(e)] # NULL
        /\ FinishCgi(Owner(e), Active(conn[Owner(e)]))
    BY <1>6, ReachedPipe DEF OnCgiEnds
  <2>. QED  BY <2>1, ChildFinish
<1>. QED  BY <1>1, <1>2, <1>3, <1>4, <1>5, <1>6 DEF Dispatch

\* Whatever the server does, children stay owned.
LEMMA ChildStep ==
    ASSUME LoopInv, TypeOK', ChildOwnership, [Next]_vars
    PROVE  ChildOwnership'
<1>1. CASE BootFails \/ Shutdown
  <2>1. /\ \A d \in Fd : cgi'[d] = NULL
        /\ procs' = ReapedOf(Clients) /\ Clients \in SUBSET Fd
    BY <1>1 DEF BootFails, Shutdown, Destructor, Clients
  <2>2. \A c \in Scripted : c \in Clients
    BY DEF Scripted, Clients, LoopInv, NeverStranded
  <2>3. \A p \in Pid : procs'[p] = "none"
    BY <2>1, <2>2 DEF ReapedOf, ChildOwnership, Scripted
  <2>4. Scripted' = {}
    BY <2>1 DEF Scripted
  <2>. QED  BY <2>3, <2>4 DEF ChildOwnership
<1>2. CASE CreateListenSocket \/ BuildPollSet \/ Sigint \/ Terminated
           \/ UNCHANGED vars
  <2>1. cgi' = cgi /\ procs' = procs
    BY <1>2 DEF CreateListenSocket, BuildPollSet, Sigint, Terminated, vars
  <2>. QED  BY <2>1, ChildrenKept DEF LoopInv, TypeInv
<1>3. CASE EndDispatch
  <2>1. /\ \A d \in Fd : cgi'[d] = IF d \in finished THEN NULL ELSE cgi[d]
        /\ procs' = ReapedOf(finished)
    BY <1>3 DEF EndDispatch, CloseConnections
  <2>2. finished \in SUBSET Fd
    BY DEF LoopInv, TypeInv, TypeOK
  <2>3. \A p \in Pid : procs'[p] = "none" <=>
          (procs[p] = "none" \/ \E d \in finished : cgi[d] # NULL /\ cgi[d].pid = p)
    BY <2>1, <2>2, ReapedNone DEF LoopInv, TypeInv
  <2>. QED  BY <2>1, <2>2, <2>3, ChildRelease DEF LoopInv, TypeInv
<1>4. CASE CleanConnectionInactive
  <2>1. /\ \A d \in Fd : cgi'[d] = IF d \in TimedOutScripts THEN NULL ELSE cgi[d]
        /\ procs' = ReapedOf(TimedOutScripts)
    BY <1>4 DEF CleanConnectionInactive
  <2>2. TimedOutScripts \in SUBSET Fd
    BY DEF TimedOutScripts, Clients
  <2>3. \A p \in Pid : procs'[p] = "none" <=>
          (procs[p] = "none"
             \/ \E d \in TimedOutScripts : cgi[d] # NULL /\ cgi[d].pid = p)
    BY <2>1, <2>2, ReapedNone DEF LoopInv, TypeInv
  <2>. QED  BY <2>1, <2>2, <2>3, ChildRelease DEF LoopInv, TypeInv
<1>5. CASE \E e \in pollFds : Dispatch(e)
  BY <1>5, ChildDispatch
<1>6. CASE WaitpidReturns
  <2>1. waiting \in Fd /\ cgi[waiting] # NULL
        /\ FinishCgi(waiting, conn[waiting])
    BY <1>6 DEF WaitpidReturns, LoopInv, TypeInv, WaitsForScript
  <2>2. PICK c \in Fd : c = waiting
    BY <2>1
  <2>3. cgi[c] # NULL /\ FinishCgi(c, conn[c])
    BY <2>1, <2>2 DEF FinishCgi, Deleted, NoteDone, Pipes
  <2>. QED  BY <2>3, ChildFinish
<1>7. CASE Tick
  <2>1. \A c \in Fd : /\ cgi'[c] = NULL <=> cgi[c] = NULL
                      /\ cgi[c] # NULL => cgi'[c].pid = cgi[c].pid
    BY <1>7, Aged DEF LoopInv
  <2>2. procs' = procs
    BY <1>7 DEF Tick
  <2>. QED  BY <2>1, <2>2, ChildrenKept DEF LoopInv, TypeInv
<1>8. CASE \E p \in Pid : ScriptExits(p)
  <2>1. PICK p \in Pid : procs[p] = "running" /\ cgi' = cgi
                         /\ procs' = [procs EXCEPT ![p] = "zombie"]
    BY <1>8 DEF ScriptExits
  <2>2. \A q \in Pid : procs'[q] = "none" <=> procs[q] = "none"
    BY <2>1 DEF LoopInv, TypeInv, TypeOK
  <2>. QED  BY <2>1, <2>2, ChildrenKept DEF LoopInv, TypeInv
<1>. QED
  BY <1>1, <1>2, <1>3, <1>4, <1>5, <1>6, <1>7, <1>8 DEF Next, ServerStep

\* Children are owned in every state of the loop.
LEMMA ChildInvariant == Spec => [](LoopInv /\ ChildOwnership)
<1>1. Init => LoopInv /\ ChildOwnership
  <2>1. Init => ChildOwnership
    BY DEF Init, ChildOwnership, Scripted
  <2>. QED  BY <2>1, LoopInit
<1>2. LoopInv /\ ChildOwnership /\ [Next]_vars => (LoopInv /\ ChildOwnership)'
  <2>1. LoopInv' => TypeOK'
    BY DEF LoopInv, TypeInv
  <2>. QED  BY <2>1, LoopStep, ChildStep
<1>. QED  BY <1>1, <1>2, PTL DEF Spec

\* Every child has the one handler that will reap it: nothing a client or a
\* script does, and no timeout, leaves a zombie or an orphan.
THEOREM ChildrenAreOwned == Spec => []ChildOwnership
<1>1. LoopInv /\ ChildOwnership => ChildOwnership
  OBVIOUS
<1>. QED  BY <1>1, ChildInvariant, PTL

-----------------------------------------------------------------------------
(* The shutdown.                                                            *)

\* The destructor leaves nothing, and nothing is opened or forked behind it.
LEMMA ShutdownStep ==
    ASSUME LoopInv, ChildOwnership, TypeOK', CleanShutdown, [Next]_vars
    PROVE  CleanShutdown'
<1>1. CASE BootFails \/ Shutdown
  <2>1. open' = {}
    BY <1>1, DestructorCloses DEF BootFails, Shutdown
  <2>2. procs' = ReapedOf(Clients)
    BY <1>1 DEF BootFails, Shutdown, Destructor
  <2>3. \A c \in Scripted : c \in Clients
    BY DEF Scripted, Clients, LoopInv, NeverStranded
  <2>4. \A p \in Pid : procs'[p] = "none"
    BY <2>2, <2>3 DEF ReapedOf, ChildOwnership, Scripted
  <2>. QED  BY <2>1, <2>4 DEF CleanShutdown
<1>2. CASE \E p \in Pid : ScriptExits(p)
  BY <1>2 DEF ScriptExits, CleanShutdown
<1>3. CASE Terminated \/ UNCHANGED vars
  BY <1>3 DEF Terminated, vars, CleanShutdown
<1>4. CASE \E e \in pollFds : Dispatch(e)
  <2>1. pc' # "down"
    BY <1>4 DEF Dispatch, AcceptNew, ClientHangup, ToReadEnds, ToReadMore,
       ToReadAnswers, ToReadStartsScript, ToReadScriptFails, ToWrite,
       OnCgiWritable, OnCgiPrinted, OnCgiEnds, OnCgiEndsEarly, Readable, PipeEvent,
       Reach
  <2>. QED  BY <2>1 DEF CleanShutdown
<1>5. CASE CreateListenSocket \/ BuildPollSet \/ EndDispatch
           \/ CleanConnectionInactive \/ WaitpidReturns \/ Tick \/ Sigint
  <2>1. pc' # "down"
    BY <1>5 DEF CreateListenSocket, BuildPollSet, EndDispatch,
       CleanConnectionInactive, WaitpidReturns, Tick, Sigint
  <2>. QED  BY <2>1 DEF CleanShutdown
<1>. QED
  BY <1>1, <1>2, <1>3, <1>4, <1>5 DEF Next, ServerStep

\* Whenever SIGINT comes, and when a listener cannot be had, the destructor
\* closes every descriptor and reaps every child.
THEOREM ShutdownIsClean == Spec => []CleanShutdown
<1>1. Init => CleanShutdown
  BY DEF Init, CleanShutdown
<1>2. CleanShutdown /\ LoopInv /\ ChildOwnership
        /\ LoopInv' /\ [Next]_vars => CleanShutdown'
  <2>1. LoopInv' => TypeOK'
    BY DEF LoopInv, TypeInv
  <2>. QED  BY <2>1, ShutdownStep
<1>. QED  BY <1>1, <1>2, ChildInvariant, PTL DEF Spec

-----------------------------------------------------------------------------
(* The moves of a Connection and of its CgiHandler.                         *)

Stays(k, l) == l.state = k.state /\ l.left = k.left /\ l.answers = k.answers
Leaves(k, l) == /\ k.state \in {"READING", "WRITING"} /\ l.state = "DONE"
                /\ l.left = k.left /\ l.answers = k.answers
StartsScript(k, l) == /\ k.state = "READING" /\ l.state = "CGI"
                      /\ l.left = k.left /\ l.answers = k.answers
Answers(k, l) == /\ k.state \in {"READING", "CGI"} /\ l.state = "WRITING"
                 /\ l.left = ResponseLen /\ l.answers = k.answers + 1
Sends(k, l) == /\ k.state = "WRITING" /\ l.left < k.left /\ l.answers = k.answers
               /\ \/ l.state = "DONE"
                  \/ l.state = "WRITING" /\ l.left > 0

ConnMove(k, l) == \/ Stays(k, l) \/ Leaves(k, l) \/ StartsScript(k, l)
                  \/ Answers(k, l) \/ Sends(k, l)

\* A handler keeps its child; a new one has a child nobody had.  The client's
\* clock was restarted with the step, a second ago at most, or both clocks went
\* the same way.
HandlerMove(c) ==
    cgi'[c] # NULL =>
      /\ cgi[c] # NULL => cgi'[c].pid = cgi[c].pid
      /\ cgi[c] = NULL => cgi'[c].pid \in Pid /\ procs[cgi'[c].pid] = "none"
      /\ \/ conn'[c].idle \in {0, 1}
         \/ /\ cgi[c] # NULL
            /\ conn'[c].idle = conn[c].idle /\ cgi'[c].stall = cgi[c].stall
         \/ /\ cgi[c] # NULL
            /\ conn'[c].idle = Older(conn[c].idle, ConnectionTimeout)
            /\ cgi'[c].stall = Older(cgi[c].stall, ConnectionTimeout)

\* What each call on a connection makes of it, as a client sees it.
LEMMA ConnCalls ==
    ASSUME NEW k \in Conn
    PROVE  /\ Stays(k, Active(k)) /\ Active(k).idle = 0
           /\ \A j \in ActiveFirst(k) : Stays(k, j) /\ j.idle \in {0, 1}
           /\ k.state \in {"READING", "WRITING"} => Leaves(k, Done(k))
           /\ k.state \in {"READING", "CGI"} =>
                Answers(k, Queued(k)) /\ Answers(k, Queued(Active(k)))
           /\ k.state = "READING" =>
                \A j \in ActiveFirst(k) : StartsScript(k, InScript(j))
                                          /\ InScript(j).idle \in {0, 1}
           /\ k.state = "WRITING" => \A n \in 1 .. k.left : Sends(k, Sent(k, n))
<1>1. /\ k.left \in 0 .. ResponseLen /\ k.answers \in Nat /\ ResponseLen \in Nat
  BY LimitsAssumption DEF Conn
<1>2. Stays(k, Active(k)) /\ Active(k).idle = 0
  BY DEF Conn, Stays, Active
<1>3. \A j \in ActiveFirst(k) : Stays(k, j) /\ j.idle \in {0, 1}
  BY DEF Conn, Stays, ActiveFirst
<1>4. k.state \in {"READING", "WRITING"} => Leaves(k, Done(k))
  BY DEF Conn, Leaves, Done
<1>5. k.state \in {"READING", "CGI"} =>
        Answers(k, Queued(k)) /\ Answers(k, Queued(Active(k)))
  BY DEF Conn, Answers, Queued, Active
<1>6. k.state = "READING" =>
        \A j \in ActiveFirst(k) : StartsScript(k, InScript(j))
                                  /\ InScript(j).idle \in {0, 1}
  BY DEF Conn, StartsScript, ActiveFirst, InScript
<1>7. ASSUME k.state = "WRITING", NEW n \in 1 .. k.left PROVE Sends(k, Sent(k, n))
  <2>1. /\ Sent(k, n).left = k.left - n /\ Sent(k, n).answers = k.answers
        /\ Sent(k, n).state = IF k.left <= n THEN "DONE" ELSE k.state
    BY DEF Conn, Sent, Active
  <2>. QED  BY <1>1, <1>7, <2>1 DEF Sends
<1>. QED  BY <1>2, <1>3, <1>4, <1>5, <1>6, <1>7

\* Nothing changes for a client.
LEMMA Untouched ==
    ASSUME NEW c \in Fd, conn'[c] = conn[c], cgi'[c] = cgi[c]
    PROVE  ConnMove(conn[c], conn'[c]) /\ HandlerMove(c)
BY DEF ConnMove, Stays, HandlerMove

\* Connection::onReadable and onWritable without a script,
LEMMA ClientMoves ==
    ASSUME LoopInv, NEW e \in pollFds,
           \/ ToReadEnds(e) \/ ToReadMore(e) \/ ToReadAnswers(e)
           \/ ToReadScriptFails(e) \/ ToWrite(e)
    PROVE  ConnMove(conn[e.fd], conn'[e.fd]) /\ HandlerMove(e.fd)
<1> DEFINE c == e.fd
<1>1. Reach(e) /\ IsClient(c)
  BY DEF ToReadEnds, ToReadMore, ToReadAnswers, ToReadScriptFails, ToWrite, Readable
<1>2. c \in Fd /\ conn[c] \in Conn
  BY <1>1, ReachedClient
<1>3. /\ e.events = "IN" => conn[c].state = "READING"
      /\ e.events = "OUT" => conn[c].state = "WRITING"
      /\ e.events \in {"IN", "OUT"} => cgi[c] = NULL
  BY <1>1, ReachedState
<1>4. cgi'[c] = NULL
  BY <1>2, <1>3 DEF ToReadEnds, ToReadMore, ToReadAnswers, ToReadScriptFails,
     ToWrite, Readable, LoopInv, TypeInv, TypeOK
<1>5. ConnMove(conn[c], conn'[c])
  <2>1. CASE ToReadEnds(e)
    <3>1. conn'[c] = Done(conn[c]) /\ conn[c].state = "READING"
      BY <1>2, <1>3, <2>1 DEF ToReadEnds, Readable, LoopInv, TypeInv, TypeOK
    <3>. QED  BY <1>2, <3>1, ConnCalls DEF ConnMove
  <2>2. CASE ToReadMore(e)
    <3>1. conn'[c] = Active(conn[c])
      BY <1>2, <2>2 DEF ToReadMore, LoopInv, TypeInv, TypeOK
    <3>. QED  BY <1>2, <3>1, ConnCalls DEF ConnMove
  <2>3. CASE ToReadAnswers(e) \/ ToReadScriptFails(e)
    <3>1. conn'[c] = Queued(Active(conn[c])) /\ conn[c].state = "READING"
      BY <1>2, <1>3, <2>3
      DEF ToReadAnswers, ToReadScriptFails, Readable, LoopInv, TypeInv, TypeOK
    <3>. QED  BY <1>2, <3>1, ConnCalls DEF ConnMove
  <2>4. CASE ToWrite(e)
    <3>1. /\ conn[c].state = "WRITING"
          /\ \/ conn'[c] = Done(conn[c])
             \/ \E n \in 1 .. conn[c].left : conn'[c] = Sent(conn[c], n)
      BY <1>2, <1>3, <2>4 DEF ToWrite, LoopInv, TypeInv, TypeOK
    <3>. QED  BY <1>2, <3>1, ConnCalls DEF ConnMove
  <2>. QED  BY <2>1, <2>2, <2>3, <2>4
<1>. QED  BY <1>4, <1>5 DEF HandlerMove

\* with a script that is started,
LEMMA StartMoves ==
    ASSUME LoopInv, NEW e \in pollFds, ToReadStartsScript(e)
    PROVE  ConnMove(conn[e.fd], conn'[e.fd]) /\ HandlerMove(e.fd)
<1> DEFINE c == e.fd
<1>1. Reach(e) /\ IsClient(c) /\ e.events = "IN"
  BY DEF ToReadStartsScript, Readable
<1>2. c \in Fd /\ conn[c] \in Conn /\ conn[c].state = "READING" /\ cgi[c] = NULL
  BY <1>1, ReachedClient, ReachedState
<1>3. PICK k \in ActiveFirst(conn[c]) : conn'[c] = InScript(k)
  BY <1>2 DEF ToReadStartsScript, LoopInv, TypeInv, TypeOK
<1>4. StartsScript(conn[c], conn'[c]) /\ conn'[c].idle \in {0, 1}
  BY <1>2, <1>3, ConnCalls
<1>5. PICK p \in Pid, b \in 0 .. MaxBody, i0 \in Fd, i1 \in Fd, o0 \in Fd,
           o1 \in Fd : procs[p] = "none" /\ Started(c, p, b, i0, i1, o0, o1)
  BY DEF ToReadStartsScript
<1>6. cgi'[c].pid = p
  BY <1>2, <1>5 DEF Started, LoopInv, TypeInv, TypeOK
<1>. QED  BY <1>2, <1>4, <1>5, <1>6 DEF ConnMove, HandlerMove

\* Connection::onCgiReadable and onCgiWritable while the script goes on,
LEMMA PipeMoves ==
    ASSUME LoopInv, NEW e \in pollFds,
           OnCgiWritable(e) \/ OnCgiPrinted(e) \/ OnCgiEndsEarly(e)
    PROVE  ConnMove(conn[e.owner], conn'[e.owner]) /\ HandlerMove(e.owner)
<1> DEFINE c == e.owner
<1>1. PipeEvent(e)
  BY DEF OnCgiWritable, OnCgiPrinted, OnCgiEndsEarly
<1>2. /\ c \in Fd /\ conn[c] \in Conn /\ cgi[c] \in Handler /\ cgi[c] # NULL
      /\ Owner(e) = c
  BY <1>1, ReachedPipe
<1> HIDE DEF c
<1>3. conn'[c] = Active(conn[c]) \/ conn'[c] \in ActiveFirst(conn[c])
  BY <1>2 DEF OnCgiWritable, OnCgiPrinted, OnCgiEndsEarly, LoopInv, TypeInv, TypeOK
<1>4. Stays(conn[c], conn'[c]) /\ conn'[c].idle \in {0, 1}
  BY <1>2, <1>3, ConnCalls
<1>5. cgi'[c].pid = cgi[c].pid
  <2>1. CASE OnCgiWritable(e)
    <3>1. [cgi[c] EXCEPT !.in = NoFd].pid = cgi[c].pid
          /\ \A n \in 1 .. cgi[c].body : Fed(cgi[c], n).pid = cgi[c].pid
      BY <1>2 DEF Handler, Fed
    <3>2. \/ cgi' = [cgi EXCEPT ![c] = [cgi[c] EXCEPT !.in = NoFd]]
          \/ \E n \in 1 .. cgi[c].body : cgi' = [cgi EXCEPT ![c] = Fed(cgi[c], n)]
      BY <1>2, <2>1 DEF OnCgiWritable, LoopInv, TypeInv, TypeOK
    <3>3. \/ cgi'[c] = [cgi[c] EXCEPT !.in = NoFd]
          \/ \E n \in 1 .. cgi[c].body : cgi'[c] = Fed(cgi[c], n)
      BY <1>2, <3>2 DEF LoopInv, TypeInv, TypeOK
    <3>. QED  BY <3>1, <3>3
  <2>2. CASE OnCgiPrinted(e)
    <3>1. cgi' = [cgi EXCEPT ![c].stall = 0]
      BY <1>2, <2>2 DEF OnCgiPrinted
    <3>. QED  BY <1>2, <3>1 DEF LoopInv, TypeInv, TypeOK, Handler
  <2>3. CASE OnCgiEndsEarly(e)
    BY <1>2, <2>3 DEF OnCgiEndsEarly, LoopInv, TypeInv, TypeOK, Handler
  <2>. QED  BY <2>1, <2>2, <2>3
<1>6. HandlerMove(c) /\ ConnMove(conn[c], conn'[c])
  BY <1>2, <1>4, <1>5 DEF HandlerMove, ConnMove
<1>. QED  BY <1>6 DEF c

\* and its end: each moves the connection as Exchange sees it.
LEMMA FinishMoves ==
    ASSUME LoopInv, NEW c \in Fd, conn[c] # NULL, cgi[c] # NULL,
           NEW k \in {conn[c], Active(conn[c])}, FinishCgi(c, k)
    PROVE  ConnMove(conn[c], conn'[c]) /\ HandlerMove(c)
<1>1. conn[c] \in Conn /\ conn[c].state = "CGI"
  BY DEF LoopInv, TypeInv, TypeOK, NeverStranded
<1>2. conn'[c] = Queued(k) /\ cgi'[c] = NULL
  BY DEF FinishCgi, Deleted, LoopInv, TypeInv, TypeOK
<1>. QED  BY <1>1, <1>2, ConnCalls DEF ConnMove, HandlerMove

\* The whole step, seen by a client that is there before and after it.
LEMMA DispatchMoves ==
    ASSUME LoopInv, TypeInv', NEW e \in pollFds, Dispatch(e), NEW c \in Fd,
           conn[c] # NULL
    PROVE  conn'[c] # NULL /\ ConnMove(conn[c], conn'[c]) /\ HandlerMove(c)
<1>1. CASE AcceptNew(e)
  <2>1. PICK f \in Fd : /\ f \notin open /\ conn' = [conn EXCEPT ![f] = NewConnection]
                        /\ cgi' = [cgi EXCEPT ![f] = NULL]
    BY <1>1 DEF AcceptNew, IsLowest
  <2>2. c # f
    BY <2>1 DEF LoopInv, FdOwnership, Clients
  <2>3. conn'[c] = conn[c] /\ cgi'[c] = cgi[c]
    BY <2>1, <2>2 DEF LoopInv, TypeInv, TypeOK
  <2>. QED  BY <2>3, Untouched
<1>2. CASE ClientHangup(e)
  BY <1>2, Untouched DEF ClientHangup
<1>3. CASE /\ Reach(e) /\ HandlerStep(e, e.owner)
           /\ ConnMove(conn[e.owner], conn'[e.owner]) /\ HandlerMove(e.owner)
  <2>1. CASE c = e.owner
    BY <1>3, <2>1 DEF HandlerStep
  <2>2. CASE c # e.owner
    <3>1. conn'[c] = conn[c] /\ cgi'[c] = cgi[c]
      BY <1>3, <2>2 DEF HandlerStep
    <3>. QED  BY <3>1, Untouched
  <2>. QED  BY <2>1, <2>2
<1>4. CASE ToReadEnds(e) \/ ToReadMore(e) \/ ToReadAnswers(e)
           \/ ToReadScriptFails(e) \/ ToWrite(e)
  <2>1. Reach(e) /\ IsClient(e.fd)
    BY <1>4 DEF ToReadEnds, ToReadMore, ToReadAnswers, ToReadScriptFails, ToWrite,
       Readable
  <2>2. e.owner = e.fd
    BY <2>1, ReachedClient
  <2>. QED  BY <1>3, <1>4, <2>1, <2>2, PlainClientStep, ClientMoves
<1>5. CASE ToReadStartsScript(e)
  <2>1. Reach(e) /\ IsClient(e.fd)
    BY <1>5 DEF ToReadStartsScript, Readable
  <2>2. e.owner = e.fd
    BY <2>1, ReachedClient
  <2>. QED  BY <1>3, <1>5, <2>1, <2>2, StartStep, StartMoves
<1>6. CASE OnCgiWritable(e) \/ OnCgiPrinted(e) \/ OnCgiEndsEarly(e)
  <2>1. Reach(e)
    BY <1>6 DEF OnCgiWritable, OnCgiPrinted, OnCgiEndsEarly, PipeEvent
  <2>. QED
    BY <1>3, <1>6, <2>1, WritableStep, PrintedStep, EndsEarlyStep, PipeMoves
<1>7. CASE OnCgiEnds(e)
  <2>1. /\ Reach(e) /\ e.owner \in Fd /\ conn[e.owner] # NULL
        /\ cgi[e.owner] # NULL /\ FinishCgi(e.owner, Active(conn[e.owner]))
    BY <1>7, ReachedPipe DEF OnCgiEnds, PipeEvent
  <2>. QED  BY <1>3, <1>7, <2>1, EndsStep, FinishMoves
<1>. QED  BY <1>1, <1>2, <1>4, <1>5, <1>6, <1>7 DEF Dispatch

\* No step of the loop moves a connection in another way.
LEMMA StepMoves ==
    ASSUME LoopInv, TypeInv', [Next]_vars, NEW c \in Fd, conn[c] # NULL,
           conn'[c] # NULL
    PROVE  ConnMove(conn[c], conn'[c]) /\ HandlerMove(c)
<1>1. CASE BootFails \/ Shutdown
  BY <1>1 DEF BootFails, Shutdown, Destructor
<1>2. CASE UNCHANGED <<conn, cgi>>
  BY <1>2, Untouched
<1>3. CASE CreateListenSocket \/ BuildPollSet \/ Sigint \/ Terminated
           \/ UNCHANGED vars \/ \E p \in Pid : ScriptExits(p)
  BY <1>2, <1>3
  DEF CreateListenSocket, BuildPollSet, Sigint, Terminated, vars, ScriptExits
<1>4. CASE EndDispatch
  <2>1. conn'[c] = conn[c] /\ cgi'[c] = cgi[c]
    BY <1>4 DEF EndDispatch, CloseConnections
  <2>. QED  BY <2>1, Untouched
<1>5. CASE CleanConnectionInactive
  <2>1. CASE c \in TimedOutScripts
    <3>1. conn[c] \in Conn /\ conn[c].state = "CGI"
      BY <2>1 DEF LoopInv, TypeInv, TypeOK, NeverStranded, TimedOutScripts
    <3>2. conn'[c] = Queued(conn[c]) /\ cgi'[c] = NULL
      BY <1>5, <2>1 DEF CleanConnectionInactive, TimedOutScripts, StaleClients
    <3>. QED  BY <3>1, <3>2, ConnCalls DEF ConnMove, HandlerMove
  <2>2. CASE c \notin TimedOutScripts
    <3>1. conn'[c] = conn[c] /\ cgi'[c] = cgi[c]
      BY <1>5, <2>2 DEF CleanConnectionInactive
    <3>. QED  BY <3>1, Untouched
  <2>. QED  BY <2>1, <2>2
<1>6. CASE \E e \in pollFds : Dispatch(e)
  BY <1>6, DispatchMoves
<1>7. CASE WaitpidReturns
  <2>1. PICK w \in Fd : w = waiting
    BY <1>7 DEF WaitpidReturns, LoopInv, TypeInv, WaitsForScript
  <2>2. /\ conn[w] # NULL /\ conn[w] \in Conn
        /\ cgi[w] # NULL /\ FinishCgi(w, conn[w])
    BY <1>7, <2>1 DEF WaitpidReturns, LoopInv, TypeInv, TypeOK, WaitsForScript
  <2>3. CASE c = w
    BY <2>2, <2>3, FinishMoves
  <2>4. CASE c # w
    <3>1. conn'[c] = conn[c] /\ cgi'[c] = cgi[c]
      BY <2>2, <2>4, Finished
    <3>. QED  BY <3>1, Untouched
  <2>. QED  BY <2>3, <2>4
<1>8. CASE Tick
  <2>1. Stays(conn[c], conn'[c])
    BY <1>8, Aged DEF LoopInv, Stays
  <2>2. HandlerMove(c)
    BY <1>8, Aged DEF LoopInv, HandlerMove
  <2>. QED  BY <2>1, <2>2 DEF ConnMove
<1>. QED
  BY <1>1, <1>3, <1>4, <1>5, <1>6, <1>7, <1>8 DEF Next, ServerStep

\* A client that was not there before was accepted in this step.
LEMMA StepAccepts ==
    ASSUME LoopInv, [Next]_vars, NEW c \in Fd, conn[c] = NULL, conn'[c] # NULL
    PROVE  conn'[c] = NewConnection /\ cgi'[c] = NULL
<1>1. cgi[c] = NULL
  BY DEF LoopInv, NeverStranded
<1>2. CASE \E e \in pollFds : AcceptNew(e)
  BY <1>2 DEF AcceptNew, LoopInv, TypeInv, TypeOK
<1>3. CASE BootFails \/ Shutdown
  BY <1>3 DEF BootFails, Shutdown, Destructor
<1>4. CASE CreateListenSocket \/ BuildPollSet \/ Sigint \/ Terminated
           \/ UNCHANGED vars \/ \E p \in Pid : ScriptExits(p)
  BY <1>4
  DEF CreateListenSocket, BuildPollSet, Sigint, Terminated, vars, ScriptExits
<1>5. CASE EndDispatch \/ CleanConnectionInactive \/ Tick
  BY <1>5 DEF EndDispatch, CloseConnections, CleanConnectionInactive,
     TimedOutScripts, Clients, Tick
<1>6. CASE WaitpidReturns
  <2>1. waiting \in Fd /\ conn[waiting] # NULL
        /\ conn' = [conn EXCEPT ![waiting] = Queued(conn[waiting])]
    BY <1>6 DEF WaitpidReturns, FinishCgi, LoopInv, TypeInv, WaitsForScript
  <2>. QED  BY <2>1 DEF LoopInv, TypeInv, TypeOK
<1>7. CASE \E e \in pollFds : Dispatch(e) /\ ~AcceptNew(e)
  <2>1. PICK e \in pollFds : Dispatch(e) /\ ~AcceptNew(e)
    BY <1>7
  <2>2. CASE ClientHangup(e)
    BY <2>2 DEF ClientHangup
  <2>3. CASE ToReadEnds(e) \/ ToReadMore(e) \/ ToReadAnswers(e)
             \/ ToReadStartsScript(e) \/ ToReadScriptFails(e) \/ ToWrite(e)
    <3>1. IsClient(e.fd)
      BY <2>3 DEF ToReadEnds, ToReadMore, ToReadAnswers, ToReadStartsScript,
         ToReadScriptFails, ToWrite, Readable
    <3>2. conn[e.fd] # NULL
      BY <3>1 DEF IsClient
    <3>3. conn'[c] = conn[c]
      BY <2>3, <3>2 DEF ToReadEnds, ToReadMore, ToReadAnswers, ToReadStartsScript,
         ToReadScriptFails, ToWrite, LoopInv, TypeInv, TypeOK
    <3>. QED  BY <3>3
  <2>4. CASE OnCgiWritable(e) \/ OnCgiPrinted(e) \/ OnCgiEnds(e)
             \/ OnCgiEndsEarly(e)
    <3>1. conn[Owner(e)] # NULL
      BY <2>4 DEF OnCgiWritable, OnCgiPrinted, OnCgiEnds, OnCgiEndsEarly, PipeEvent
    <3>2. conn'[c] = conn[c]
      BY <2>4, <3>1 DEF OnCgiWritable, OnCgiPrinted, OnCgiEnds, OnCgiEndsEarly,
         FinishCgi, LoopInv, TypeInv, TypeOK
    <3>. QED  BY <3>2
  <2>. QED  BY <2>1, <2>2, <2>3, <2>4 DEF Dispatch
<1>. QED
  BY <1>2, <1>3, <1>4, <1>5, <1>6, <1>7 DEF Next, ServerStep

-----------------------------------------------------------------------------
(* One answer, never taken back, and time to send it.                       *)

\* No step queues a second answer, or leaves one unsent in a finished connection.
LEMMA SingleAnswerStep ==
    ASSUME LoopInv, TypeInv', SingleAnswer, [Next]_vars
    PROVE  SingleAnswer'
<1>. SUFFICES ASSUME NEW c \in Fd, conn'[c] # NULL
              PROVE  CASE conn'[c].state \in {"READING", "CGI"} ->
                            conn'[c].answers = 0
                       [] conn'[c].state = "WRITING" ->
                            conn'[c].answers = 1 /\ conn'[c].left > 0
                       [] OTHER -> conn'[c].answers <= 1
  BY DEF SingleAnswer, Clients
<1>1. CASE conn[c] = NULL
  <2>1. conn'[c].state = "READING" /\ conn'[c].answers = 0
    BY <1>1, StepAccepts DEF NewConnection
  <2>. QED  BY <2>1
<1>2. CASE conn[c] # NULL
  <2>1. ConnMove(conn[c], conn'[c])
    BY <1>2, StepMoves
  <2>2. conn[c].state \in {"READING", "CGI", "WRITING", "DONE"}
        /\ conn[c].answers \in Nat /\ conn[c].left \in Nat
    BY <1>2, LimitsAssumption DEF LoopInv, TypeInv, TypeOK, Conn
  <2>3. CASE conn[c].state \in {"READING", "CGI"}
    <3>1. conn[c].answers = 0
      BY <1>2, <2>3 DEF SingleAnswer, Clients
    <3>. QED
      BY <2>1, <2>3, <3>1, LimitsAssumption
      DEF ConnMove, Stays, Leaves, StartsScript, Answers, Sends
  <2>4. CASE conn[c].state = "WRITING"
    <3>1. conn[c].answers = 1 /\ conn[c].left > 0
      BY <1>2, <2>4 DEF SingleAnswer, Clients
    <3>. QED
      BY <2>1, <2>4, <3>1
      DEF ConnMove, Stays, Leaves, StartsScript, Answers, Sends
  <2>5. CASE conn[c].state = "DONE"
    <3>1. conn[c].answers <= 1
      BY <1>2, <2>5 DEF SingleAnswer, Clients
    <3>. QED
      BY <2>1, <2>5, <3>1
      DEF ConnMove, Stays, Leaves, StartsScript, Answers, Sends
  <2>. QED  BY <2>2, <2>3, <2>4, <2>5
<1>. QED  BY <1>1, <1>2

\* One response is queued for a client, whatever events of one round end its
\* script, and it is not finished while it has something left to send.
THEOREM OneAnswerEach == Spec => []SingleAnswer
<1>1. Init => SingleAnswer
  BY DEF Init, SingleAnswer, Clients
<1>2. SingleAnswer /\ LoopInv /\ LoopInv' /\ [Next]_vars => SingleAnswer'
  <2>1. LoopInv' => TypeInv'
    BY DEF LoopInv
  <2>. QED  BY <2>1, SingleAnswerStep
<1>. QED  BY <1>1, <1>2, LoopInvariant, PTL DEF Spec

\* What a client is being sent only shrinks, until the client is let go.
THEOREM AnswersAreFinal == Spec => AnswerIsFinal
<1> DEFINE A == \A c \in Clients :
                  conn[c].state = "WRITING" /\ conn'[c] # NULL =>
                    /\ conn'[c].state \in {"WRITING", "DONE"}
                    /\ conn'[c].left <= conn[c].left
                    /\ conn'[c].answers = conn[c].answers
<1>1. LoopInv /\ LoopInv' /\ [Next]_vars => [A]_vars
  <2>. SUFFICES ASSUME LoopInv, LoopInv', [Next]_vars, NEW c \in Clients,
                       conn[c].state = "WRITING", conn'[c] # NULL
                PROVE  /\ conn'[c].state \in {"WRITING", "DONE"}
                       /\ conn'[c].left <= conn[c].left
                       /\ conn'[c].answers = conn[c].answers
    OBVIOUS
  <2>1. c \in Fd /\ conn[c] # NULL /\ TypeInv'
    BY DEF Clients, LoopInv
  <2>2. conn[c].left \in Nat /\ conn'[c].left \in Nat
    BY <2>1, LimitsAssumption DEF LoopInv, TypeInv, TypeOK, Conn
  <2>3. ConnMove(conn[c], conn'[c])
    BY <2>1, StepMoves
  <2>. QED
    BY <2>2, <2>3 DEF ConnMove, Stays, Leaves, StartsScript, Answers, Sends
<1>. QED  BY <1>1, LoopInvariant, PTL DEF Spec, AnswerIsFinal

\* No step makes a client older than its script's silence, by more than a second.
LEMMA IdleStep ==
    ASSUME LoopInv, TypeInv', IdleWithinStall, [Next]_vars
    PROVE  IdleWithinStall'
<1>. SUFFICES ASSUME NEW c \in Fd, conn'[c] # NULL, cgi'[c] # NULL
              PROVE  conn'[c].idle <= cgi'[c].stall + 1
  BY DEF IdleWithinStall, Clients, Scripted
<1>1. conn[c] # NULL
  BY StepAccepts
<1>2. HandlerMove(c)
  BY <1>1, StepMoves
<1>3. conn'[c].idle \in Nat /\ cgi'[c].stall \in Nat /\ ConnectionTimeout \in Nat
      /\ conn[c].idle \in Nat /\ conn[c].idle <= ConnectionTimeout + 1
  BY <1>1, TimeoutAssumption DEF LoopInv, TypeInv, TypeOK, Conn, Handler
<1>4. CASE conn'[c].idle \in {0, 1}
  BY <1>3, <1>4
<1>5. CASE cgi[c] # NULL
  <2>1. cgi[c].stall \in Nat /\ conn[c].idle <= cgi[c].stall + 1
    BY <1>1, <1>5, TimeoutAssumption
    DEF LoopInv, TypeInv, TypeOK, Handler, IdleWithinStall, Clients, Scripted
  <2>. QED  BY <1>2, <1>3, <1>5, <2>1 DEF HandlerMove, Older
<1>. QED  BY <1>2, <1>4, <1>5 DEF HandlerMove

\* A client has been idle at most a second longer than its script has stalled,
\* however the second boundary falls between the two readings of the clock.
THEOREM StallIsSeenFirst == Spec => []IdleWithinStall
<1>1. Init => IdleWithinStall
  BY DEF Init, IdleWithinStall, Clients
<1>2. IdleWithinStall /\ LoopInv /\ LoopInv' /\ [Next]_vars => IdleWithinStall'
  <2>1. LoopInv' => TypeInv'
    BY DEF LoopInv
  <2>. QED  BY <2>1, IdleStep
<1>. QED  BY <1>1, <1>2, LoopInvariant, PTL DEF Spec

-----------------------------------------------------------------------------
(* The loop implements Exchange.                                            *)

Phase(k) == IF k = NULL THEN "absent" ELSE PhaseOf(k)
HelperOf(h) == IF h = NULL THEN NoPid ELSE h.pid

\* A connection has a phase, and the phase says whether a script runs for it.
LEMMA Phases ==
    ASSUME NEW k \in Conn \cup {NULL}
    PROVE  /\ Phase(k) \in {"absent", "asking", "scripted", "answering", "leaving"}
           /\ Phase(k) = "scripted" <=> (k # NULL /\ k.state = "CGI")
<1>1. k # NULL => k.state \in {"READING", "CGI", "WRITING", "DONE"}
  BY DEF Conn
<1>. QED  BY <1>1 DEF Phase, PhaseOf

\* A client's phase changes as Exchange allows.
LEMMA PhaseMoves ==
    ASSUME LoopInv, TypeInv', [Next]_vars, NEW c \in Fd,
           Phase(conn'[c]) # Phase(conn[c])
    PROVE  <<Phase(conn[c]), Phase(conn'[c])>> \in Abstract!Legal
<1>1. CASE conn'[c] = NULL
  <2>1. Phase(conn[c]) \in {"absent", "asking", "scripted", "answering", "leaving"}
    BY Phases DEF LoopInv, TypeInv, TypeOK
  <2>2. Phase(conn'[c]) = "absent"
    BY <1>1 DEF Phase
  <2>. QED  BY <2>1, <2>2 DEF Abstract!Legal
<1>2. CASE conn[c] = NULL /\ conn'[c] # NULL
  <2>1. conn'[c] = NewConnection
    BY <1>2, StepAccepts
  <2>. QED  BY <1>2, <2>1 DEF NewConnection, Phase, PhaseOf, Abstract!Legal
<1>3. CASE conn[c] # NULL /\ conn'[c] # NULL
  <2>1. ConnMove(conn[c], conn'[c])
    BY <1>3, StepMoves
  <2>2. \/ conn'[c].state = conn[c].state
        \/ conn[c].state \in {"READING", "WRITING"} /\ conn'[c].state = "DONE"
        \/ conn[c].state = "READING" /\ conn'[c].state = "CGI"
        \/ conn[c].state \in {"READING", "CGI"} /\ conn'[c].state = "WRITING"
    BY <2>1 DEF ConnMove, Stays, Leaves, StartsScript, Answers, Sends
  <2>3. conn[c].state \in {"READING", "CGI", "WRITING", "DONE"}
    BY <1>3 DEF LoopInv, TypeInv, TypeOK, Conn
  <2>. QED  BY <1>3, <2>2, <2>3 DEF Phase, PhaseOf, Abstract!Legal
<1>. QED  BY <1>1, <1>2, <1>3

\* Who is scripted has a helper, keeps it, and was given one nobody had.
LEMMA HelperMoves ==
    ASSUME LoopInv, ChildOwnership, LoopInv', ChildOwnership', [Next]_vars,
           NEW c \in Fd
    PROVE  /\ Phase(conn'[c]) = "scripted" <=> HelperOf(cgi'[c]) # NoPid
           /\ Phase(conn[c]) = "scripted" /\ Phase(conn'[c]) = "scripted" =>
                HelperOf(cgi'[c]) = HelperOf(cgi[c])
           /\ Phase(conn[c]) # "scripted" /\ Phase(conn'[c]) = "scripted" =>
                \A d \in Fd : HelperOf(cgi[d]) # HelperOf(cgi'[c])
<1>1. /\ conn[c] \in Conn \cup {NULL} /\ conn'[c] \in Conn \cup {NULL}
      /\ cgi[c] # NULL <=> (conn[c] # NULL /\ conn[c].state = "CGI")
      /\ cgi'[c] # NULL <=> (conn'[c] # NULL /\ conn'[c].state = "CGI")
  BY DEF LoopInv, TypeInv, TypeOK, NeverStranded
<1>2. /\ Phase(conn[c]) = "scripted" <=> cgi[c] # NULL
      /\ Phase(conn'[c]) = "scripted" <=> cgi'[c] # NULL
  BY <1>1, Phases
<1>3. cgi'[c] # NULL => cgi'[c].pid \in Pid
  BY DEF ChildOwnership, Scripted
<1>4. \A d \in Fd : cgi[d] # NULL => procs[cgi[d].pid] # "none"
  BY DEF ChildOwnership, Scripted
<1>5. CASE cgi'[c] = NULL
  BY <1>2, <1>5 DEF HelperOf
<1>6. CASE cgi'[c] # NULL
  <2>1. conn'[c] # NULL /\ conn'[c] # NewConnection /\ TypeInv'
    BY <1>1, <1>6 DEF NewConnection, LoopInv
  <2>2. conn[c] # NULL
    BY <1>6, <2>1, StepAccepts
  <2>3. HandlerMove(c)
    BY <2>1, <2>2, StepMoves
  <2>4. /\ cgi[c] # NULL => cgi'[c].pid = cgi[c].pid
        /\ cgi[c] = NULL => procs[cgi'[c].pid] = "none"
    BY <1>6, <2>3 DEF HandlerMove
  <2>. QED  BY <1>2, <1>3, <1>4, <1>6, <2>4, NoPidAssumption DEF HelperOf
<1>. QED  BY <1>5, <1>6

\* Until the destructor runs, every step serves.
LEMMA StepServes ==
    ASSUME LoopInv, ChildOwnership, LoopInv', ChildOwnership', [Next]_vars,
           pc # "down", pc' # "down"
    PROVE  Abstract!Serve
<1> DEFINE phase == [c \in Fd |-> Phase(conn[c])]
           phase1 == [c \in Fd |-> Phase(conn'[c])]
           helper == [c \in Fd |-> HelperOf(cgi[c])]
           helper1 == [c \in Fd |-> HelperOf(cgi'[c])]
<1>1. \A c \in Fd : /\ conn'[c] \in Conn \cup {NULL}
                    /\ HelperOf(cgi'[c]) \in Pid \cup {NoPid}
  BY DEF LoopInv, TypeInv, TypeOK, HelperOf, ChildOwnership, Scripted
<1>2. /\ phase1 \in [Fd -> {"absent", "asking", "scripted", "answering", "leaving"}]
      /\ helper1 \in [Fd -> Pid \cup {NoPid}]
  BY <1>1, Phases
<1>3. ASSUME NEW c \in Fd
      PROVE  /\ phase1[c] # phase[c] => <<phase[c], phase1[c]>> \in Abstract!Legal
             /\ phase1[c] = "scripted" <=> helper1[c] # NoPid
             /\ phase[c] = "scripted" /\ phase1[c] = "scripted" =>
                  helper1[c] = helper[c]
             /\ phase[c] # "scripted" /\ phase1[c] = "scripted" =>
                  \A d \in Fd : helper[d] # helper1[c]
  <2>1. TypeInv'
    BY DEF LoopInv
  <2>. QED  BY <2>1, PhaseMoves, HelperMoves
<1>. QED
  BY <1>2, <1>3
  DEF Abstract!Serve, Abstract!Moves, Abstract!Helps, Phase, HelperOf

\* Every step of the loop is one of Exchange, or changes nothing there.
LEMMA StepImplements ==
    ASSUME LoopInv, ChildOwnership, CleanShutdown, LoopInv', ChildOwnership',
           [Next]_vars
    PROVE  [Abstract!Next]_(Abstract!exchange)
<1>1. CASE BootFails \/ Shutdown
  <2>1. Abstract!Halt
    BY <1>1 DEF BootFails, Shutdown, Destructor, Abstract!Halt
  <2>. QED  BY <2>1 DEF Abstract!Next
<1>2. CASE UNCHANGED <<pc, conn, cgi>>
  BY <1>2 DEF Abstract!exchange, PhaseOf
<1>3. CASE Terminated \/ UNCHANGED vars \/ \E p \in Pid : ScriptExits(p)
  BY <1>2, <1>3 DEF Terminated, vars, ScriptExits
<1>4. CASE pc # "down" /\ pc' # "down"
  BY <1>4, StepServes DEF Abstract!Next
<1>5. CASE \E e \in pollFds : Dispatch(e)
  <2>1. pc = "dispatch" /\ pc' # "down"
    BY <1>5 DEF Dispatch, AcceptNew, ClientHangup, ToReadEnds, ToReadMore,
       ToReadAnswers, ToReadStartsScript, ToReadScriptFails, ToWrite,
       OnCgiWritable, OnCgiPrinted, OnCgiEnds, OnCgiEndsEarly, Readable, PipeEvent,
       Reach
  <2>. QED  BY <1>4, <2>1
<1>6. CASE CreateListenSocket \/ BuildPollSet \/ EndDispatch
           \/ CleanConnectionInactive \/ WaitpidReturns \/ Tick \/ Sigint
  <2>1. pc # "down" /\ pc' # "down"
    BY <1>6 DEF CreateListenSocket, BuildPollSet, EndDispatch,
       CleanConnectionInactive, WaitpidReturns, Tick, Sigint
  <2>. QED  BY <1>4, <2>1
<1>. QED  BY <1>1, <1>3, <1>5, <1>6 DEF Next, ServerStep

\* The loop of poll(), with its tables, pipes and child processes, is a server
\* that answers each client once and runs a script for one waiting client.
THEOREM LoopImplementsExchange == Spec => ImplementsExchange
<1>1. Init => Abstract!Init
  BY DEF Init, Abstract!Init
<1>2. LoopInv /\ ChildOwnership /\ CleanShutdown /\ (LoopInv /\ ChildOwnership)'
        /\ [Next]_vars => [Abstract!Next]_(Abstract!exchange)
  BY StepImplements
<1>. QED
  BY <1>1, <1>2, ChildInvariant, ShutdownIsClean, PTL
  DEF Spec, ImplementsExchange, Abstract!Spec

=============================================================================
