------------------------ MODULE EventLoopInvariants ------------------------
(***************************************************************************)
(* Type correctness and the safety invariants of EventLoop, for every      *)
(* number of descriptors, clients and scripts and every timeout.           *)
(* FdOwnership, NeverStranded and EventsReachTheirOwner need each other:   *)
(* who owns a number decides whom an event reaches, and whom it reaches    *)
(* decides what is closed.                                                 *)
(***************************************************************************)
EXTENDS EventLoop, TLAPS

-----------------------------------------------------------------------------
(* What the methods of Connection and CgiHandler do to their object.        *)

\* A Connection stays one, whatever is called on it.
LEMMA ConnTypes ==
    ASSUME NEW k \in Conn
    PROVE  /\ NewConnection \in Conn
           /\ Active(k) \in Conn /\ ActiveFirst(k) \subseteq Conn
           /\ Done(k) \in Conn /\ InScript(k) \in Conn /\ Queued(k) \in Conn
           /\ \A n \in 1 .. k.left : Sent(k, n) \in Conn
           /\ [k EXCEPT !.idle = Older(@, ConnectionTimeout)] \in Conn
<1>1. /\ k.state \in {"READING", "CGI", "WRITING", "DONE"}
      /\ k.idle \in 0 .. (ConnectionTimeout + 1)
      /\ k.left \in 0 .. ResponseLen /\ k.answers \in Nat
  BY DEF Conn
<1>2. NewConnection \in Conn
  BY LimitsAssumption, TimeoutAssumption DEF Conn, NewConnection
<1>3. Active(k) \in Conn
  BY TimeoutAssumption DEF Conn, Active
<1>4. Done(k) \in Conn /\ InScript(k) \in Conn
  BY DEF Conn, Done, InScript
<1>5. ActiveFirst(k) \subseteq Conn
  <2>1. 0 \in 0 .. (ConnectionTimeout + 1) /\ 1 \in 0 .. (ConnectionTimeout + 1)
    BY TimeoutAssumption
  <2>. QED  BY <2>1 DEF Conn, ActiveFirst
<1>6. Queued(k) \in Conn
  <2>1. ResponseLen \in 0 .. ResponseLen /\ k.answers + 1 \in Nat
    BY <1>1, LimitsAssumption
  <2>. QED  BY <2>1 DEF Conn, Queued
<1>8. ASSUME NEW n \in 1 .. k.left PROVE Sent(k, n) \in Conn
  <2>1. Active(k).left = k.left /\ Active(k).state = k.state
    BY DEF Conn, Active
  <2>2. k.left - n \in 0 .. ResponseLen
    BY <1>1, LimitsAssumption
  <2>. QED  BY <1>1, <1>3, <2>1, <2>2 DEF Conn, Sent
<1>9. [k EXCEPT !.idle = Older(@, ConnectionTimeout)] \in Conn
  <2>1. Older(k.idle, ConnectionTimeout) \in 0 .. (ConnectionTimeout + 1)
    BY <1>1, TimeoutAssumption DEF Older
  <2>. QED  BY <2>1 DEF Conn
<1>. QED  BY <1>2, <1>3, <1>4, <1>5, <1>6, <1>8, <1>9

\* A CgiHandler stays one, whatever its pipes give or take.
LEMMA HandlerTypes ==
    ASSUME NEW h \in Handler
    PROVE  /\ \A n \in 1 .. h.body : Fed(h, n) \in Handler
           /\ [h EXCEPT !.in = NoFd] \in Handler
           /\ [h EXCEPT !.out = NoFd] \in Handler
           /\ [h EXCEPT !.stall = 0] \in Handler
           /\ [h EXCEPT !.stall = Older(@, ConnectionTimeout)] \in Handler
<1>1. /\ h.in \in Fd \cup {NoFd} /\ h.out \in Fd \cup {NoFd}
      /\ h.body \in 0 .. MaxBody /\ h.stall \in 0 .. (ConnectionTimeout + 1)
  BY DEF Handler
<1>2. 0 \in 0 .. (ConnectionTimeout + 1)
  BY TimeoutAssumption
<1>3. ASSUME NEW n \in 1 .. h.body PROVE Fed(h, n) \in Handler
  <2>1. h.body - n \in 0 .. MaxBody
    BY <1>1, LimitsAssumption
  <2>. QED  BY <1>1, <1>2, <2>1 DEF Handler, Fed
<1>4. [h EXCEPT !.in = NoFd] \in Handler /\ [h EXCEPT !.out = NoFd] \in Handler
  BY DEF Handler
<1>5. [h EXCEPT !.stall = 0] \in Handler
  BY <1>2 DEF Handler
<1>6. [h EXCEPT !.stall = Older(@, ConnectionTimeout)] \in Handler
  <2>1. Older(h.stall, ConnectionTimeout) \in 0 .. (ConnectionTimeout + 1)
    BY <1>1, TimeoutAssumption DEF Older
  <2>. QED  BY <2>1 DEF Handler
<1>. QED  BY <1>3, <1>4, <1>5, <1>6

-----------------------------------------------------------------------------
(* Types.  waitpid() is only entered for a client that is there and has a  *)
(* script, which is what finishCgi() needs when it comes back.              *)

WaitsForScript ==
    pc = "waitpid" =>
      waiting \in Fd /\ conn[waiting] # NULL /\ cgi[waiting] # NULL

TypeInv == TypeOK /\ WaitsForScript

\* The server starts with all types right.
LEMMA TypeInit == Init => TypeInv
<1>. SUFFICES ASSUME Init PROVE TypeInv
  OBVIOUS
<1>1. TypeOK
  BY DEF Init, TypeOK
<1>2. WaitsForScript
  BY DEF Init, WaitsForScript
<1>. QED  BY <1>1, <1>2 DEF TypeInv

\* Deleting handlers and connections leaves the tables well typed.
LEMMA ReleaseTypes ==
    ASSUME TypeOK, NEW S \in SUBSET Fd
    PROVE  ReapedOf(S) \in [Pid -> {"none", "running", "zombie"}]
           /\ (CloseConnections(S) =>
                 /\ conn' \in [Fd -> Conn \cup {NULL}]
                 /\ cgi' \in [Fd -> Handler \cup {NULL}]
                 /\ open' \in SUBSET Fd
                 /\ procs' \in [Pid -> {"none", "running", "zombie"}])
<1>1. ReapedOf(S) \in [Pid -> {"none", "running", "zombie"}]
  BY DEF TypeOK, ReapedOf
<1>. QED  BY <1>1 DEF TypeOK, CloseConnections

\* Server::~Server() keeps the types,
LEMMA DestructorTypes ==
    ASSUME TypeInv, Destructor
    PROVE  TypeInv'
<1>1. ReapedOf(Clients) \in [Pid -> {"none", "running", "zombie"}]
  BY ReleaseTypes DEF TypeInv, Clients
<1>2. TypeOK'
  BY <1>1 DEF TypeInv, TypeOK, Destructor, NoFd
<1>3. WaitsForScript'
  BY DEF Destructor, WaitsForScript
<1>. QED  BY <1>2, <1>3 DEF TypeInv

\* buildPollSet() does,
LEMMA BuildPollSetTypes ==
    ASSUME TypeInv, BuildPollSet
    PROVE  TypeInv'
<1>1. pollFds' \in SUBSET Entry
  <2>1. \A k \in Conn : ClientEvents(k) \in {"IN", "OUT", "NONE"}
    BY DEF ClientEvents
  <2>2. \A c \in Clients : c \in Fd /\ conn[c] \in Conn
    BY DEF TypeInv, TypeOK, Clients
  <2>3. \A c \in Scripted : cgi[c] \in Handler
    BY DEF TypeInv, TypeOK, Scripted
  <2>4. \A h \in Handler : h.in \in Fd \cup {NoFd} /\ h.out \in Fd \cup {NoFd}
    BY DEF Handler
  <2>. QED  BY <2>1, <2>2, <2>3, <2>4 DEF TypeInv, TypeOK, BuildPollSet, Entry
<1>2. cgiFds' \in [Fd -> Fd \cup {NoFd}]
  <2>1. \A f \in Fd : (\E c \in Clients : f \in Pipes(c))
          => (CHOOSE c \in Clients : f \in Pipes(c)) \in Fd
    BY DEF Clients
  <2>. QED  BY <2>1 DEF BuildPollSet, PipeOwners
<1>3. TypeOK'
  BY <1>1, <1>2 DEF TypeInv, TypeOK, BuildPollSet
<1>4. WaitsForScript'
  BY DEF BuildPollSet, WaitsForScript
<1>. QED  BY <1>3, <1>4 DEF TypeInv

\* What dispatch() reads of an entry.
LEMMA EntryTypes ==
    ASSUME TypeInv, NEW e \in pollFds, Reach(e)
    PROVE  /\ e.fd \in Fd
           /\ pollFds' \in SUBSET Entry
           /\ IsClient(e.fd) => conn[e.fd] \in Conn
           /\ IsPipe(e.fd) => Owner(e) \in Fd
           /\ IsPipe(e.fd) /\ conn[Owner(e)] # NULL => conn[Owner(e)] \in Conn
           /\ IsPipe(e.fd) /\ cgi[Owner(e)] # NULL => cgi[Owner(e)] \in Handler
<1>1. e \in Entry
  BY DEF TypeInv, TypeOK
<1>2. e.fd \in Fd
  BY <1>1 DEF Entry
<1>3. IsPipe(e.fd) => Owner(e) \in Fd
  BY <1>2 DEF TypeInv, TypeOK, IsPipe, Owner
<1>. QED  BY <1>2, <1>3 DEF TypeInv, TypeOK, Reach, IsClient

\* noting a connection as finished does,
LEMMA NoteDoneTypes ==
    ASSUME TypeInv, NEW c \in Fd, NoteDone(c)
    PROVE  finished' \in SUBSET Fd
BY DEF TypeInv, TypeOK, NoteDone

\* finishCgi() does,
LEMMA FinishTypes ==
    ASSUME TypeInv, NEW c \in Fd, NEW k \in Conn, cgi[c] # NULL, FinishCgi(c, k)
    PROVE  /\ conn' \in [Fd -> Conn \cup {NULL}]
           /\ cgi' \in [Fd -> Handler \cup {NULL}]
           /\ open' \in SUBSET Fd
           /\ procs' \in [Pid -> {"none", "running", "zombie"}]
           /\ finished' \in SUBSET Fd
<1>2. Queued(k) \in Conn
  BY ConnTypes
<1>3. finished' \in SUBSET Fd
  BY NoteDoneTypes DEF FinishCgi
<1>. QED  BY <1>2, <1>3 DEF TypeInv, TypeOK, FinishCgi, Deleted

\* Handlers of client sockets.
LEMMA ClientEventTypes ==
    ASSUME TypeInv, NEW e \in pollFds,
           \/ AcceptNew(e) \/ ClientHangup(e) \/ ToReadEnds(e) \/ ToReadMore(e)
           \/ ToReadAnswers(e) \/ ToReadStartsScript(e) \/ ToReadScriptFails(e)
           \/ ToWrite(e)
    PROVE  TypeInv'
<1>1. Reach(e)
  BY DEF AcceptNew, ClientHangup, Readable, ToReadEnds, ToReadMore, ToReadAnswers,
         ToReadStartsScript, ToReadScriptFails, ToWrite
<1>2. e.fd \in Fd /\ pollFds' \in SUBSET Entry
  BY <1>1, EntryTypes
<1>3. IsClient(e.fd) => conn[e.fd] \in Conn
  BY <1>1, EntryTypes
<1>4. pc = "dispatch" /\ pc' = pc
  BY DEF Reach, AcceptNew, ClientHangup, Readable, ToReadEnds, ToReadMore,
         ToReadAnswers, ToReadStartsScript, ToReadScriptFails, ToWrite
<1>5. WaitsForScript'
  BY <1>4 DEF WaitsForScript
<1>6. TypeOK'
  <2>1. CASE AcceptNew(e)
    <3>1. PICK f \in Fd :
            /\ open' = open \cup {f}
            /\ conn' = [conn EXCEPT ![f] = NewConnection]
            /\ cgi' = [cgi EXCEPT ![f] = NULL]
      BY <2>1 DEF AcceptNew
    <3>2. NewConnection \in Conn
      BY LimitsAssumption, TimeoutAssumption DEF Conn, NewConnection
    <3>. QED  BY <1>2, <2>1, <3>1, <3>2 DEF AcceptNew, TypeInv, TypeOK
  <2>2. CASE ClientHangup(e)
    BY <1>2, <2>2 DEF ClientHangup, TypeInv, TypeOK
  <2>3. CASE ToReadEnds(e)
    <3>1. Done(conn[e.fd]) \in Conn
      BY <1>3, <2>3, ConnTypes DEF ToReadEnds, Readable
    <3>2. finished' \in SUBSET Fd
      BY <1>2, <2>3, NoteDoneTypes DEF ToReadEnds
    <3>. QED  BY <1>2, <2>3, <3>1, <3>2 DEF ToReadEnds, TypeInv, TypeOK
  <2>4. CASE ToReadMore(e)
    <3>1. Active(conn[e.fd]) \in Conn
      BY <1>3, <2>4, ConnTypes DEF ToReadMore, Readable
    <3>2. finished' \in SUBSET Fd
      BY <1>2, <2>4, NoteDoneTypes DEF ToReadMore
    <3>. QED  BY <1>2, <2>4, <3>1, <3>2 DEF ToReadMore, TypeInv, TypeOK
  <2>5. CASE ToReadAnswers(e)
    <3>1. Active(conn[e.fd]) \in Conn
      BY <1>3, <2>5, ConnTypes DEF ToReadAnswers, Readable
    <3>2. Queued(Active(conn[e.fd])) \in Conn
      BY <3>1, ConnTypes
    <3>3. finished' \in SUBSET Fd
      BY <1>2, <2>5, NoteDoneTypes DEF ToReadAnswers
    <3>. QED  BY <1>2, <2>5, <3>2, <3>3 DEF ToReadAnswers, TypeInv, TypeOK
  <2>6. CASE ToReadStartsScript(e)
    <3>1. ActiveFirst(conn[e.fd]) \subseteq Conn
      BY <1>3, <2>6, ConnTypes DEF ToReadStartsScript, Readable
    <3>2. PICK k \in ActiveFirst(conn[e.fd]) : conn' = [conn EXCEPT ![e.fd] = InScript(k)]
      BY <2>6 DEF ToReadStartsScript
    <3>6. InScript(k) \in Conn
      BY <3>1, <3>2, ConnTypes
    <3>3. PICK p \in Pid, b \in 0 .. MaxBody, i0 \in Fd, i1 \in Fd, o0 \in Fd,
               o1 \in Fd : Started(e.fd, p, b, i0, i1, o0, o1)
      BY <2>6 DEF ToReadStartsScript
    <3>4. [pid |-> p, in |-> IF b = 0 THEN NoFd ELSE i1, out |-> o0, body |-> b,
           stall |-> 0] \in Handler
      BY LimitsAssumption, TimeoutAssumption DEF Handler
    <3>5. finished' \in SUBSET Fd
      BY <1>2, <2>6, NoteDoneTypes DEF ToReadStartsScript
    <3>. QED
      BY <1>2, <2>6, <3>2, <3>3, <3>4, <3>5, <3>6
      DEF ToReadStartsScript, Started, TypeInv, TypeOK
  <2>7. CASE ToReadScriptFails(e)
    <3>1. Active(conn[e.fd]) \in Conn
      BY <1>3, <2>7, ConnTypes DEF ToReadScriptFails, Readable
    <3>2. Queued(Active(conn[e.fd])) \in Conn
      BY <3>1, ConnTypes
    <3>3. open' \in SUBSET Fd
      BY <2>7 DEF ToReadScriptFails, SecondPipeFails, ForkFails, FcntlFails,
                  TypeInv, TypeOK
    <3>4. finished' \in SUBSET Fd
      BY <1>2, <2>7, NoteDoneTypes DEF ToReadScriptFails
    <3>. QED
      BY <1>2, <2>7, <3>2, <3>3, <3>4 DEF ToReadScriptFails, TypeInv, TypeOK
  <2>8. CASE ToWrite(e)
    <3>1. Done(conn[e.fd]) \in Conn
          /\ \A n \in 1 .. conn[e.fd].left : Sent(conn[e.fd], n) \in Conn
      BY <1>3, <2>8, ConnTypes DEF ToWrite
    <3>2. conn' \in [Fd -> Conn \cup {NULL}]
      BY <2>8, <3>1 DEF ToWrite, TypeInv, TypeOK
    <3>3. finished' \in SUBSET Fd
      BY <1>2, <2>8, NoteDoneTypes DEF ToWrite
    <3>. QED  BY <1>2, <2>8, <3>2, <3>3 DEF ToWrite, TypeInv, TypeOK
  <2>. QED  BY <2>1, <2>2, <2>3, <2>4, <2>5, <2>6, <2>7, <2>8
<1>. QED  BY <1>5, <1>6 DEF TypeInv

\* Handlers of a script's pipes.
LEMMA PipeEventTypes ==
    ASSUME TypeInv, NEW e \in pollFds,
           OnCgiWritable(e) \/ OnCgiPrinted(e) \/ OnCgiEnds(e) \/ OnCgiEndsEarly(e)
    PROVE  TypeInv'
<1> DEFINE c == Owner(e)
<1>1. PipeEvent(e) /\ Reach(e)
  BY DEF OnCgiWritable, OnCgiPrinted, OnCgiEnds, OnCgiEndsEarly, PipeEvent
<1>2. pollFds' \in SUBSET Entry
  BY <1>1, EntryTypes
<1>3. c \in Fd /\ conn[c] \in Conn /\ cgi[c] \in Handler
      /\ conn[c] # NULL /\ cgi[c] # NULL
  BY <1>1, EntryTypes DEF PipeEvent
<1>4. Active(conn[c]) \in Conn /\ ActiveFirst(conn[c]) \subseteq Conn
  BY <1>3, ConnTypes
<1>5. pc = "dispatch"
  BY <1>1 DEF Reach
<1> HIDE DEF c
<1>6. CASE OnCgiWritable(e)
  <2>1. cgi' \in [Fd -> Handler \cup {NULL}]
    <3>1. [cgi[c] EXCEPT !.in = NoFd] \in Handler
          /\ \A n \in 1 .. cgi[c].body : Fed(cgi[c], n) \in Handler
      BY <1>3, HandlerTypes
    <3>. QED  BY <1>6, <3>1 DEF c, OnCgiWritable, TypeInv, TypeOK
  <2>2. conn' \in [Fd -> Conn \cup {NULL}] /\ open' \in SUBSET Fd
    BY <1>4, <1>6 DEF c, OnCgiWritable, TypeInv, TypeOK
  <2>3. finished' \in SUBSET Fd
    BY <1>3, <1>6, NoteDoneTypes DEF c, OnCgiWritable
  <2>. QED
    BY <1>2, <1>5, <1>6, <2>1, <2>2, <2>3
    DEF OnCgiWritable, TypeInv, TypeOK, WaitsForScript
<1>7. CASE OnCgiPrinted(e)
  <2>1. [cgi[c] EXCEPT !.stall = 0] \in Handler
    BY <1>3, <1>7, HandlerTypes DEF c, OnCgiPrinted
  <2>2. cgi' = [cgi EXCEPT ![c] = [cgi[c] EXCEPT !.stall = 0]]
    BY <1>3, <1>7 DEF c, OnCgiPrinted, TypeInv, TypeOK, Handler
  <2>3. finished' \in SUBSET Fd
    BY <1>3, <1>7, NoteDoneTypes DEF c, OnCgiPrinted
  <2>4. cgi' \in [Fd -> Handler \cup {NULL}] /\ conn' \in [Fd -> Conn \cup {NULL}]
    <3>1. \E k \in ActiveFirst(conn[c]) : conn' = [conn EXCEPT ![c] = k]
      BY <1>7 DEF c, OnCgiPrinted
    <3>2. conn \in [Fd -> Conn \cup {NULL}] /\ cgi \in [Fd -> Handler \cup {NULL}]
      BY DEF TypeInv, TypeOK
    <3>3. conn' \in [Fd -> Conn \cup {NULL}]
      BY <1>4, <3>1, <3>2
    <3>4. cgi' \in [Fd -> Handler \cup {NULL}]
      BY <2>1, <2>2, <3>2
    <3>. QED  BY <3>3, <3>4
  <2>5. WaitsForScript'
    BY <1>5, <1>7 DEF OnCgiPrinted, WaitsForScript
  <2>. QED
    BY <1>2, <1>7, <2>3, <2>4, <2>5 DEF OnCgiPrinted, TypeInv, TypeOK
<1>8. CASE OnCgiEnds(e)
  <2>1. FinishCgi(c, Active(conn[c])) /\ UNCHANGED <<pc, stop, listenFds, cgiFds, waiting>>
    BY <1>8 DEF c, OnCgiEnds
  <2>2. /\ conn' \in [Fd -> Conn \cup {NULL}] /\ cgi' \in [Fd -> Handler \cup {NULL}]
        /\ open' \in SUBSET Fd /\ finished' \in SUBSET Fd
        /\ procs' \in [Pid -> {"none", "running", "zombie"}]
    BY <1>3, <1>4, <2>1, FinishTypes
  <2>. QED  BY <1>2, <1>5, <2>1, <2>2 DEF TypeInv, TypeOK, WaitsForScript
<1>9. CASE OnCgiEndsEarly(e)
  <2>1. [cgi[c] EXCEPT !.out = NoFd] \in Handler
    BY <1>3, HandlerTypes
  <2>2. cgi' = [cgi EXCEPT ![c] = [cgi[c] EXCEPT !.out = NoFd]]
    BY <1>3, <1>9 DEF c, OnCgiEndsEarly, TypeInv, TypeOK
  <2>3. conn' = [conn EXCEPT ![c] = Active(conn[c])] /\ waiting' = c
    BY <1>3, <1>9 DEF c, OnCgiEndsEarly, TypeInv, TypeOK
  <2>4. TypeOK'
    BY <1>2, <1>3, <1>4, <1>9, <2>1, <2>2, <2>3
    DEF OnCgiEndsEarly, TypeInv, TypeOK
  <2>5. WaitsForScript'
    BY <1>3, <1>4, <2>1, <2>2, <2>3, NullAssumption
    DEF TypeInv, TypeOK, WaitsForScript
  <2>. QED  BY <2>4, <2>5 DEF TypeInv
<1>. QED  BY <1>6, <1>7, <1>8, <1>9

\* closing the finished connections does,
LEMMA CleanTypes ==
    ASSUME TypeInv, CleanConnectionInactive
    PROVE  TypeInv'
<1>1. \A c \in TimedOutScripts : c \in Fd /\ conn[c] \in Conn
  BY DEF TypeInv, TypeOK, TimedOutScripts, Clients
<1>2. \A c \in TimedOutScripts : Queued(conn[c]) \in Conn
  BY <1>1, ConnTypes
<1>3. conn' \in [Fd -> Conn \cup {NULL}]
  <2>1. ASSUME NEW c \in Fd
        PROVE  (CASE c \in TimedOutScripts -> Queued(conn[c])
                  [] c \in StaleClients -> NULL
                  [] OTHER -> conn[c]) \in Conn \cup {NULL}
    BY <1>2 DEF TypeInv, TypeOK, TimedOutScripts, StaleClients
  <2>. QED  BY <2>1 DEF CleanConnectionInactive
<1>4. procs' \in [Pid -> {"none", "running", "zombie"}]
  <2>1. TimedOutScripts \in SUBSET Fd
    BY <1>1
  <2>. QED  BY <2>1, ReleaseTypes DEF TypeInv, CleanConnectionInactive
<1>5. TypeOK'
  BY <1>3, <1>4 DEF TypeInv, TypeOK, CleanConnectionInactive
<1>6. WaitsForScript'
  BY DEF CleanConnectionInactive, WaitsForScript
<1>. QED  BY <1>5, <1>6 DEF TypeInv

\* a second that passes does,
LEMMA TickTypes ==
    ASSUME TypeInv, Tick
    PROVE  TypeInv'
<1>1. ASSUME NEW c \in Fd, conn[c] # NULL
      PROVE  [conn[c] EXCEPT !.idle = Older(@, ConnectionTimeout)] \in Conn
  <2>1. conn[c] \in Conn
    BY <1>1 DEF TypeInv, TypeOK
  <2>. QED  BY <2>1, ConnTypes
<1>2. ASSUME NEW c \in Fd, cgi[c] # NULL
      PROVE  [cgi[c] EXCEPT !.stall = Older(@, ConnectionTimeout)] \in Handler
  <2>1. cgi[c] \in Handler
    BY <1>2 DEF TypeInv, TypeOK
  <2>. QED  BY <2>1, HandlerTypes
<1>3. TypeOK'
  BY <1>1, <1>2 DEF TypeInv, TypeOK, Tick
<1>4. \A c \in Fd : (conn[c] # NULL => conn'[c] # NULL)
                    /\ (cgi[c] # NULL => cgi'[c] # NULL)
  BY <1>1, <1>2, NullAssumption DEF Tick
<1>5. WaitsForScript'
  BY <1>4 DEF TypeInv, WaitsForScript, Tick
<1>. QED  BY <1>3, <1>5 DEF TypeInv

\* and so does every step.
LEMMA TypeStep == TypeInv /\ [Next]_vars => TypeInv'
<1>. SUFFICES ASSUME TypeInv, [Next]_vars PROVE TypeInv'
  OBVIOUS
<1>1. CASE CreateListenSocket
  BY <1>1 DEF CreateListenSocket, TypeInv, TypeOK, WaitsForScript
<1>2. CASE BootFails \/ Shutdown
  BY <1>2, DestructorTypes DEF BootFails, Shutdown
<1>3. CASE BuildPollSet
  BY <1>3, BuildPollSetTypes
<1>4. CASE EndDispatch
  <2>1. finished \in SUBSET Fd
    BY DEF TypeInv, TypeOK
  <2>2. /\ conn' \in [Fd -> Conn \cup {NULL}] /\ cgi' \in [Fd -> Handler \cup {NULL}]
        /\ open' \in SUBSET Fd
        /\ procs' \in [Pid -> {"none", "running", "zombie"}]
    BY <1>4, <2>1, ReleaseTypes DEF TypeInv, EndDispatch
  <2>. QED  BY <1>4, <2>2 DEF EndDispatch, TypeInv, TypeOK, WaitsForScript
<1>5. CASE CleanConnectionInactive
  BY <1>5, CleanTypes
<1>6. CASE \E e \in pollFds : Dispatch(e)
  BY <1>6, ClientEventTypes, PipeEventTypes DEF Dispatch
<1>7. CASE WaitpidReturns
  <2>1. waiting \in Fd /\ conn[waiting] \in Conn /\ cgi[waiting] # NULL
    BY <1>7 DEF WaitpidReturns, TypeInv, TypeOK, WaitsForScript
  <2>2. /\ conn' \in [Fd -> Conn \cup {NULL}] /\ cgi' \in [Fd -> Handler \cup {NULL}]
        /\ open' \in SUBSET Fd /\ finished' \in SUBSET Fd
        /\ procs' \in [Pid -> {"none", "running", "zombie"}]
    BY <1>7, <2>1, FinishTypes DEF WaitpidReturns
  <2>. QED  BY <1>7, <2>2 DEF WaitpidReturns, TypeInv, TypeOK, WaitsForScript
<1>8. CASE Tick
  BY <1>8, TickTypes
<1>9. CASE \E p \in Pid : ScriptExits(p)
  BY <1>9 DEF ScriptExits, TypeInv, TypeOK, WaitsForScript
<1>10. CASE Sigint
  BY <1>10 DEF Sigint, TypeInv, TypeOK, WaitsForScript
<1>11. CASE Terminated \/ UNCHANGED vars
  BY <1>11 DEF Terminated, vars, TypeInv, TypeOK, WaitsForScript
<1>. QED
  BY <1>1, <1>2, <1>3, <1>4, <1>5, <1>6, <1>7, <1>8, <1>9, <1>10, <1>11
  DEF Next, ServerStep

\* Every table, timer, counter and descriptor of the server keeps its type in
\* every run: the code never uses a Connection or a CgiHandler that is not there.
THEOREM TypeCorrect == Spec => []TypeOK
<1>1. TypeInv => TypeOK
  BY DEF TypeInv
<1>. QED  BY TypeInit, TypeStep, <1>1, PTL DEF Spec

-----------------------------------------------------------------------------
(* Who owns what.                                                          *)

\* What dispatch() relies on besides: the entries ahead of it are those of the
\* round, only connected clients are closed at its end, and a client whose pipes
\* were polled reads no request, so it cannot start a second script.
AheadOfDispatch(x) ==
    /\ x.role = "client" => x.fd # waiting
    /\ x.role = "stdout" => x.events = "IN"
    /\ x.role \in {"stdout", "stdin"} => conn[x.owner].state # "READING"
RoundInv ==
    /\ finished \subseteq Clients
    /\ pc \in {"dispatch", "waitpid"} => \A x \in pollFds : AheadOfDispatch(x)

LoopInv == /\ TypeInv /\ FdOwnership /\ NeverStranded
           /\ EventsReachTheirOwner /\ RoundInv

\* No connection and no handler is NULL.
LEMMA NullTypes == NULL \notin Conn /\ NULL \notin Handler
BY NullAssumption

-----------------------------------------------------------------------------
(* Descriptors.                                                            *)

\* One client exchanges the pipes it had for fresh ones, or for none.
LEMMA FdStep ==
    ASSUME TypeOK, TypeOK', FdOwnership, NEW c \in Fd,
           listenFds' = listenFds,
           \A d \in Fd \ {c} : conn'[d] = conn[d] /\ cgi'[d] = cgi[d],
           conn[c] # NULL, conn'[c] # NULL,
           Pipes(c)' \cap (open \ Pipes(c)) = {},
           open' = (open \ Pipes(c)) \cup Pipes(c)',
           cgi'[c] # NULL => cgi'[c].in = NoFd \/ cgi'[c].in # cgi'[c].out
    PROVE  FdOwnership'
<1>1. Clients' = Clients
  BY DEF Clients
<1>2. \A d \in Fd \ {c} : Pipes(d)' = Pipes(d)
  BY DEF Pipes
<1>3. open' = listenFds' \cup Clients' \cup UNION {Pipes(d)' : d \in Fd}
  <2>1. \A d \in Fd \ {c} : Pipes(d) \cap Pipes(c) = {}
    BY DEF FdOwnership
  <2>2. (listenFds \cup Clients) \cap Pipes(c) = {}
    BY DEF FdOwnership
  <2>3. open = listenFds \cup Clients \cup UNION {Pipes(d) : d \in Fd}
    BY DEF FdOwnership
  <2>. QED  BY <1>1, <1>2, <2>1, <2>2, <2>3
<1>4. ASSUME NEW d \in Fd
      PROVE  /\ Pipes(d)' \cap (listenFds \cup Clients)' = {}
             /\ cgi'[d] # NULL => cgi'[d].in = NoFd \/ cgi'[d].in # cgi'[d].out
  <2>1. CASE d = c
    <3>1. (listenFds \cup Clients) \cap Pipes(c) = {}
          /\ listenFds \cup Clients \subseteq open
      BY DEF FdOwnership
    <3>. QED  BY <1>1, <2>1, <3>1
  <2>2. CASE d # c
    BY <1>1, <1>2, <2>2 DEF FdOwnership
  <2>. QED  BY <2>1, <2>2
<1>5. ASSUME NEW d \in Fd, NEW x \in Fd \ {d}
      PROVE  Pipes(d)' \cap Pipes(x)' = {}
  <2>1. ASSUME NEW y \in Fd \ {c} PROVE Pipes(c)' \cap Pipes(y)' = {}
    <3>1. Pipes(y) \subseteq open /\ Pipes(y) \cap Pipes(c) = {}
      BY DEF FdOwnership
    <3>. QED  BY <1>2, <3>1
  <2>2. CASE d # c /\ x # c
    BY <1>2, <2>2 DEF FdOwnership
  <2>. QED  BY <2>1, <2>2
<1>6. (listenFds \cap Clients)' = {}
  BY <1>1 DEF FdOwnership
<1>. QED  BY <1>3, <1>4, <1>5, <1>6 DEF FdOwnership

\* Clients in S leave, with their pipes, and the scripts of T end.
LEMMA FdRelease ==
    ASSUME TypeOK, TypeOK', FdOwnership, NEW S \in SUBSET Clients,
           NEW T \in SUBSET Fd,
           listenFds' = listenFds,
           \A d \in Fd : conn'[d] = NULL <=> (d \in S \/ conn[d] = NULL),
           \A d \in Fd : cgi'[d] = IF d \in T THEN NULL ELSE cgi[d],
           open' = open \ (S \cup UNION {Pipes(d) : d \in T})
    PROVE  FdOwnership'
<1>1. Clients' = Clients \ S
  BY DEF Clients
<1>2. \A d \in Fd : Pipes(d)' = IF d \in T THEN {} ELSE Pipes(d)
  BY DEF Pipes
<1>3. /\ open = listenFds \cup Clients \cup UNION {Pipes(d) : d \in Fd}
      /\ listenFds \cap Clients = {}
      /\ \A d \in Fd : Pipes(d) \cap (listenFds \cup Clients) = {}
      /\ \A d \in Fd : \A x \in Fd \ {d} : Pipes(d) \cap Pipes(x) = {}
  BY DEF FdOwnership
<1>4. open' = listenFds' \cup Clients' \cup UNION {Pipes(d)' : d \in Fd}
  BY <1>1, <1>2, <1>3
<1>5. (listenFds \cap Clients)' = {}
  BY <1>1, <1>3
<1>6. ASSUME NEW d \in Fd
      PROVE  /\ Pipes(d)' \cap (listenFds \cup Clients)' = {}
             /\ cgi'[d] # NULL => cgi'[d].in = NoFd \/ cgi'[d].in # cgi'[d].out
             /\ \A x \in Fd \ {d} : Pipes(d)' \cap Pipes(x)' = {}
  BY <1>1, <1>2, <1>3 DEF FdOwnership
<1>. QED  BY <1>4, <1>5, <1>6 DEF FdOwnership

-----------------------------------------------------------------------------
(* What an event reaches.                                                   *)

\* An event on a client socket was polled for that client, in its state.
LEMMA ReachedClient ==
    ASSUME LoopInv, NEW e \in pollFds, Reach(e), IsClient(e.fd)
    PROVE  /\ e \in Entry /\ e.fd \in Fd /\ e.role = "client" /\ e.owner = e.fd
           /\ conn[e.fd] \in Conn /\ e.events = ClientEvents(conn[e.fd])
           /\ waiting = NoFd /\ pc = "dispatch"
<1>1. e \in Entry /\ e.fd \in Fd /\ conn[e.fd] \in Conn
  BY EntryTypes DEF LoopInv, TypeInv, TypeOK, IsClient
<1>2. EntryIsCurrent(e) /\ pc = "dispatch"
  BY DEF LoopInv, EventsReachTheirOwner, Reach
<1>3. e.role \in {"listener", "client", "stdout", "stdin"}
  BY <1>1 DEF Entry
<1>. QED
  BY <1>1, <1>2, <1>3 DEF EntryIsCurrent, IsClient, IsPipe, LoopInv, NeverStranded

\* An event on a pipe was polled for the client it reaches, whose script runs.
LEMMA ReachedPipe ==
    ASSUME LoopInv, NEW e \in pollFds, PipeEvent(e)
    PROVE  /\ e \in Entry /\ e.role \in {"stdout", "stdin"} /\ Owner(e) = e.owner
           /\ e.owner \in Fd /\ conn[e.owner] \in Conn /\ cgi[e.owner] \in Handler
           /\ conn[e.owner] # NULL /\ cgi[e.owner] # NULL
           /\ conn[e.owner].state = "CGI"
           /\ cgi[e.owner].out # NoFd
           /\ e.role = "stdout" => e.events = "IN"
           /\ waiting = NoFd /\ pc = "dispatch"
<1>1. Reach(e) /\ IsPipe(e.fd) /\ conn[Owner(e)] # NULL /\ cgi[Owner(e)] # NULL
  BY DEF PipeEvent
<1>2. e \in Entry /\ pc = "dispatch"
  BY <1>1 DEF LoopInv, TypeInv, TypeOK, Reach
<1>3. EntryIsCurrent(e) /\ AheadOfDispatch(e)
  BY <1>2 DEF LoopInv, EventsReachTheirOwner, RoundInv
<1>4. e.role \in {"listener", "client", "stdout", "stdin"} /\ e.owner \in Fd
  BY <1>2 DEF Entry
<1>5. e.role \in {"stdout", "stdin"} /\ Owner(e) = e.owner
  BY <1>1, <1>3, <1>4 DEF EntryIsCurrent, IsClient, IsPipe
<1>6. conn[e.owner] \in Conn /\ cgi[e.owner] \in Handler
  BY <1>1, <1>4, <1>5 DEF LoopInv, TypeInv, TypeOK
<1>7. waiting = NoFd
  BY <1>2 DEF LoopInv, NeverStranded
<1>8. conn[e.owner].state = "CGI" /\ cgi[e.owner].out # NoFd
  <2>1. e.owner \in Scripted /\ e.owner # NoFd
    BY <1>1, <1>4, <1>5 DEF Scripted, Fd, NoFd, LoopInv, TypeInv
  <2>. QED  BY <1>4, <1>7, <2>1 DEF Scripted, LoopInv, NeverStranded
<1>. QED  BY <1>1, <1>2, <1>3, <1>4, <1>5, <1>6, <1>7, <1>8 DEF AheadOfDispatch

\* The entries still ahead belong to others, except a script's stdin after its
\* stdout, and a client's pipes after its socket.
LEMMA LaterEntries ==
    ASSUME LoopInv, NEW e \in pollFds, Reach(e), NEW x \in pollFds',
           e.role \in {"client", "stdout", "stdin"}
    PROVE  /\ x \in pollFds /\ x \in Entry /\ e \in Entry
           /\ EntryIsCurrent(x) /\ AheadOfDispatch(x)
           /\ x.role = "client" => x.fd # e.owner
           /\ x.role = "stdout" /\ x.owner = e.owner => e.role = "client"
           /\ x.role = "stdin" /\ x.owner = e.owner => e.role # "stdin"
<1>1. x \in pollFds /\ Rank(x) > Rank(e)
  BY DEF Reach
<1>2. x \in Entry /\ e \in Entry
  BY <1>1 DEF LoopInv, TypeInv, TypeOK
<1>3. EntryIsCurrent(x) /\ AheadOfDispatch(x)
  BY <1>1 DEF LoopInv, EventsReachTheirOwner, RoundInv, Reach
<1>4. x.owner \in Int /\ e.owner \in Int /\ FdLimit \in Int
  BY <1>2, LimitsAssumption DEF Entry, Fd
<1>5. /\ x.role = "client" => x.owner # e.owner
      /\ x.role = "stdout" /\ x.owner = e.owner => e.role = "client"
      /\ x.role = "stdin" /\ x.owner = e.owner => e.role # "stdin"
  BY <1>1, <1>4 DEF Rank
<1>6. x.role = "client" => x.owner = x.fd
  BY <1>3 DEF EntryIsCurrent
<1>. QED  BY <1>1, <1>2, <1>3, <1>5, <1>6

\* A handler that ran for the client an event reached leaves the entries ahead
\* current: it starts a script only for a client that was reading, and takes from
\* a running one at most the pipe the event was on, or its stdout to wait for it.
LEMMA EventsStep ==
    ASSUME LoopInv, TypeOK', NEW e \in pollFds, Reach(e),
           \/ IsClient(e.fd) /\ conn[e.fd].state = "READING"
           \/ IsClient(e.fd) /\ cgi'[e.owner] = NULL
           \/ PipeEvent(e) /\ cgi'[e.owner] = NULL
           \/ PipeEvent(e) /\ cgi'[e.owner].in = cgi[e.owner].in
                /\ (waiting' = e.owner \/ waiting' = NoFd)
           \/ PipeEvent(e) /\ e.role = "stdin",
           \A d \in Fd \ {e.owner} : conn'[d] = conn[d] /\ cgi'[d] = cgi[d],
           conn'[e.owner] # NULL,
           conn'[e.owner].state = "READING" => conn[e.owner].state = "READING",
           waiting' = NoFd \/ waiting' = e.owner,
           UNCHANGED <<listenFds, cgiFds>>
    PROVE  \A x \in pollFds' : EntryIsCurrent(x)' /\ AheadOfDispatch(x)'
<1>. SUFFICES ASSUME NEW x \in pollFds'
              PROVE  EntryIsCurrent(x)' /\ AheadOfDispatch(x)'
  OBVIOUS
<1>1. e.role \in {"client", "stdout", "stdin"} /\ waiting = NoFd
  BY ReachedClient, ReachedPipe
<1>2. /\ x \in Entry /\ EntryIsCurrent(x) /\ AheadOfDispatch(x)
      /\ x.role = "client" => x.fd # e.owner
      /\ x.role = "stdout" /\ x.owner = e.owner => e.role = "client"
      /\ x.role = "stdin" /\ x.owner = e.owner => e.role # "stdin"
  BY <1>1, LaterEntries
<1>3. x.fd \in Fd /\ x.owner \in Fd
      /\ x.role \in {"listener", "client", "stdout", "stdin"} /\ NoFd \notin Fd
  BY <1>2 DEF Entry, Fd, NoFd
<1>4. PipeEvent(e) => e.role \in {"stdout", "stdin"}
  BY ReachedPipe
<1>5. IsClient(e.fd) => e.owner = e.fd
  BY ReachedClient
<1>6. CASE x.role = "listener"
  BY <1>2, <1>6 DEF EntryIsCurrent, AheadOfDispatch
<1>7. CASE x.role = "client"
  <2>1. x.fd # e.owner /\ conn'[x.fd] = conn[x.fd]
    BY <1>2, <1>3, <1>7
  <2>2. IsClient(x.fd)' /\ x.owner = x.fd /\ x.events = ClientEvents(conn'[x.fd])
    BY <1>2, <1>7, <2>1 DEF EntryIsCurrent, IsClient
  <2>. QED  BY <1>3, <1>7, <2>1, <2>2 DEF EntryIsCurrent, AheadOfDispatch
<1>8. CASE x.role = "stdout"
  <2>1. IsPipe(x.fd)' /\ Owner(x)' = x.owner /\ conn[x.owner] # NULL
        /\ conn[x.owner].state # "READING" /\ x.events = "IN"
    BY <1>2, <1>8 DEF EntryIsCurrent, AheadOfDispatch, IsPipe, Owner
  <2>2. conn'[x.owner] # NULL /\ conn'[x.owner].state # "READING"
    BY <1>3, <2>1
  <2>3. cgi'[x.owner] # NULL => cgi'[x.owner].out = x.fd
    <3>1. CASE x.owner = e.owner
      BY <1>2, <1>4, <1>5, <1>8, <2>1, <3>1
    <3>2. CASE x.owner # e.owner
      BY <1>2, <1>3, <1>8, <3>2 DEF EntryIsCurrent
    <3>. QED  BY <3>1, <3>2
  <2>. QED  BY <1>8, <2>1, <2>2, <2>3 DEF EntryIsCurrent, AheadOfDispatch
<1>9. CASE x.role = "stdin"
  <2>1. IsPipe(x.fd)' /\ Owner(x)' = x.owner /\ conn[x.owner] # NULL
        /\ conn[x.owner].state # "READING"
        /\ (cgi[x.owner] # NULL => cgi[x.owner].in = x.fd)
    BY <1>1, <1>2, <1>3, <1>9
    DEF EntryIsCurrent, AheadOfDispatch, IsPipe, Owner
  <2>2. conn'[x.owner] # NULL /\ conn'[x.owner].state # "READING"
    BY <1>3, <2>1
  <2>3. cgi'[x.owner] # NULL /\ waiting' # x.owner => cgi'[x.owner].in = x.fd
    <3>1. CASE x.owner = e.owner
      <4>1. PipeEvent(e) => cgi[e.owner] # NULL
        BY ReachedPipe
      <4>. QED  BY <1>2, <1>5, <1>9, <2>1, <3>1, <4>1
    <3>2. CASE x.owner # e.owner
      BY <1>3, <2>1, <3>2
    <3>. QED  BY <3>1, <3>2
  <2>. QED  BY <1>9, <2>1, <2>2, <2>3 DEF EntryIsCurrent, AheadOfDispatch
<1>. QED  BY <1>3, <1>6, <1>7, <1>8, <1>9

-----------------------------------------------------------------------------
(* The handlers.                                                            *)

\* What every handler does for the client c of the entry it is called for: it
\* keeps the Connection, has a CgiHandler exactly in state CGI, takes or gives
\* back descriptors of its own only, and reports a finished client.
HandlerStep(e, c) ==
    /\ \/ IsClient(e.fd) /\ conn[e.fd].state = "READING"
       \/ IsClient(e.fd) /\ cgi'[c] = NULL
       \/ PipeEvent(e) /\ cgi'[c] = NULL
       \/ PipeEvent(e) /\ cgi'[c].in = cgi[c].in
       \/ PipeEvent(e) /\ e.role = "stdin"
    /\ \A d \in Fd \ {c} : conn'[d] = conn[d] /\ cgi'[d] = cgi[d]
    /\ conn'[c] # NULL
    /\ conn'[c].state = "READING" => conn[c].state = "READING"
    /\ cgi'[c] # NULL <=> conn'[c].state = "CGI"
    /\ cgi'[c] # NULL => /\ cgi'[c].out = NoFd <=> waiting' = c
                         /\ cgi'[c].in = NoFd \/ cgi'[c].in # cgi'[c].out
    /\ \/ waiting' = NoFd /\ pc' = "dispatch"
       \/ waiting' = c /\ pc' = "waitpid"
    /\ waiting' = c => cgi'[c] # NULL
    /\ Pipes(c)' \cap (open \ Pipes(c)) = {}
    /\ open' = (open \ Pipes(c)) \cup Pipes(c)'
    /\ finished' = IF conn'[c].state = "DONE" THEN finished \cup {c} ELSE finished
    /\ UNCHANGED <<listenFds, cgiFds>>

\* A handler that changes only its own client and descriptors keeps the invariant.
LEMMA HandlerStepKeeps ==
    ASSUME LoopInv, TypeInv', NEW e \in pollFds, Reach(e), HandlerStep(e, e.owner)
    PROVE  LoopInv'
<1> DEFINE c == e.owner
<1>1. c \in Fd /\ conn[c] # NULL /\ waiting = NoFd /\ pc = "dispatch"
      /\ e.role \in {"client", "stdout", "stdin"} /\ c # NoFd
  BY ReachedClient, ReachedPipe DEF HandlerStep, IsClient, Fd, NoFd
<1>2. /\ \A d \in Fd \ {c} : conn'[d] = conn[d] /\ cgi'[d] = cgi[d]
      /\ conn'[c] # NULL
      /\ conn'[c].state = "READING" => conn[c].state = "READING"
      /\ cgi'[c] # NULL <=> conn'[c].state = "CGI"
      /\ cgi'[c] # NULL => /\ cgi'[c].out = NoFd <=> waiting' = c
                           /\ cgi'[c].in = NoFd \/ cgi'[c].in # cgi'[c].out
      /\ \/ waiting' = NoFd /\ pc' = "dispatch"
         \/ waiting' = c /\ pc' = "waitpid"
      /\ waiting' = c => cgi'[c] # NULL
      /\ Pipes(c)' \cap (open \ Pipes(c)) = {}
      /\ open' = (open \ Pipes(c)) \cup Pipes(c)'
      /\ finished' = IF conn'[c].state = "DONE" THEN finished \cup {c}
                     ELSE finished
      /\ listenFds' = listenFds /\ cgiFds' = cgiFds
  BY DEF HandlerStep
<1>3. FdOwnership'
  BY <1>1, <1>2, FdStep DEF LoopInv, TypeInv
<1>4. \A x \in pollFds' : EntryIsCurrent(x)' /\ AheadOfDispatch(x)'
  <2>1. \/ IsClient(e.fd) /\ conn[e.fd].state = "READING"
        \/ IsClient(e.fd) /\ cgi'[c] = NULL
        \/ PipeEvent(e) /\ cgi'[c] = NULL
        \/ PipeEvent(e) /\ cgi'[c].in = cgi[c].in
        \/ PipeEvent(e) /\ e.role = "stdin"
    BY DEF HandlerStep
  <2>. QED  BY <1>2, <2>1, EventsStep DEF TypeInv
<1>5. NeverStranded'
  <2>1. ASSUME NEW d \in Fd
        PROVE  cgi'[d] # NULL <=> (conn'[d] # NULL /\ conn'[d].state = "CGI")
    BY <1>1, <1>2 DEF LoopInv, NeverStranded
  <2>2. ASSUME NEW d \in Fd, cgi'[d] # NULL
        PROVE  cgi'[d].out = NoFd <=> waiting' = d
    <3>1. CASE d = c
      BY <1>2, <2>2, <3>1
    <3>2. CASE d # c
      <4>1. cgi[d] # NULL /\ cgi[d].out # NoFd /\ d # NoFd
        BY <1>1, <1>2, <2>2, <3>2 DEF LoopInv, NeverStranded, Scripted, Fd, NoFd
      <4>. QED  BY <1>2, <3>2, <4>1
    <3>. QED  BY <3>1, <3>2
  <2>3. ASSUME NEW d \in Fd, conn'[d] # NULL, conn'[d].state = "DONE"
        PROVE  d \in finished'
    BY <1>2, <2>3 DEF LoopInv, NeverStranded, Clients
  <2>4. waiting' # NoFd <=> pc' = "waitpid"
    BY <1>1, <1>2
  <2>5. pc' \in {"dispatch", "waitpid"}
    BY <1>2
  <2>. QED  BY <2>1, <2>2, <2>3, <2>4, <2>5 DEF NeverStranded, Clients, Scripted
<1>6. finished' \subseteq Clients'
  BY <1>1, <1>2 DEF LoopInv, RoundInv, Clients
<1>. QED
  BY <1>3, <1>4, <1>5, <1>6 DEF LoopInv, EventsReachTheirOwner, RoundInv

\* A client that is read from is reading, one that is written to is writing, and
\* neither has a script.
LEMMA ReachedState ==
    ASSUME LoopInv, NEW e \in pollFds, Reach(e), IsClient(e.fd)
    PROVE  /\ e.events = "IN" => conn[e.fd].state = "READING"
           /\ e.events = "OUT" => conn[e.fd].state = "WRITING"
           /\ e.events \in {"IN", "OUT"} => cgi[e.fd] = NULL
<1>1. e.fd \in Fd /\ conn[e.fd] \in Conn /\ e.events = ClientEvents(conn[e.fd])
  BY ReachedClient
<1>2. conn[e.fd].state \in {"READING", "CGI", "WRITING", "DONE"}
  BY <1>1 DEF Conn
<1>3. /\ e.events = "IN" => conn[e.fd].state = "READING"
      /\ e.events = "OUT" => conn[e.fd].state = "WRITING"
  BY <1>1, <1>2 DEF ClientEvents
<1>4. cgi[e.fd] # NULL => conn[e.fd].state = "CGI"
  BY <1>1 DEF LoopInv, NeverStranded
<1>. QED  BY <1>3, <1>4

\* Handlers of a client socket that start no script and leave no handler.
LEMMA PlainClientStep ==
    ASSUME LoopInv, TypeInv', NEW e \in pollFds,
           \/ ToReadEnds(e) \/ ToReadMore(e) \/ ToReadAnswers(e)
           \/ ToReadScriptFails(e) \/ ToWrite(e)
    PROVE  HandlerStep(e, e.owner)
<1> DEFINE c == e.fd
<1>1. /\ Reach(e) /\ IsClient(c)
      /\ UNCHANGED <<pc, stop, listenFds, cgiFds, waiting>>
      /\ NoteDone(c)
  BY DEF ToReadEnds, ToReadMore, ToReadAnswers, ToReadScriptFails, ToWrite, Readable
<1>2. /\ e.owner = c /\ c \in Fd /\ conn[c] \in Conn /\ conn[c] # NULL
      /\ waiting = NoFd /\ pc = "dispatch" /\ c # NoFd
  BY <1>1, ReachedClient DEF IsClient, Fd, NoFd
<1>3. cgi[c] = NULL
  <2>1. e.events \in {"IN", "OUT"}
    BY DEF ToReadEnds, ToReadMore, ToReadAnswers, ToReadScriptFails, ToWrite,
           Readable
  <2>. QED  BY <1>1, <2>1, ReachedState
<1>4. cgi'[c] = NULL /\ \A d \in Fd \ {c} : cgi'[d] = cgi[d]
  BY <1>2, <1>3 DEF ToReadEnds, ToReadMore, ToReadAnswers, ToReadScriptFails,
                    ToWrite, LoopInv, TypeInv, TypeOK
<1>5. /\ \A d \in Fd \ {c} : conn'[d] = conn[d]
      /\ \/ conn'[c] \in {Done(conn[c]), Queued(Active(conn[c])), Active(conn[c])}
         \/ \E n \in 1 .. conn[c].left : conn'[c] = Sent(conn[c], n)
  BY <1>2 DEF ToReadEnds, ToReadMore, ToReadAnswers, ToReadScriptFails, ToWrite,
              LoopInv, TypeInv, TypeOK
<1>6. conn'[c] # NULL /\ conn'[c].state # "CGI"
      /\ (conn'[c].state = "READING" => conn[c].state = "READING")
  <2>1. conn[c].state # "CGI"
    BY <1>2, <1>3 DEF LoopInv, NeverStranded
  <2>2. /\ Done(conn[c]) \in Conn /\ Queued(Active(conn[c])) \in Conn
        /\ Active(conn[c]) \in Conn
        /\ \A n \in 1 .. conn[c].left : Sent(conn[c], n) \in Conn
    <3>1. Active(conn[c]) \in Conn
      BY <1>2, ConnTypes
    <3>. QED  BY <1>2, <3>1, ConnTypes
  <2>3. /\ Done(conn[c]).state = "DONE"
        /\ Queued(Active(conn[c])).state = "WRITING"
        /\ Active(conn[c]).state = conn[c].state
        /\ \A n \in 1 .. conn[c].left :
             Sent(conn[c], n).state \in {"DONE", conn[c].state}
    BY <1>2 DEF Conn, Done, Queued, Sent, Active
  <2>4. conn'[c] # NULL
    BY <1>5, <2>2, NullTypes
  <2>. QED  BY <1>5, <2>1, <2>3, <2>4
<1>7. open' = open
  <2>1. CASE ToReadScriptFails(e)
    BY <2>1 DEF ToReadScriptFails, Pipe, IsLowest, SecondPipeFails, ForkFails,
                FcntlFails
  <2>. QED  BY <2>1 DEF ToReadEnds, ToReadMore, ToReadAnswers, ToWrite
<1>8. Pipes(c) = {} /\ Pipes(c)' = {}
  BY <1>3, <1>4 DEF Pipes
<1>9. waiting' = NoFd /\ pc' = "dispatch"
  BY <1>1, <1>2
<1>10. listenFds' = listenFds /\ cgiFds' = cgiFds
       /\ finished' = IF conn'[c].state = "DONE" THEN finished \cup {c} ELSE finished
  BY <1>1 DEF NoteDone
<1>11. HandlerStep(e, c)
  <2>1. waiting' # c
    BY <1>2, <1>9
  <2>2. /\ cgi'[c] # NULL <=> conn'[c].state = "CGI"
        /\ cgi'[c] # NULL => /\ cgi'[c].out = NoFd <=> waiting' = c
                             /\ cgi'[c].in = NoFd \/ cgi'[c].in # cgi'[c].out
        /\ waiting' = c => cgi'[c] # NULL
    BY <1>4, <1>6, <2>1
  <2>3. /\ Pipes(c)' \cap (open \ Pipes(c)) = {}
        /\ open' = (open \ Pipes(c)) \cup Pipes(c)'
    BY <1>7, <1>8
  <2>. HIDE DEF c
  <2>. QED
    BY <1>1, <1>4, <1>5, <1>6, <1>9, <1>10, <2>2, <2>3 DEF HandlerStep, c
<1>. QED  BY <1>2, <1>11

\* The start of a script is such a step,
LEMMA StartStep ==
    ASSUME LoopInv, TypeInv', NEW e \in pollFds, ToReadStartsScript(e)
    PROVE  HandlerStep(e, e.owner)
<1> DEFINE c == e.fd
<1>1. /\ Reach(e) /\ IsClient(c) /\ e.events = "IN" /\ NoteDone(c)
      /\ UNCHANGED <<pc, listenFds, cgiFds, waiting>>
      /\ \E k \in ActiveFirst(conn[c]) : conn' = [conn EXCEPT ![c] = InScript(k)]
  BY DEF ToReadStartsScript, Readable
<1>2. /\ e.owner = c /\ c \in Fd /\ conn[c] \in Conn /\ waiting = NoFd
      /\ pc = "dispatch" /\ c # NoFd
  BY <1>1, ReachedClient DEF Fd, NoFd
<1>3. cgi[c] = NULL /\ conn[c].state = "READING" /\ Pipes(c) = {}
  BY <1>1, ReachedState DEF Pipes
<1>4. /\ \A d \in Fd \ {c} : conn'[d] = conn[d]
      /\ conn'[c] \in Conn /\ conn'[c].state = "CGI" /\ conn'[c] # NULL
  <2>1. PICK k \in ActiveFirst(conn[c]) : conn' = [conn EXCEPT ![c] = InScript(k)]
    BY <1>1
  <2>2. k \in Conn /\ InScript(k) \in Conn
    BY <1>2, <2>1, ConnTypes
  <2>3. conn'[c] = InScript(k) /\ \A d \in Fd \ {c} : conn'[d] = conn[d]
    BY <1>2, <2>1 DEF LoopInv, TypeInv, TypeOK
  <2>4. InScript(k).state = "CGI"
    BY <2>2 DEF InScript, Conn
  <2>. QED  BY <2>2, <2>3, <2>4, NullTypes
<1>5. PICK p \in Pid, b \in 0 .. MaxBody, i0 \in Fd, i1 \in Fd, o0 \in Fd,
           o1 \in Fd : /\ Pipe(i0, i1, open) /\ Pipe(o0, o1, open \cup {i0, i1})
                       /\ Started(c, p, b, i0, i1, o0, o1)
  BY DEF ToReadStartsScript
<1>6. /\ cgi'[c] = [pid |-> p, in |-> IF b = 0 THEN NoFd ELSE i1, out |-> o0,
                    body |-> b, stall |-> 0]
      /\ \A d \in Fd \ {c} : cgi'[d] = cgi[d]
  BY <1>2, <1>5 DEF Started, LoopInv, TypeInv, TypeOK
<1>7. cgi'[c] \in Handler /\ cgi'[c] # NULL
  BY <1>6, LimitsAssumption, TimeoutAssumption, NullTypes DEF Handler
<1>8. /\ i0 \notin open /\ i1 \notin open /\ o0 \notin open /\ o1 \notin open
      /\ i0 # i1 /\ i0 # o0 /\ i0 # o1 /\ i1 # o0 /\ i1 # o1 /\ o0 # o1
      /\ NoFd \notin Fd
  BY <1>5 DEF Pipe, IsLowest, Fd, NoFd
<1>9. Pipes(c)' = IF b = 0 THEN {o0} ELSE {i1, o0}
  BY <1>6, <1>7, <1>8 DEF Pipes
<1>10. open' = open \cup Pipes(c)' /\ Pipes(c)' \cap open = {}
  BY <1>5, <1>8, <1>9 DEF Started
<1>11. cgi'[c].out # NoFd /\ (cgi'[c].in = NoFd \/ cgi'[c].in # cgi'[c].out)
  BY <1>6, <1>8
<1>12. waiting' = NoFd /\ pc' = "dispatch" /\ waiting' # c
  BY <1>1, <1>2
<1>13. finished' = IF conn'[c].state = "DONE" THEN finished \cup {c} ELSE finished
  BY <1>1 DEF NoteDone
<1>14. HandlerStep(e, c)
  <2>. HIDE DEF c
  <2>. QED
    BY <1>1, <1>3, <1>4, <1>6, <1>7, <1>10, <1>11, <1>12, <1>13
    DEF HandlerStep, c
<1>. QED  BY <1>2, <1>14

\* Reading the clock changes no state.
LEMMA ActiveStates ==
    ASSUME NEW k \in Conn, NEW j \in {Active(k)} \cup ActiveFirst(k)
    PROVE  j \in Conn /\ j # NULL /\ j.state = k.state
<1>1. j \in Conn
  BY ConnTypes
<1>2. j.state = k.state
  BY DEF Active, ActiveFirst, Conn
<1>. QED  BY <1>1, <1>2, NullTypes

\* The pipes of a running script.
LEMMA RunningPipes ==
    ASSUME LoopInv, NEW e \in pollFds, PipeEvent(e)
    PROVE  LET h == cgi[e.owner] IN
           /\ Pipes(e.owner) = {h.in, h.out} \ {NoFd}
           /\ h.in = NoFd \/ h.in # h.out
           /\ NoFd \notin open
<1>1. e.owner \in Fd /\ cgi[e.owner] # NULL
  BY ReachedPipe
<1>. QED  BY <1>1 DEF Pipes, LoopInv, FdOwnership, TypeInv, TypeOK, Fd, NoFd

\* so is writing to its stdin,
LEMMA WritableStep ==
    ASSUME LoopInv, TypeInv', NEW e \in pollFds, OnCgiWritable(e)
    PROVE  HandlerStep(e, e.owner)
<1> DEFINE c == e.owner
           h == cgi[c]
<1>1. /\ PipeEvent(e) /\ e.role = "stdin" /\ Owner(e) = c /\ c \in Fd
      /\ conn[c] \in Conn /\ h \in Handler /\ h # NULL /\ conn[c].state = "CGI"
      /\ h.out # NoFd /\ waiting = NoFd /\ pc = "dispatch" /\ c # NoFd
  BY ReachedPipe DEF OnCgiWritable, Fd, NoFd
<1>2. /\ \/ cgi' = [cgi EXCEPT ![c] = [h EXCEPT !.in = NoFd]]
         \/ \E n \in 1 .. h.body : cgi' = [cgi EXCEPT ![c] = Fed(h, n)]
      /\ open' = IF cgi'[c].in = NoFd THEN open \ {h.in} ELSE open
      /\ \E k \in {Active(conn[c])} \cup ActiveFirst(conn[c]) :
           conn' = [conn EXCEPT ![c] = k]
      /\ NoteDone(c)
      /\ UNCHANGED <<pc, listenFds, cgiFds, waiting>>
  BY <1>1 DEF OnCgiWritable, LoopInv, TypeInv, TypeOK
<1>3. /\ cgi'[c] \in Handler /\ cgi'[c].out = h.out
      /\ cgi'[c].in = NoFd \/ cgi'[c].in = h.in
      /\ \A d \in Fd \ {c} : cgi'[d] = cgi[d]
  <2>1. \A n \in 1 .. h.body : /\ Fed(h, n).out = h.out
                               /\ Fed(h, n).in \in {NoFd, h.in}
    BY <1>1 DEF Fed, Handler
  <2>2. [h EXCEPT !.in = NoFd].out = h.out /\ [h EXCEPT !.in = NoFd].in = NoFd
    BY <1>1 DEF Handler
  <2>3. [h EXCEPT !.in = NoFd] \in Handler
        /\ \A n \in 1 .. h.body : Fed(h, n) \in Handler
    BY <1>1, HandlerTypes
  <2>4. PICK g \in Handler : /\ cgi' = [cgi EXCEPT ![c] = g]
                             /\ g.out = h.out /\ g.in \in {NoFd, h.in}
    <3>1. CASE cgi' = [cgi EXCEPT ![c] = [h EXCEPT !.in = NoFd]]
      BY <2>2, <2>3, <3>1
    <3>2. CASE \E n \in 1 .. h.body : cgi' = [cgi EXCEPT ![c] = Fed(h, n)]
      BY <2>1, <2>3, <3>2
    <3>. QED  BY <1>2, <3>1, <3>2
  <2>. QED  BY <1>1, <2>4 DEF LoopInv, TypeInv, TypeOK
<1>4. /\ conn'[c] # NULL /\ conn'[c].state = "CGI"
      /\ \A d \in Fd \ {c} : conn'[d] = conn[d]
  <2>1. PICK k \in {Active(conn[c])} \cup ActiveFirst(conn[c]) :
              conn' = [conn EXCEPT ![c] = k]
    BY <1>2
  <2>2. k # NULL /\ k.state = "CGI"
    BY <1>1, <2>1, ActiveStates
  <2>. QED  BY <1>1, <2>1, <2>2 DEF LoopInv, TypeInv, TypeOK
<1>5. cgi'[c] # NULL
  BY <1>3, NullTypes
<1>6. Pipes(c) = {h.in, h.out} \ {NoFd} /\ (h.in = NoFd \/ h.in # h.out)
      /\ NoFd \notin open
  BY <1>1, RunningPipes
<1>7. Pipes(c)' = {cgi'[c].in, cgi'[c].out} \ {NoFd}
  BY <1>5 DEF Pipes
<1>8. /\ Pipes(c)' \cap (open \ Pipes(c)) = {}
      /\ open' = (open \ Pipes(c)) \cup Pipes(c)'
  <2>1. Pipes(c) \subseteq open
    BY <1>1 DEF LoopInv, FdOwnership
  <2>. QED  BY <1>1, <1>2, <1>3, <1>6, <1>7, <2>1
<1>9. cgi'[c].out # NoFd /\ (cgi'[c].in = NoFd \/ cgi'[c].in # cgi'[c].out)
  BY <1>1, <1>3, <1>6
<1>10. waiting' = NoFd /\ pc' = "dispatch" /\ waiting' # c
  BY <1>1, <1>2
<1>11. finished' = IF conn'[c].state = "DONE" THEN finished \cup {c} ELSE finished
  BY <1>2 DEF NoteDone
<1>. HIDE DEF c
<1>12. HandlerStep(e, c)
  BY <1>1, <1>2, <1>3, <1>4, <1>5, <1>8, <1>9, <1>10, <1>11 DEF HandlerStep
<1>. QED  BY <1>12 DEF c

\* reading from its stdout,
LEMMA PrintedStep ==
    ASSUME LoopInv, TypeInv', NEW e \in pollFds, OnCgiPrinted(e)
    PROVE  HandlerStep(e, e.owner)
<1> DEFINE c == e.owner
           h == cgi[c]
           g == [h EXCEPT !.stall = 0]
<1>1. /\ PipeEvent(e) /\ Owner(e) = c /\ c \in Fd
      /\ conn[c] \in Conn /\ h \in Handler /\ h # NULL /\ conn[c].state = "CGI"
      /\ h.out # NoFd /\ waiting = NoFd /\ pc = "dispatch" /\ c # NoFd
  BY ReachedPipe DEF OnCgiPrinted, Fd, NoFd
<1>2. /\ cgi' = [cgi EXCEPT ![c] = g]
      /\ \E k \in {Active(conn[c])} \cup ActiveFirst(conn[c]) :
           conn' = [conn EXCEPT ![c] = k]
      /\ open' = open /\ NoteDone(c)
      /\ UNCHANGED <<pc, listenFds, cgiFds, waiting>>
  <2>1. cgi' = [cgi EXCEPT ![c].stall = 0]
    BY <1>1 DEF OnCgiPrinted
  <2>2. cgi' = [cgi EXCEPT ![c] = g]
    BY <1>1, <2>1 DEF LoopInv, TypeInv, TypeOK, Handler
  <2>. QED  BY <1>1, <2>2 DEF OnCgiPrinted
<1>3. g \in Handler /\ g # NULL /\ g.in = h.in /\ g.out = h.out
  BY <1>1, <1>2, HandlerTypes, NullTypes DEF Handler
<1>4. cgi'[c] = g /\ \A d \in Fd \ {c} : cgi'[d] = cgi[d]
  BY <1>1, <1>2 DEF LoopInv, TypeInv, TypeOK
<1>5. /\ conn'[c] # NULL /\ conn'[c].state = "CGI"
      /\ \A d \in Fd \ {c} : conn'[d] = conn[d]
  <2>1. PICK k \in {Active(conn[c])} \cup ActiveFirst(conn[c]) :
              conn' = [conn EXCEPT ![c] = k]
    BY <1>2
  <2>2. k # NULL /\ k.state = "CGI"
    BY <1>1, <2>1, ActiveStates
  <2>. QED  BY <1>1, <2>1, <2>2 DEF LoopInv, TypeInv, TypeOK
<1>6. Pipes(c) = {h.in, h.out} \ {NoFd} /\ (h.in = NoFd \/ h.in # h.out)
  BY <1>1, RunningPipes
<1> HIDE DEF g
<1>7. Pipes(c)' = Pipes(c)
  BY <1>3, <1>4, <1>6 DEF Pipes
<1>8. /\ Pipes(c)' \cap (open \ Pipes(c)) = {}
      /\ open' = (open \ Pipes(c)) \cup Pipes(c)'
  BY <1>1, <1>2, <1>7 DEF LoopInv, FdOwnership
<1>9. cgi'[c].out # NoFd /\ (cgi'[c].in = NoFd \/ cgi'[c].in # cgi'[c].out)
      /\ cgi'[c].in = cgi[c].in /\ cgi'[c] # NULL
  BY <1>1, <1>3, <1>4, <1>6
<1>10. waiting' = NoFd /\ pc' = "dispatch" /\ waiting' # c
  BY <1>1, <1>2
<1>11. finished' = IF conn'[c].state = "DONE" THEN finished \cup {c} ELSE finished
  BY <1>2 DEF NoteDone
<1>. HIDE DEF c
<1>12. HandlerStep(e, c)
  BY <1>1, <1>2, <1>4, <1>5, <1>8, <1>9, <1>10, <1>11 DEF HandlerStep
<1>. QED  BY <1>12 DEF c

\* finishCgi(): the handler and its pipes are gone, the client is written to.
LEMMA Finished ==
    ASSUME LoopInv, NEW c \in Fd, NEW k \in Conn, cgi[c] # NULL, FinishCgi(c, k)
    PROVE  /\ cgi'[c] = NULL /\ Pipes(c)' = {}
           /\ \A d \in Fd \ {c} : conn'[d] = conn[d] /\ cgi'[d] = cgi[d]
           /\ conn'[c] # NULL /\ conn'[c].state = "WRITING"
           /\ open' = open \ Pipes(c) /\ finished' = finished
<1>2. Queued(k) \in Conn
  BY ConnTypes
<1>3. Queued(k).state = "WRITING"
  BY DEF Queued, Conn
<1>4. conn' = [conn EXCEPT ![c] = Queued(k)]
  BY DEF FinishCgi
<1>5. conn'[c] = Queued(k) /\ \A d \in Fd \ {c} : conn'[d] = conn[d]
  BY <1>4 DEF LoopInv, TypeInv, TypeOK
<1>6. conn'[c] # NULL /\ conn'[c].state = "WRITING"
  BY <1>2, <1>3, <1>5, NullTypes
<1>7. cgi'[c] = NULL /\ \A d \in Fd \ {c} : cgi'[d] = cgi[d]
  BY DEF FinishCgi, Deleted, LoopInv, TypeInv, TypeOK
<1>8. open' = open \ Pipes(c) /\ finished' = finished
  BY <1>6 DEF FinishCgi, NoteDone
<1>. QED  BY <1>5, <1>6, <1>7, <1>8 DEF Pipes

\* its end,
LEMMA EndsStep ==
    ASSUME LoopInv, TypeInv', NEW e \in pollFds, OnCgiEnds(e)
    PROVE  HandlerStep(e, e.owner)
<1> DEFINE c == e.owner
<1>1. /\ PipeEvent(e) /\ Owner(e) = c /\ c \in Fd /\ cgi[c] # NULL /\ conn[c] \in Conn
      /\ waiting = NoFd /\ pc = "dispatch" /\ c # NoFd
  BY ReachedPipe DEF OnCgiEnds, Fd, NoFd
<1>2. /\ FinishCgi(c, Active(conn[c])) /\ Active(conn[c]) \in Conn
      /\ UNCHANGED <<pc, listenFds, cgiFds, waiting>>
  BY <1>1, ConnTypes DEF OnCgiEnds
<1>3. /\ cgi'[c] = NULL /\ Pipes(c)' = {}
      /\ \A d \in Fd \ {c} : conn'[d] = conn[d] /\ cgi'[d] = cgi[d]
      /\ conn'[c] # NULL /\ conn'[c].state = "WRITING"
      /\ open' = open \ Pipes(c) /\ finished' = finished
  BY <1>1, <1>2, Finished
<1>4. waiting' = NoFd /\ pc' = "dispatch" /\ waiting' # c
  BY <1>1, <1>2
<1>. HIDE DEF c
<1>5. HandlerStep(e, c)
  BY <1>1, <1>2, <1>3, <1>4 DEF HandlerStep
<1>. QED  BY <1>5 DEF c

\* and the end of its output before its own.
LEMMA EndsEarlyStep ==
    ASSUME LoopInv, TypeInv', NEW e \in pollFds, OnCgiEndsEarly(e)
    PROVE  HandlerStep(e, e.owner)
<1> DEFINE c == e.owner
           h == cgi[c]
           g == [h EXCEPT !.out = NoFd]
<1>1. /\ PipeEvent(e) /\ Owner(e) = c /\ c \in Fd
      /\ conn[c] \in Conn /\ h \in Handler /\ h # NULL /\ conn[c].state = "CGI"
      /\ h.out # NoFd /\ c # NoFd
  BY ReachedPipe DEF OnCgiEndsEarly, Fd, NoFd
<1>2. /\ cgi' = [cgi EXCEPT ![c] = g] /\ open' = open \ {h.out}
      /\ conn' = [conn EXCEPT ![c] = Active(conn[c])]
      /\ waiting' = c /\ pc' = "waitpid"
      /\ UNCHANGED <<listenFds, cgiFds, finished>>
  BY <1>1 DEF OnCgiEndsEarly, LoopInv, TypeInv, TypeOK, Handler
<1>3. g \in Handler /\ g # NULL /\ g.in = h.in /\ g.out = NoFd
  BY <1>1, HandlerTypes, NullTypes DEF Handler
<1>4. cgi'[c] = g /\ \A d \in Fd \ {c} : cgi'[d] = cgi[d]
  BY <1>1, <1>2 DEF LoopInv, TypeInv, TypeOK
<1>5. /\ conn'[c] # NULL /\ conn'[c].state = "CGI"
      /\ \A d \in Fd \ {c} : conn'[d] = conn[d]
  <2>1. Active(conn[c]) \in Conn /\ Active(conn[c]).state = conn[c].state
    BY <1>1, ConnTypes DEF Active, Conn
  <2>. QED  BY <1>1, <1>2, <2>1, NullTypes DEF LoopInv, TypeInv, TypeOK
<1>6. Pipes(c) = {h.in, h.out} \ {NoFd} /\ (h.in = NoFd \/ h.in # h.out)
      /\ Pipes(c) \subseteq open
  BY <1>1, RunningPipes DEF LoopInv, FdOwnership
<1> HIDE DEF g
<1>7. Pipes(c)' = {h.in} \ {NoFd}
  BY <1>3, <1>4 DEF Pipes
<1>8. /\ Pipes(c)' \cap (open \ Pipes(c)) = {}
      /\ open' = (open \ Pipes(c)) \cup Pipes(c)'
  BY <1>1, <1>2, <1>6, <1>7
<1>9. /\ cgi'[c].in = cgi[c].in /\ cgi'[c] # NULL /\ cgi'[c].out = NoFd
      /\ cgi'[c].in = NoFd \/ cgi'[c].in # cgi'[c].out
  BY <1>3, <1>4
<1>. HIDE DEF c
<1>10. HandlerStep(e, c)
  BY <1>1, <1>2, <1>4, <1>5, <1>8, <1>9 DEF HandlerStep
<1>. QED  BY <1>10 DEF c

\* Steps that touch neither connections, handlers nor descriptors.
LEMMA QuietStep ==
    ASSUME LoopInv, TypeInv', pollFds' \subseteq pollFds, pc' = pc,
           finished \subseteq finished', finished' \subseteq Clients,
           finished' # {} => pc \in {"dispatch", "waitpid"},
           UNCHANGED <<listenFds, conn, cgi, cgiFds, waiting, open>>
    PROVE  LoopInv'
<1>1. FdOwnership'
  <2>1. Clients' = Clients /\ \A d \in Fd : Pipes(d)' = Pipes(d)
    BY DEF Clients, Pipes
  <2>. QED  BY <2>1 DEF LoopInv, FdOwnership
<1>2. NeverStranded'
  BY DEF LoopInv, NeverStranded, Clients, Scripted
<1>3. ASSUME NEW x \in pollFds', pc' \in {"dispatch", "waitpid"}
      PROVE  EntryIsCurrent(x)' /\ AheadOfDispatch(x)'
  <2>1. EntryIsCurrent(x) /\ AheadOfDispatch(x)
    BY <1>3 DEF LoopInv, EventsReachTheirOwner, RoundInv
  <2>. QED
    BY <2>1 DEF EntryIsCurrent, AheadOfDispatch, IsClient, IsPipe, Owner
<1>4. finished' \subseteq Clients'
  BY DEF Clients
<1>. QED
  BY <1>1, <1>2, <1>3, <1>4 DEF LoopInv, EventsReachTheirOwner, RoundInv

\* accept() gives a number nobody else has.
LEMMA AcceptStep ==
    ASSUME LoopInv, TypeInv', NEW e \in pollFds, AcceptNew(e)
    PROVE  LoopInv'
<1>1. PICK f \in Fd : /\ f \notin open /\ open' = open \cup {f}
                      /\ conn' = [conn EXCEPT ![f] = NewConnection]
                      /\ cgi' = [cgi EXCEPT ![f] = NULL]
  BY DEF AcceptNew, IsLowest
<1>2. /\ pc = "dispatch" /\ waiting = NoFd /\ pollFds' \subseteq pollFds
      /\ UNCHANGED <<pc, listenFds, cgiFds, finished, waiting>>
  BY DEF AcceptNew, Reach, LoopInv, NeverStranded
<1>3. conn[f] = NULL /\ cgi[f] = NULL /\ f \notin listenFds
      /\ \A d \in Fd : f \notin Pipes(d)
  BY <1>1 DEF LoopInv, FdOwnership, NeverStranded, Clients
<1>4. cgi' = cgi
  BY <1>1, <1>3 DEF LoopInv, TypeInv, TypeOK
<1>5. /\ conn'[f] # NULL /\ conn'[f].state = "READING"
      /\ \A d \in Fd \ {f} : conn'[d] = conn[d]
  <2>1. NewConnection \in Conn
    BY LimitsAssumption, TimeoutAssumption DEF Conn, NewConnection
  <2>2. conn'[f] = NewConnection /\ \A d \in Fd \ {f} : conn'[d] = conn[d]
    BY <1>1 DEF LoopInv, TypeInv, TypeOK
  <2>. QED  BY <2>1, <2>2, NullTypes DEF NewConnection
<1>6. Clients' = Clients \cup {f} /\ \A d \in Fd : Pipes(d)' = Pipes(d)
  BY <1>4, <1>5 DEF Clients, Pipes
<1>7. FdOwnership'
  BY <1>1, <1>2, <1>3, <1>4, <1>6 DEF LoopInv, FdOwnership
<1>8. NeverStranded'
  BY <1>2, <1>3, <1>4, <1>5 DEF LoopInv, NeverStranded, Clients, Scripted
<1>9. ASSUME NEW x \in pollFds'
      PROVE  EntryIsCurrent(x)' /\ AheadOfDispatch(x)'
  <2>1. EntryIsCurrent(x) /\ AheadOfDispatch(x) /\ x \in Entry
    BY <1>2 DEF LoopInv, EventsReachTheirOwner, RoundInv, TypeInv, TypeOK
  <2>2. x.fd \in Fd /\ x.owner \in Fd
        /\ x.role \in {"listener", "client", "stdout", "stdin"}
    BY <2>1 DEF Entry
  <2>3. /\ x.role = "client" => conn'[x.fd] = conn[x.fd]
        /\ x.role \in {"stdout", "stdin"} => conn'[x.owner] = conn[x.owner]
    BY <1>3, <1>5, <2>1, <2>2 DEF EntryIsCurrent, IsClient
  <2>. QED
    BY <1>2, <1>4, <2>1, <2>2, <2>3
    DEF EntryIsCurrent, AheadOfDispatch, IsClient, IsPipe, Owner
<1>10. finished' \subseteq Clients'
  BY <1>2, <1>6 DEF LoopInv, RoundInv
<1>. QED
  BY <1>7, <1>8, <1>9, <1>10 DEF LoopInv, EventsReachTheirOwner, RoundInv

\* Every event that dispatch() handles.
LEMMA DispatchStep ==
    ASSUME LoopInv, TypeInv', NEW e \in pollFds, Dispatch(e)
    PROVE  LoopInv'
<1>1. CASE AcceptNew(e)
  BY <1>1, AcceptStep
<1>2. CASE ClientHangup(e)
  <2>1. e.fd \in Clients /\ Reach(e)
    BY <1>2, ReachedClient DEF ClientHangup, IsClient, Clients
  <2>. QED
    BY <1>2, <2>1, QuietStep DEF ClientHangup, Reach, LoopInv, RoundInv
<1>3. CASE ToReadEnds(e) \/ ToReadMore(e) \/ ToReadAnswers(e)
           \/ ToReadScriptFails(e) \/ ToWrite(e)
  <2>1. Reach(e) /\ HandlerStep(e, e.owner)
    BY <1>3, PlainClientStep
    DEF ToReadEnds, ToReadMore, ToReadAnswers, ToReadScriptFails, ToWrite, Readable
  <2>. QED  BY <2>1, HandlerStepKeeps
<1>4. CASE ToReadStartsScript(e)
  <2>1. Reach(e) /\ HandlerStep(e, e.owner)
    BY <1>4, StartStep DEF ToReadStartsScript, Readable
  <2>. QED  BY <2>1, HandlerStepKeeps
<1>5. CASE OnCgiWritable(e) \/ OnCgiPrinted(e) \/ OnCgiEnds(e) \/ OnCgiEndsEarly(e)
  <2>1. Reach(e) /\ HandlerStep(e, e.owner)
    BY <1>5, WritableStep, PrintedStep, EndsStep, EndsEarlyStep
    DEF OnCgiWritable, OnCgiPrinted, OnCgiEnds, OnCgiEndsEarly, PipeEvent
  <2>. QED  BY <2>1, HandlerStepKeeps
<1>. QED  BY <1>1, <1>2, <1>3, <1>4, <1>5 DEF Dispatch

-----------------------------------------------------------------------------
(* The rest of the round.                                                   *)

\* When waitpid() returns, the client it was called for is still there.
LEMMA WaitpidStep ==
    ASSUME LoopInv, TypeInv', WaitpidReturns
    PROVE  LoopInv'
<1>1. PICK c \in Fd : c = waiting
  BY DEF WaitpidReturns, LoopInv, TypeInv, WaitsForScript
<1>2. /\ conn[c] \in Conn /\ conn[c] # NULL /\ cgi[c] # NULL
      /\ FinishCgi(c, conn[c])
      /\ pc = "waitpid" /\ pc' = "dispatch" /\ waiting' = NoFd
      /\ UNCHANGED <<listenFds, pollFds, cgiFds>>
  BY <1>1 DEF WaitpidReturns, LoopInv, TypeInv, TypeOK, WaitsForScript
<1>3. /\ cgi'[c] = NULL /\ Pipes(c)' = {}
      /\ \A d \in Fd \ {c} : conn'[d] = conn[d] /\ cgi'[d] = cgi[d]
      /\ conn'[c] # NULL /\ conn'[c].state = "WRITING"
      /\ open' = open \ Pipes(c) /\ finished' = finished
  BY <1>1, <1>2, Finished
<1>4. FdOwnership'
  BY <1>1, <1>2, <1>3, FdStep DEF LoopInv, TypeInv
<1>5. NeverStranded'
  <2>1. \A d \in Fd : cgi'[d] # NULL <=> (conn'[d] # NULL /\ conn'[d].state = "CGI")
    BY <1>1, <1>2, <1>3 DEF LoopInv, NeverStranded
  <2>2. ASSUME NEW d \in Fd, cgi'[d] # NULL
        PROVE  cgi'[d].out = NoFd <=> waiting' = d
    BY <1>1, <1>2, <1>3, <2>2 DEF LoopInv, NeverStranded, Scripted, Fd, NoFd
  <2>3. \A d \in Fd : conn'[d] # NULL /\ conn'[d].state = "DONE" => d \in finished'
    BY <1>1, <1>2, <1>3 DEF LoopInv, NeverStranded, Clients
  <2>. QED  BY <1>1, <1>2, <2>1, <2>2, <2>3 DEF NeverStranded, Clients, Scripted
<1>6. ASSUME NEW x \in pollFds'
      PROVE  EntryIsCurrent(x)' /\ AheadOfDispatch(x)'
  <2>1. EntryIsCurrent(x) /\ AheadOfDispatch(x) /\ x \in Entry
    BY <1>1, <1>2 DEF LoopInv, EventsReachTheirOwner, RoundInv, TypeInv, TypeOK
  <2>2. x.fd \in Fd /\ x.owner \in Fd /\ NoFd \notin Fd
        /\ x.role \in {"listener", "client", "stdout", "stdin"}
    BY <2>1 DEF Entry, Fd, NoFd
  <2>3. CASE x.role = "listener"
    BY <1>1, <1>2, <2>1, <2>3 DEF EntryIsCurrent, AheadOfDispatch
  <2>4. CASE x.role = "client"
    <3>1. conn'[x.fd] = conn[x.fd]
      BY <1>1, <1>3, <2>1, <2>2, <2>4 DEF AheadOfDispatch
    <3>. QED
      BY <1>1, <1>2, <2>1, <2>2, <2>4, <3>1 DEF EntryIsCurrent, AheadOfDispatch, IsClient
  <2>5. CASE x.role \in {"stdout", "stdin"}
    <3>1. conn'[x.owner] # NULL /\ conn'[x.owner].state # "READING"
      BY <1>1, <1>3, <2>1, <2>2, <2>5 DEF EntryIsCurrent, AheadOfDispatch
    <3>2. cgi'[x.owner] # NULL => x.owner # c /\ cgi'[x.owner] = cgi[x.owner]
      BY <1>1, <1>3, <2>2
    <3>. QED
      BY <1>1, <1>2, <2>1, <2>2, <2>5, <3>1, <3>2
      DEF EntryIsCurrent, AheadOfDispatch, IsPipe, Owner
  <2>. QED  BY <2>2, <2>3, <2>4, <2>5
<1>7. finished' \subseteq Clients'
  BY <1>1, <1>3 DEF LoopInv, RoundInv, Clients
<1>. QED
  BY <1>4, <1>5, <1>6, <1>7 DEF LoopInv, EventsReachTheirOwner, RoundInv

\* After the last entry, what was noted as finished is closed.
LEMMA EndDispatchStep ==
    ASSUME LoopInv, TypeInv', EndDispatch
    PROVE  LoopInv'
<1>1. /\ pc = "dispatch" /\ pc' = "clean" /\ finished' = {} /\ waiting = NoFd
      /\ CloseConnections(finished) /\ finished \subseteq Clients
      /\ UNCHANGED <<listenFds, waiting>>
  BY DEF EndDispatch, LoopInv, NeverStranded, RoundInv
<1>2. \A d \in Fd : /\ conn'[d] = IF d \in finished THEN NULL ELSE conn[d]
                    /\ cgi'[d] = IF d \in finished THEN NULL ELSE cgi[d]
  BY <1>1 DEF CloseConnections
<1>3. open' = open \ (finished \cup UNION {Pipes(d) : d \in finished})
  BY <1>1 DEF CloseConnections, ClosedOf
<1>4. FdOwnership'
  <2>1. finished \in SUBSET Fd
    BY DEF LoopInv, TypeInv, TypeOK
  <2>. QED  BY <1>1, <1>2, <1>3, <2>1, FdRelease DEF LoopInv, TypeInv
<1>5. NeverStranded'
  BY <1>1, <1>2 DEF LoopInv, NeverStranded, Clients, Scripted
<1>. QED  BY <1>1, <1>4, <1>5 DEF LoopInv, EventsReachTheirOwner, RoundInv

\* Closing what timed out takes a client with all its pipes, and no other.
LEMMA CleanStep ==
    ASSUME LoopInv, TypeInv', CleanConnectionInactive
    PROVE  LoopInv'
<1> DEFINE S == StaleClients
           T == TimedOutScripts
<1>1. /\ pc = "clean" /\ pc' = "head" /\ finished = {} /\ waiting = NoFd
      /\ UNCHANGED <<listenFds, cgiFds, finished, waiting>>
  BY DEF CleanConnectionInactive, LoopInv, NeverStranded
<1>2. /\ S \subseteq Clients /\ T \subseteq Clients /\ S \cap T = {}
      /\ \A d \in T : cgi[d] # NULL
      /\ \A d \in S : cgi[d] = NULL
      /\ Clients \subseteq Fd
  BY DEF StaleClients, TimedOutScripts, Clients
<1>3. ASSUME NEW d \in T
      PROVE  /\ Queued(conn[d]) \in Conn /\ Queued(conn[d]) # NULL
             /\ Queued(conn[d]).state = "WRITING"
  <2>1. conn[d] \in Conn
    BY <1>2 DEF LoopInv, TypeInv, TypeOK, Clients
  <2>2. Queued(conn[d]) \in Conn
    BY <2>1, ConnTypes
  <2>3. Queued(conn[d]).state = "WRITING"
    BY <2>1 DEF Queued, Conn
  <2>. QED  BY <2>2, <2>3, NullTypes
<1>4. \A d \in Fd : /\ conn'[d] = IF d \in T THEN Queued(conn[d])
                                  ELSE IF d \in S THEN NULL ELSE conn[d]
                    /\ cgi'[d] = IF d \in T THEN NULL ELSE cgi[d]
  BY <1>2 DEF CleanConnectionInactive
<1>5. open' = open \ (S \cup UNION {Pipes(d) : d \in T})
  BY DEF CleanConnectionInactive
<1>. HIDE DEF S, T
<1>6. FdOwnership'
  <2>1. \A d \in Fd : conn'[d] = NULL <=> (d \in S \/ conn[d] = NULL)
    BY <1>2, <1>3, <1>4 DEF Clients
  <2>2. T \in SUBSET Fd /\ S \in SUBSET Clients
    BY <1>2
  <2>. QED  BY <1>1, <1>4, <1>5, <2>1, <2>2, FdRelease DEF LoopInv, TypeInv
<1>7. NeverStranded'
  <2>1. ASSUME NEW d \in Fd
        PROVE  /\ cgi'[d] # NULL <=> (conn'[d] # NULL /\ conn'[d].state = "CGI")
               /\ conn'[d] # NULL => conn'[d].state # "DONE"
               /\ cgi'[d] # NULL => (cgi'[d].out = NoFd <=> waiting' = d)
    BY <1>1, <1>2, <1>3, <1>4 DEF LoopInv, NeverStranded, Clients, Scripted
  <2>. QED  BY <1>1, <2>1 DEF NeverStranded, Clients, Scripted
<1>. QED  BY <1>1, <1>6, <1>7 DEF LoopInv, EventsReachTheirOwner, RoundInv

\* What buildPollSet() enters is current: a number has one owner.
LEMMA BuildPollSetStep ==
    ASSUME LoopInv, TypeInv', BuildPollSet
    PROVE  LoopInv'
<1>1. /\ pc = "head" /\ pc' = "dispatch" /\ waiting = NoFd /\ finished = {}
      /\ UNCHANGED <<listenFds, conn, cgi, finished, waiting, open>>
      /\ cgiFds' = PipeOwners
  BY DEF BuildPollSet, LoopInv, NeverStranded
<1>2. Clients' = Clients /\ Scripted' = Scripted
      /\ \A d \in Fd : Pipes(d)' = Pipes(d)
  BY <1>1 DEF Clients, Scripted, Pipes
<1>3. FdOwnership'
  BY <1>1, <1>2 DEF LoopInv, FdOwnership
<1>4. NeverStranded'
  BY <1>1, <1>2 DEF LoopInv, NeverStranded, Clients, Scripted
<1>5. /\ Clients \subseteq Fd /\ listenFds \subseteq Fd /\ NoFd \notin Fd
      /\ listenFds \cap Clients = {}
      /\ \A d \in Fd : Pipes(d) \cap (listenFds \cup Clients) = {}
      /\ \A d \in Fd : \A y \in Fd \ {d} : Pipes(d) \cap Pipes(y) = {}
  BY DEF LoopInv, FdOwnership, TypeInv, TypeOK, Clients, Fd, NoFd
<1>6. \A f \in Fd : (\A c \in Clients : f \notin Pipes(c)) => cgiFds'[f] = NoFd
  BY <1>1 DEF PipeOwners
<1>7. ASSUME NEW c \in Clients, NEW f \in Fd, f \in Pipes(c)
      PROVE  cgiFds'[f] = c
  <2>1. cgiFds'[f] = CHOOSE d \in Clients : f \in Pipes(d)
    BY <1>1, <1>7 DEF PipeOwners
  <2>2. \A d \in Clients : f \in Pipes(d) => d = c
    BY <1>5, <1>7
  <2>. QED  BY <1>7, <2>1, <2>2
<1>8. ASSUME NEW x \in pollFds'
      PROVE  EntryIsCurrent(x)' /\ AheadOfDispatch(x)'
  <2>1. CASE \E l \in listenFds :
               x = [fd |-> l, events |-> "IN", role |-> "listener", owner |-> l]
    BY <1>1, <2>1 DEF EntryIsCurrent, AheadOfDispatch
  <2>2. CASE \E c \in Clients :
               x = [fd |-> c, events |-> ClientEvents(conn[c]), role |-> "client",
                    owner |-> c]
    <3>1. PICK c \in Clients :
            /\ x.fd = c /\ x.owner = c /\ x.role = "client"
            /\ x.events = ClientEvents(conn[c])
      BY <2>2
    <3>2. /\ c \notin listenFds /\ conn[c] # NULL /\ c \in Fd
          /\ \A d \in Clients : c \notin Pipes(d)
      BY <1>5 DEF Clients
    <3>3. cgiFds'[c] = NoFd
      BY <1>6, <3>2
    <3>. QED
      BY <1>1, <1>5, <3>1, <3>2, <3>3 DEF EntryIsCurrent, AheadOfDispatch, IsClient
  <2>3. CASE \E c \in Clients \cap Scripted :
               \/ /\ cgi[c].out # NoFd
                  /\ x = [fd |-> cgi[c].out, events |-> "IN", role |-> "stdout",
                          owner |-> c]
               \/ /\ cgi[c].in # NoFd
                  /\ x = [fd |-> cgi[c].in, events |-> "OUT", role |-> "stdin",
                          owner |-> c]
    <3>1. PICK c \in Clients \cap Scripted :
            /\ x.owner = c /\ x.fd # NoFd
            /\ \/ x.role = "stdout" /\ x.fd = cgi[c].out /\ x.events = "IN"
               \/ x.role = "stdin" /\ x.fd = cgi[c].in
      BY <2>3
    <3>2. c \in Fd /\ conn[c] # NULL /\ cgi[c] # NULL /\ cgi[c] \in Handler
      BY <3>1 DEF Clients, Scripted, LoopInv, TypeInv, TypeOK
    <3>3. x.fd \in Pipes(c) /\ x.fd \in Fd
      BY <3>1, <3>2 DEF Pipes, Handler
    <3>4. cgiFds'[x.fd] = c /\ x.fd \notin listenFds
      BY <1>5, <1>7, <3>2, <3>3
    <3>5. conn[c].state # "READING"
      BY <3>2 DEF LoopInv, NeverStranded
    <3>6. IsPipe(x.fd)' /\ Owner(x)' = x.owner
      BY <1>1, <1>5, <3>1, <3>2, <3>4 DEF IsPipe, Owner
    <3>7. conn'[x.owner] # NULL /\ conn'[x.owner].state # "READING"
      BY <1>1, <3>1, <3>2, <3>5
    <3>. QED
      BY <1>1, <3>1, <3>6, <3>7 DEF EntryIsCurrent, AheadOfDispatch
  <2>. QED  BY <2>1, <2>2, <2>3 DEF BuildPollSet
<1>9. finished' \subseteq Clients'
  BY <1>1
<1>. QED
  BY <1>3, <1>4, <1>8, <1>9 DEF LoopInv, EventsReachTheirOwner, RoundInv

\* A listener is a descriptor of its own.
LEMMA ListenStep ==
    ASSUME LoopInv, TypeInv', CreateListenSocket
    PROVE  LoopInv'
<1>1. PICK f \in Fd : /\ f \notin open /\ open' = open \cup {f}
                      /\ listenFds' = listenFds \cup {f}
  BY DEF CreateListenSocket, IsLowest
<1>2. /\ pc = "boot" /\ pc' \in {"head", "boot"} /\ waiting = NoFd /\ finished = {}
      /\ UNCHANGED <<conn, cgi, finished, waiting>>
  BY DEF CreateListenSocket, LoopInv, NeverStranded
<1>3. Clients' = Clients /\ Scripted' = Scripted
      /\ \A d \in Fd : Pipes(d)' = Pipes(d)
  BY <1>2 DEF Clients, Scripted, Pipes
<1>4. FdOwnership'
  BY <1>1, <1>2, <1>3 DEF LoopInv, FdOwnership
<1>5. NeverStranded'
  BY <1>2, <1>3 DEF LoopInv, NeverStranded, Clients, Scripted
<1>. QED  BY <1>2, <1>4, <1>5 DEF LoopInv, EventsReachTheirOwner, RoundInv

\* The destructor closes exactly what is open.
LEMMA DestructorCloses ==
    ASSUME LoopInv, Destructor
    PROVE  open' = {} /\ listenFds' = {}
           /\ \A c \in Fd : conn'[c] = NULL /\ cgi'[c] = NULL
<1>1. \A c \in Fd : c \notin Clients => Pipes(c) = {}
  BY DEF LoopInv, NeverStranded, Clients, Pipes
<1>2. open = listenFds \cup Clients \cup UNION {Pipes(c) : c \in Fd}
      /\ Clients \subseteq Fd
  BY DEF LoopInv, FdOwnership, Clients
<1>3. open \subseteq ClosedAtExit
  BY <1>1, <1>2 DEF ClosedAtExit, ClosedOf
<1>. QED  BY <1>3 DEF Destructor

\* The destructor closes whatever is open.
LEMMA DestructorStep ==
    ASSUME LoopInv, TypeInv', Destructor, pc \in {"boot", "head"}
    PROVE  LoopInv'
<1>1. /\ open' = {} /\ listenFds' = {}
      /\ \A c \in Fd : conn'[c] = NULL /\ cgi'[c] = NULL
  BY DestructorCloses
<1>2. /\ pc' = "down" /\ waiting = NoFd /\ finished = {}
      /\ finished' = {} /\ waiting' = NoFd
  BY DEF Destructor, LoopInv, NeverStranded
<1>3. Clients' = {} /\ Scripted' = {} /\ \A c \in Fd : Pipes(c)' = {}
  BY <1>1 DEF Clients, Scripted, Pipes
<1>4. FdOwnership'
  BY <1>1, <1>3 DEF FdOwnership
<1>5. NeverStranded'
  BY <1>1, <1>2, <1>3 DEF NeverStranded
<1>. QED  BY <1>2, <1>4, <1>5 DEF LoopInv, EventsReachTheirOwner, RoundInv

\* A tick only ages what is there.
LEMMA Aged ==
    ASSUME TypeInv, Tick, NEW c \in Fd
    PROVE  /\ conn'[c] = NULL <=> conn[c] = NULL
           /\ cgi'[c] = NULL <=> cgi[c] = NULL
           /\ conn[c] # NULL => /\ conn'[c].state = conn[c].state
                                /\ conn'[c].left = conn[c].left
                                /\ conn'[c].answers = conn[c].answers
                                /\ conn'[c].idle
                                     = Older(conn[c].idle, ConnectionTimeout)
           /\ cgi[c] # NULL => /\ cgi'[c].in = cgi[c].in /\ cgi'[c].out = cgi[c].out
                               /\ cgi'[c].pid = cgi[c].pid
                               /\ cgi'[c].stall = Older(cgi[c].stall, ConnectionTimeout)
<1>1. ASSUME conn[c] # NULL
      PROVE  /\ conn'[c] # NULL /\ conn'[c].state = conn[c].state
             /\ conn'[c].left = conn[c].left /\ conn'[c].answers = conn[c].answers
             /\ conn'[c].idle = Older(conn[c].idle, ConnectionTimeout)
  <2>1. conn[c] \in Conn
    BY <1>1 DEF TypeInv, TypeOK
  <2>2. [conn[c] EXCEPT !.idle = Older(@, ConnectionTimeout)] \in Conn
    BY <2>1, ConnTypes
  <2>3. conn'[c] = [conn[c] EXCEPT !.idle = Older(@, ConnectionTimeout)]
    BY <1>1 DEF Tick
  <2>. QED  BY <2>1, <2>2, <2>3, NullTypes DEF Conn
<1>2. ASSUME cgi[c] # NULL
      PROVE  /\ cgi'[c] # NULL /\ cgi'[c].in = cgi[c].in
             /\ cgi'[c].out = cgi[c].out /\ cgi'[c].pid = cgi[c].pid
             /\ cgi'[c].stall = Older(cgi[c].stall, ConnectionTimeout)
  <2>1. cgi[c] \in Handler
    BY <1>2 DEF TypeInv, TypeOK
  <2>2. [cgi[c] EXCEPT !.stall = Older(@, ConnectionTimeout)] \in Handler
    BY <2>1, HandlerTypes
  <2>3. cgi'[c] = [cgi[c] EXCEPT !.stall = Older(@, ConnectionTimeout)]
    BY <1>2 DEF Tick
  <2>. QED  BY <2>1, <2>2, <2>3, NullTypes DEF Handler
<1>3. (conn[c] = NULL => conn'[c] = NULL) /\ (cgi[c] = NULL => cgi'[c] = NULL)
  BY DEF Tick
<1>. QED  BY <1>1, <1>2, <1>3

\* A second changes ages only.
LEMMA TickStep ==
    ASSUME LoopInv, TypeInv', Tick
    PROVE  LoopInv'
<1>1. UNCHANGED <<pc, listenFds, pollFds, cgiFds, finished, waiting, open>>
  BY DEF Tick
<1>2. \A c \in Fd :
        /\ conn'[c] = NULL <=> conn[c] = NULL
        /\ cgi'[c] = NULL <=> cgi[c] = NULL
        /\ conn[c] # NULL => conn'[c].state = conn[c].state
        /\ cgi[c] # NULL => cgi'[c].in = cgi[c].in /\ cgi'[c].out = cgi[c].out
  BY Aged DEF LoopInv
<1>3. Clients' = Clients /\ Scripted' = Scripted
      /\ \A d \in Fd : Pipes(d)' = Pipes(d)
  BY <1>2 DEF Clients, Scripted, Pipes
<1>4. FdOwnership'
  <2>1. \A c \in Fd : cgi'[c] # NULL => cgi'[c].in = NoFd \/ cgi'[c].in # cgi'[c].out
    BY <1>2 DEF LoopInv, FdOwnership
  <2>. QED  BY <1>1, <1>3, <2>1 DEF LoopInv, FdOwnership
<1>5. NeverStranded'
  <2>1. Clients \subseteq Fd /\ Scripted \subseteq Fd
        /\ (\A c \in Clients : conn[c] # NULL) /\ \A c \in Scripted : cgi[c] # NULL
    BY DEF Clients, Scripted
  <2>2. \A c \in Fd : cgi'[c] # NULL <=> (conn'[c] # NULL /\ conn'[c].state = "CGI")
    BY <1>2 DEF LoopInv, NeverStranded
  <2>3. \A c \in Scripted' : cgi'[c].out = NoFd <=> waiting' = c
    BY <1>1, <1>2, <1>3, <2>1 DEF LoopInv, NeverStranded
  <2>4. \A c \in Clients' : conn'[c].state = "DONE" => c \in finished'
    BY <1>1, <1>2, <1>3, <2>1 DEF LoopInv, NeverStranded
  <2>. QED  BY <1>1, <2>2, <2>3, <2>4 DEF LoopInv, NeverStranded
<1>6. ASSUME NEW x \in pollFds', pc' \in {"dispatch", "waitpid"}
      PROVE  EntryIsCurrent(x)' /\ AheadOfDispatch(x)'
  <2>1. EntryIsCurrent(x) /\ AheadOfDispatch(x) /\ x \in Entry
    BY <1>1, <1>6 DEF LoopInv, EventsReachTheirOwner, RoundInv, TypeInv, TypeOK
  <2>2. x.fd \in Fd /\ x.owner \in Fd
    BY <2>1 DEF Entry
  <2>3. conn[x.fd] # NULL => ClientEvents(conn'[x.fd]) = ClientEvents(conn[x.fd])
    BY <1>2, <2>2 DEF ClientEvents
  <2>4. x.role \in {"listener", "client", "stdout", "stdin"}
    BY <2>1 DEF Entry
  <2>5. CASE x.role = "listener"
    BY <1>1, <2>1, <2>5 DEF EntryIsCurrent, AheadOfDispatch
  <2>6. CASE x.role = "client"
    BY <1>1, <1>2, <2>1, <2>2, <2>3, <2>6
    DEF EntryIsCurrent, AheadOfDispatch, IsClient
  <2>7. CASE x.role \in {"stdout", "stdin"}
    BY <1>1, <1>2, <2>1, <2>2, <2>7
    DEF EntryIsCurrent, AheadOfDispatch, IsPipe, Owner
  <2>. QED  BY <2>4, <2>5, <2>6, <2>7
<1>7. finished' \subseteq Clients'
  BY <1>1, <1>3 DEF LoopInv, RoundInv
<1>. QED
  BY <1>4, <1>5, <1>6, <1>7 DEF LoopInv, EventsReachTheirOwner, RoundInv

-----------------------------------------------------------------------------
(* The invariant of the loop.                                               *)

\* At the start nothing is open.
LEMMA LoopInit == Init => LoopInv
<1>. SUFFICES ASSUME Init PROVE LoopInv
  OBVIOUS
<1>1. TypeInv
  BY TypeInit
<1>2. Clients = {} /\ Scripted = {} /\ \A c \in Fd : Pipes(c) = {}
  BY DEF Init, Clients, Scripted, Pipes
<1>3. FdOwnership
  BY <1>2 DEF Init, FdOwnership
<1>4. NeverStranded
  BY <1>2 DEF Init, NeverStranded, Scripted
<1>. QED
  BY <1>1, <1>3, <1>4 DEF Init, LoopInv, EventsReachTheirOwner, RoundInv

\* Every step of the loop keeps the invariant,
LEMMA LoopStep == LoopInv /\ [Next]_vars => LoopInv'
<1>. SUFFICES ASSUME LoopInv, [Next]_vars PROVE LoopInv'
  OBVIOUS
<1>1. TypeInv'
  BY TypeStep DEF LoopInv
<1>2. CASE CreateListenSocket
  BY <1>1, <1>2, ListenStep
<1>3. CASE BootFails \/ Shutdown
  BY <1>1, <1>3, DestructorStep DEF BootFails, Shutdown
<1>4. CASE BuildPollSet
  BY <1>1, <1>4, BuildPollSetStep
<1>5. CASE EndDispatch
  BY <1>1, <1>5, EndDispatchStep
<1>6. CASE CleanConnectionInactive
  BY <1>1, <1>6, CleanStep
<1>7. CASE \E e \in pollFds : Dispatch(e)
  BY <1>1, <1>7, DispatchStep
<1>8. CASE WaitpidReturns
  BY <1>1, <1>8, WaitpidStep
<1>9. CASE Tick
  BY <1>1, <1>9, TickStep
<1>10. CASE (\E p \in Pid : ScriptExits(p)) \/ Sigint \/ Terminated \/ UNCHANGED vars
  <2>1. UNCHANGED <<pc, listenFds, conn, cgi, pollFds, cgiFds, finished, waiting,
                    open>>
    BY <1>10 DEF ScriptExits, Sigint, Terminated, vars
  <2>2. finished \subseteq Clients /\ (finished # {} => pc \in {"dispatch", "waitpid"})
    BY DEF LoopInv, RoundInv, NeverStranded
  <2>. QED  BY <1>1, <2>1, <2>2, QuietStep
<1>. QED
  BY <1>2, <1>3, <1>4, <1>5, <1>6, <1>7, <1>8, <1>9, <1>10 DEF Next, ServerStep

\* so it holds in every state.
LEMMA LoopInvariant == Spec => []LoopInv
BY LoopInit, LoopStep, PTL DEF Spec

\* No path of accept(), of a start() that fails half way, of finishCgi, abortCgi,
\* closeConnection or the destructor leaks a descriptor or closes another's.
THEOREM DescriptorsAreOwned == Spec => []FdOwnership
<1>1. LoopInv => FdOwnership
  BY DEF LoopInv
<1>. QED  BY <1>1, LoopInvariant, PTL

\* A client has a script exactly while it waits for one, whose output is watched.
THEOREM NobodyIsStranded == Spec => []NeverStranded
<1>1. LoopInv => NeverStranded
  BY DEF LoopInv
<1>. QED  BY <1>1, LoopInvariant, PTL

\* dispatch() hands every event to whom buildPollSet() polled it for, whatever
\* was closed and opened under the same number since.
THEOREM EventsAreNotMisrouted == Spec => []EventsReachTheirOwner
<1>1. LoopInv => EventsReachTheirOwner
  BY DEF LoopInv
<1>. QED  BY <1>1, LoopInvariant, PTL

=============================================================================
