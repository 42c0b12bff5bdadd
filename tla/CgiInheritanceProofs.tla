----------------------- MODULE CgiInheritanceProofs -----------------------
(***************************************************************************)
(* For any number of clients, scripts and write() calls: a script's input  *)
(* is held open by later scripts only, its output by nobody else, and an   *)
(* empty input ends at once.                                               *)
(*                                                                         *)
(* None of the three is inductive.  That a copy is only ever held by a     *)
(* script started later rests on the counting of the scripts (Counted) and *)
(* on a script not yet started having no pipes (NoPipesYet); that nobody   *)
(* holds more than what fork() gave him, on Server being in writers[c]     *)
(* only while a part of the body is left (ServerFeeds).                    *)
(***************************************************************************)
EXTENDS CgiInheritance, TLAPS

\* Scripts are numbered in the order they were started.
Counted ==
    \A c \in Client : birth[c] <= forks /\ (process[c] = "none" => birth[c] = 0)

NoPipesYet ==
    \A c \in Client : process[c] = "none" => writers[c] = {} /\ printers[c] = {}

\* What has ended holds nothing.
HoldersLive ==
    \A c, d \in Client : d \in writers[c] \cup printers[c] \cup sockets[c] => Alive(d)

\* The server keeps the write end of a script's stdin only to feed it.
ServerFeeds ==
    \A c \in Client :
      Server \in writers[c] => client[c] = "waiting" /\ Unreaped(c) /\ unsent[c] > 0

FedInParts == \A c \in Client : unsent[c] <= body[c]

\* An empty input is never handed to anybody but the script itself.
EmptyNotHandedOn == \A c \in Client : body[c] = 0 => writers[c] \subseteq {c}

IInv ==
    /\ TypeOK /\ Counted /\ NoPipesYet /\ HoldersLive /\ ServerFeeds /\ FedInParts
    /\ EmptyNotHandedOn /\ InputHeldByLater /\ OutputEndsWithScript

-----------------------------------------------------------------------------
(* Every action keeps the invariant.                                        *)

\* A new connection: only its socket is opened.
LEMMA AcceptKeeps ==
    ASSUME IInv, NEW c \in Client, Accept(c) PROVE IInv'
<1>1. TypeOK'
  BY DEF IInv, TypeOK, pipes, Process, Accept
<1>2. HoldersLive'
  BY InheritanceAssumption DEF IInv, HoldersLive, pipes, Alive, Accept
<1>3. ServerFeeds'
  BY DEF IInv, ServerFeeds, pipes, Unreaped, Accept
<1>4. /\ Counted' /\ NoPipesYet' /\ FedInParts'
      /\ EmptyNotHandedOn' /\ InputHeldByLater' /\ OutputEndsWithScript'
  BY DEF IInv, Counted, NoPipesYet, FedInParts, EmptyNotHandedOn,
     InputHeldByLater, OutputEndsWithScript, Alive, pipes, Accept
<1>. QED  BY <1>1, <1>2, <1>3, <1>4 DEF IInv

\* A request that is answered without a script changes no descriptor.
LEMMA AnswerDirectlyKeeps ==
    ASSUME IInv, NEW c \in Client, AnswerDirectly(c) PROVE IInv'
<1>1. TypeOK'
  BY DEF IInv, TypeOK, pipes, AnswerDirectly
<1>2. ServerFeeds'
  BY DEF IInv, ServerFeeds, pipes, Unreaped, AnswerDirectly
<1>3. /\ Counted' /\ NoPipesYet' /\ HoldersLive' /\ FedInParts'
      /\ EmptyNotHandedOn' /\ InputHeldByLater' /\ OutputEndsWithScript'
  BY DEF IInv, Counted, NoPipesYet, HoldersLive, FedInParts, EmptyNotHandedOn,
     InputHeldByLater, OutputEndsWithScript, Alive, pipes, AnswerDirectly
<1>. QED  BY <1>1, <1>2, <1>3 DEF IInv

\* fork(): what the child gets is what the server holds, and it was started last.
LEMMA StartCgiKeeps ==
    ASSUME IInv, NEW c \in Client, StartCgi(c) PROVE IInv'
<1>1. TypeOK'
  <2>1. ASSUME NEW ends \in [Client -> SUBSET Process]
        PROVE  Inherited(ends, c) \in [Client -> SUBSET Process]
    BY DEF Inherited, Process
  <2>2. NewStdin(c) \in [Client -> SUBSET Process]
    BY DEF IInv, TypeOK, NewStdin, Process
  <2>3. NewStdout(c) \in [Client -> SUBSET Process]
    BY DEF IInv, TypeOK, NewStdout, Process
  <2>4. writers' \in [Client -> SUBSET Process]
    BY <2>1, <2>2 DEF StartCgi, CloseEmpty, Closed
  <2>5. printers' \in [Client -> SUBSET Process]
    BY <2>1, <2>3 DEF StartCgi, CloseOutPipe, Closed
  <2>6. sockets' \in [Client -> SUBSET Process]
    BY <2>1 DEF IInv, TypeOK, StartCgi
  <2>7. forks' \in Nat /\ birth' \in [Client -> Nat]
    BY DEF IInv, TypeOK, StartCgi
  <2>8. body' \in [Client -> 0 .. MaxBody] /\ unsent' \in [Client -> 0 .. MaxBody]
    BY DEF IInv, TypeOK, StartCgi
  <2>9. process' \in [Client -> {"none", "forked", "running", "exited", "reaped"}]
    BY DEF IInv, TypeOK, StartCgi
  <2>. QED  BY <2>4, <2>5, <2>6, <2>7, <2>8, <2>9 DEF IInv, TypeOK, StartCgi
<1>2. Counted'
  BY DEF IInv, TypeOK, Counted, StartCgi
<1>3. NoPipesYet'
  BY DEF IInv, TypeOK, NoPipesYet, StartCgi, NewStdin, NewStdout, Inherited,
     CloseEmpty, CloseOutPipe, Closed
<1>4. HoldersLive'
  BY InheritanceAssumption DEF IInv, TypeOK, HoldersLive, Alive, StartCgi,
     NewStdin, NewStdout, Inherited, CloseEmpty, CloseOutPipe, Closed
<1>5. ServerFeeds'
  BY DEF IInv, TypeOK, ServerFeeds, Unreaped, StartCgi, NewStdin, Inherited,
     CloseEmpty, Closed
<1>6. FedInParts'
  BY DEF IInv, TypeOK, FedInParts, StartCgi
<1>7. EmptyNotHandedOn'
  BY InheritanceAssumption DEF IInv, TypeOK, EmptyNotHandedOn, StartCgi,
     NewStdin, Inherited, CloseEmpty, Closed
<1>8. InputHeldByLater'
  BY InheritanceAssumption DEF IInv, TypeOK, Counted, InputHeldByLater, Alive,
     StartCgi, NewStdin, Inherited, CloseEmpty, Closed
<1>9. OutputEndsWithScript'
  BY InheritanceAssumption DEF IInv, OutputEndsWithScript, StartCgi, NewStdout,
     Inherited, CloseOutPipe, Closed
<1>. QED  BY <1>1, <1>2, <1>3, <1>4, <1>5, <1>6, <1>7, <1>8, <1>9 DEF IInv

\* The server holds the input of a script only while a part is left.
LEMMA OnCgiWritableKeeps ==
    ASSUME IInv, NEW c \in Client, OnCgiWritable(c) PROVE IInv'
<1>1. TypeOK'
  BY InheritanceAssumption DEF IInv, TypeOK, ServerFeeds, OnCgiWritable, Fed,
     Closed
<1>2. NoPipesYet'
  BY DEF IInv, NoPipesYet, OnCgiWritable, Closed
<1>3. HoldersLive'
  BY DEF IInv, HoldersLive, Alive, OnCgiWritable, Closed
<1>4. ServerFeeds'
  BY DEF IInv, TypeOK, ServerFeeds, Unreaped, OnCgiWritable, Fed, Closed
<1>5. FedInParts'
  BY DEF IInv, TypeOK, FedInParts, OnCgiWritable, Fed
<1>6. EmptyNotHandedOn'
  BY DEF IInv, EmptyNotHandedOn, OnCgiWritable, Closed
<1>7. InputHeldByLater'
  BY DEF IInv, InputHeldByLater, Alive, OnCgiWritable, Closed
<1>8. Counted' /\ OutputEndsWithScript'
  BY DEF IInv, Counted, OutputEndsWithScript, OnCgiWritable
<1>. QED  BY <1>1, <1>2, <1>3, <1>4, <1>5, <1>6, <1>7, <1>8 DEF IInv

\* A script that no longer reads: the server closes its end.
LEMMA OnCgiBrokenKeeps ==
    ASSUME IInv, NEW c \in Client, OnCgiBroken(c) PROVE IInv'
<1>1. TypeOK'
  BY DEF IInv, TypeOK, OnCgiBroken, Closed
<1>2. NoPipesYet'
  BY DEF IInv, NoPipesYet, OnCgiBroken, Closed
<1>3. HoldersLive'
  BY DEF IInv, HoldersLive, Alive, OnCgiBroken, Closed
<1>4. ServerFeeds'
  BY DEF IInv, ServerFeeds, Unreaped, OnCgiBroken, Closed
<1>5. EmptyNotHandedOn'
  BY DEF IInv, EmptyNotHandedOn, OnCgiBroken, Closed
<1>6. InputHeldByLater'
  BY DEF IInv, InputHeldByLater, Alive, OnCgiBroken, Closed
<1>7. Counted' /\ FedInParts' /\ OutputEndsWithScript'
  BY DEF IInv, Counted, FedInParts, OutputEndsWithScript, OnCgiBroken
<1>. QED  BY <1>1, <1>2, <1>3, <1>4, <1>5, <1>6, <1>7 DEF IInv

\* Output changes no descriptor.
LEMMA OnCgiPrintedKeeps ==
    ASSUME IInv, NEW c \in Client, OnCgiPrinted(c) PROVE IInv'
<1>1. TypeOK'
  BY InheritanceAssumption DEF IInv, TypeOK, pipes, OnCgiPrinted
<1>2. /\ Counted' /\ NoPipesYet' /\ HoldersLive' /\ ServerFeeds'
      /\ FedInParts' /\ EmptyNotHandedOn' /\ InputHeldByLater' /\ OutputEndsWithScript'
  BY DEF IInv, Counted, NoPipesYet, HoldersLive, ServerFeeds, FedInParts,
     EmptyNotHandedOn, InputHeldByLater, OutputEndsWithScript, Alive, Unreaped,
     pipes, OnCgiPrinted
<1>. QED  BY <1>1, <1>2 DEF IInv

\* With its handler goes what a script held, and the end of its input in the server.
LEMMA ScriptGone ==
    ASSUME IInv, NEW c \in Client, Ends(c), writers' = HandlerGone(c), Forgotten(c),
           UNCHANGED <<forks, birth, body>>, Unreaped(c),
           \E s \in {"answered", "closed"} : client' = [client EXCEPT ![c] = s],
           sockets' \in [Client -> SUBSET Process],
           \A e \in Client : sockets'[e] \subseteq sockets[e] \ {c}
    PROVE  IInv'
<1>1. TypeOK'
  <2>1. writers' \in [Client -> SUBSET Process] /\ printers' \in [Client -> SUBSET Process]
    BY DEF IInv, TypeOK, Ends, HandlerGone, Closed, Released
  <2>2. client' \in [Client -> {"none", "waiting", "answered", "closed"}]
    BY DEF IInv, TypeOK
  <2>3. /\ process' \in [Client -> {"none", "forked", "running", "exited", "reaped"}]
        /\ unsent' \in [Client -> 0 .. MaxBody]
        /\ stall' \in [Client -> 0 .. (CgiTimeout + 1)]
    BY InheritanceAssumption DEF IInv, TypeOK, Ends, Forgotten
  <2>. QED  BY <2>1, <2>2, <2>3 DEF IInv, TypeOK
<1>2. Counted'
  BY DEF IInv, Counted, Ends
<1>3. NoPipesYet'
  BY DEF IInv, NoPipesYet, Ends, HandlerGone, Closed, Released
<1>4. HoldersLive'
  BY DEF IInv, HoldersLive, Alive, Ends, HandlerGone, Closed, Released
<1>5. ServerFeeds'
  BY DEF IInv, ServerFeeds, Unreaped, Ends, HandlerGone, Forgotten, Closed, Released
<1>6. FedInParts'
  BY DEF IInv, TypeOK, FedInParts, Forgotten
<1>7. EmptyNotHandedOn'
  BY DEF IInv, EmptyNotHandedOn, HandlerGone, Closed, Released
<1>8. InputHeldByLater'
  BY DEF IInv, InputHeldByLater, Alive, Ends, HandlerGone, Closed, Released
<1>9. OutputEndsWithScript'
  BY DEF IInv, OutputEndsWithScript, Ends, Released
<1>. QED  BY <1>1, <1>2, <1>3, <1>4, <1>5, <1>6, <1>7, <1>8, <1>9 DEF IInv

\* The end of a script: it was reaped, and its pipes are closed.
LEMMA OnCgiEndsKeeps ==
    ASSUME IInv, NEW c \in Client, OnCgiEnds(c) PROVE IInv'
<1>1. \A e \in Client : c \notin sockets[e]
  BY DEF IInv, HoldersLive, Alive, OnCgiEnds
<1>. QED
  BY <1>1, ScriptGone DEF IInv, TypeOK, OnCgiEnds, Unreaped

\* A script that is killed.
LEMMA AbortCgiKeeps ==
    ASSUME IInv, NEW c \in Client, AbortCgi(c) PROVE IInv'
<1>1. /\ sockets' \in [Client -> SUBSET Process]
      /\ \A e \in Client : sockets'[e] \subseteq sockets[e] \ {c}
  BY DEF IInv, TypeOK, AbortCgi, ScriptKilled, Released
<1>. QED  BY <1>1, ScriptGone DEF AbortCgi, ScriptKilled, TimedOut

\* A client that goes away, with or without a script.
LEMMA HangUpKeeps ==
    ASSUME IInv, NEW c \in Client, HangUp(c) PROVE IInv'
<1>1. CASE process[c] \in {"none", "reaped"}
  <2>1. UNCHANGED <<process, writers, printers>> /\ sockets' = Closed(sockets, c, Server)
    BY <1>1 DEF HangUp, pipes
  <2>2. TypeOK'
    BY <2>1, InheritanceAssumption DEF IInv, TypeOK, HangUp, Forgotten, Closed
  <2>3. HoldersLive'
    BY <2>1 DEF IInv, HoldersLive, Alive, Closed
  <2>4. ServerFeeds'
    BY <1>1, <2>1 DEF IInv, ServerFeeds, Unreaped, HangUp, Forgotten
  <2>5. FedInParts'
    BY DEF IInv, TypeOK, FedInParts, HangUp, Forgotten
  <2>6. /\ Counted' /\ NoPipesYet' /\ EmptyNotHandedOn' /\ InputHeldByLater'
        /\ OutputEndsWithScript'
    BY <2>1 DEF IInv, Counted, NoPipesYet, EmptyNotHandedOn, InputHeldByLater,
       OutputEndsWithScript, Alive, HangUp
  <2>. QED  BY <2>2, <2>3, <2>4, <2>5, <2>6 DEF IInv
<1>2. CASE process[c] \notin {"none", "reaped"}
  <2>1. Unreaped(c)
    BY <1>2 DEF IInv, TypeOK, Unreaped
  <2>2. sockets' = Closed(Released(sockets, c), c, Server)
    BY <1>2 DEF HangUp
  <2>3. /\ sockets' \in [Client -> SUBSET Process]
        /\ \A e \in Client : sockets'[e] \subseteq sockets[e] \ {c}
    BY <2>2 DEF IInv, TypeOK, Closed, Released
  <2>. QED  BY <1>2, <2>1, <2>3, ScriptGone DEF HangUp
<1>. QED  BY <1>1, <1>2

\* A connection that is closed after its answer.
LEMMA CloseConnectionKeeps ==
    ASSUME IInv, NEW c \in Client, CloseConnection(c) PROVE IInv'
<1>1. TypeOK'
  BY DEF IInv, TypeOK, pipes, CloseConnection, Closed
<1>2. HoldersLive'
  BY DEF IInv, HoldersLive, pipes, Alive, CloseConnection, Closed
<1>3. ServerFeeds'
  BY DEF IInv, ServerFeeds, pipes, Unreaped, CloseConnection
<1>4. /\ Counted' /\ NoPipesYet' /\ FedInParts'
      /\ EmptyNotHandedOn' /\ InputHeldByLater' /\ OutputEndsWithScript'
  BY DEF IInv, Counted, NoPipesYet, FedInParts, EmptyNotHandedOn,
     InputHeldByLater, OutputEndsWithScript, Alive, pipes, CloseConnection
<1>. QED  BY <1>1, <1>2, <1>3, <1>4 DEF IInv

\* A child that closes the ends of its pipes it was forked with.
LEMMA ChildClosesKeeps ==
    ASSUME IInv, NEW c \in Client, ChildCloses(c) PROVE IInv'
<1>1. TypeOK'
  BY DEF IInv, TypeOK, ChildCloses, ClosesInPipe, Closed
<1>2. Counted'
  BY DEF IInv, Counted, ChildCloses
<1>3. NoPipesYet'
  BY DEF IInv, NoPipesYet, ChildCloses, ClosesInPipe, Closed
<1>4. HoldersLive'
  BY DEF IInv, HoldersLive, Alive, ChildCloses, ClosesInPipe, Closed
<1>5. ServerFeeds'
  BY DEF IInv, ServerFeeds, Unreaped, ChildCloses, ClosesInPipe, Closed
<1>6. EmptyNotHandedOn'
  BY DEF IInv, EmptyNotHandedOn, ChildCloses, ClosesInPipe, Closed
<1>7. InputHeldByLater'
  BY DEF IInv, TypeOK, InputHeldByLater, Alive, ChildCloses, ClosesInPipe,
     Closed
<1>8. FedInParts' /\ OutputEndsWithScript'
  BY DEF IInv, FedInParts, OutputEndsWithScript, ChildCloses
<1>. QED  BY <1>1, <1>2, <1>3, <1>4, <1>5, <1>6, <1>7, <1>8 DEF IInv

\* exit() closes everything the script held.
LEMMA ScriptExitsKeeps ==
    ASSUME IInv, NEW c \in Client, ScriptExits(c) PROVE IInv'
<1>1. TypeOK'
  BY DEF IInv, TypeOK, ScriptExits, Released
<1>2. Counted'
  BY DEF IInv, Counted, ScriptExits
<1>3. NoPipesYet'
  BY DEF IInv, NoPipesYet, ScriptExits, Released
<1>4. HoldersLive'
  BY DEF IInv, HoldersLive, Alive, ScriptExits, Released
<1>5. ServerFeeds'
  BY DEF IInv, ServerFeeds, Unreaped, ScriptExits, Released
<1>6. EmptyNotHandedOn'
  BY DEF IInv, EmptyNotHandedOn, ScriptExits, Released
<1>7. InputHeldByLater'
  BY DEF IInv, InputHeldByLater, Alive, ScriptExits, Released
<1>8. OutputEndsWithScript'
  BY DEF IInv, OutputEndsWithScript, ScriptExits, Released
<1>9. FedInParts'
  BY DEF IInv, FedInParts, ScriptExits
<1>. QED  BY <1>1, <1>2, <1>3, <1>4, <1>5, <1>6, <1>7, <1>8, <1>9 DEF IInv

\* The clock does not touch what is proved, except for its own type.
LEMMA TickKeeps == ASSUME IInv, Tick PROVE IInv'
<1>1. TypeOK'
  BY InheritanceAssumption DEF IInv, TypeOK, Tick, pipes
<1>2. /\ Counted' /\ NoPipesYet' /\ HoldersLive' /\ ServerFeeds' /\ FedInParts'
      /\ EmptyNotHandedOn' /\ InputHeldByLater' /\ OutputEndsWithScript'
  BY DEF IInv, Counted, NoPipesYet, HoldersLive, ServerFeeds, FedInParts,
     EmptyNotHandedOn, InputHeldByLater, OutputEndsWithScript, Alive, Unreaped, Tick,
     pipes
<1>. QED  BY <1>1, <1>2 DEF IInv

-----------------------------------------------------------------------------
(* The theorems.                                                           *)

\* The invariant holds in every reachable state.
THEOREM Inductive == Spec => []IInv
<1>1. Init => IInv
  BY InheritanceAssumption DEF Init, IInv, TypeOK, Counted, NoPipesYet, HoldersLive,
     ServerFeeds, FedInParts, EmptyNotHandedOn, InputHeldByLater, OutputEndsWithScript,
     Alive
<1>2. IInv /\ [Next]_vars => IInv'
  <2>. SUFFICES ASSUME IInv, [Next]_vars PROVE IInv'
    OBVIOUS
  <2>1. ASSUME NEW c \in Client, ServerStep(c) PROVE IInv'
    BY <2>1, AcceptKeeps, StartCgiKeeps, AnswerDirectlyKeeps, OnCgiWritableKeeps,
       OnCgiBrokenKeeps, OnCgiPrintedKeeps, OnCgiEndsKeeps, AbortCgiKeeps, HangUpKeeps,
       CloseConnectionKeeps DEF ServerStep
  <2>2. ASSUME NEW c \in Client, ScriptStep(c) PROVE IInv'
    BY <2>2, ChildClosesKeeps, ScriptExitsKeeps DEF ScriptStep
  <2>3. CASE Tick
    BY <2>3, TickKeeps
  <2>4. CASE UNCHANGED vars
    BY <2>4 DEF vars, IInv, TypeOK, Counted, NoPipesYet, HoldersLive, ServerFeeds,
       FedInParts, EmptyNotHandedOn, InputHeldByLater, OutputEndsWithScript, Alive,
       Unreaped
  <2>. QED  BY <2>1, <2>2, <2>3, <2>4 DEF Next, Over
<1>. QED  BY <1>1, <1>2, PTL DEF Spec

\* Every variable keeps its type, for every number of clients and every bound.
THEOREM TypeCorrect == Spec => []TypeOK
<1>1. IInv => TypeOK
  BY DEF IInv
<1>. QED  BY <1>1, Inductive, PTL

\* However many scripts run, the copies fork() makes of a script's stdin are held by
\* scripts started later, so that no two scripts wait for each other to end.
THEOREM NoCircle == Spec => []InputHeldByLater
<1>1. IInv => InputHeldByLater
  BY DEF IInv
<1>. QED  BY <1>1, Inductive, PTL

\* However many scripts run, none of them holds the stdout of another.
THEOREM OwnOutput == Spec => []OutputEndsWithScript
<1>1. IInv => OutputEndsWithScript
  BY DEF IInv
<1>. QED  BY <1>1, Inductive, PTL

\* A running script without a body can read the end of its input, whatever else runs.
THEOREM EndOfEmptyInput == Spec => []EmptyInputEnds
<1>1. IInv => EmptyInputEnds
  BY DEF IInv, TypeOK, EmptyNotHandedOn, InputHeldByLater, EmptyInputEnds
<1>. QED  BY <1>1, Inductive, PTL

=============================================================================
