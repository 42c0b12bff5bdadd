------------------------------ MODULE Exchange ------------------------------
(***************************************************************************)
(* What the server promises a client, whatever loop, tables and pipes it   *)
(* is built from: a client that was let in asks one question; it is        *)
(* answered at once or a script is run for it, and then it is answered;    *)
(* a client being answered is never asked again and is let go.  A script   *)
(* is alive on behalf of one client, and only while that client waits for  *)
(* it.  A client may leave, or be dismissed, at any time.                  *)
(*                                                                         *)
(* One step may move several clients, as when the server sweeps the ones   *)
(* that timed out.                                                         *)
(***************************************************************************)
CONSTANTS Client, Helper, NoHelper

VARIABLES
    up,      \* the server takes questions
    phase,   \* how far each client's exchange is
    helper   \* the script that works for each client

exchange == <<up, phase, helper>>

Init ==
    /\ up = TRUE
    /\ phase = [c \in Client |-> "absent"]
    /\ helper = [c \in Client |-> NoHelper]

Legal ==
    {<<"absent", "asking">>,
     <<"asking", "scripted">>, <<"asking", "answering">>,
     <<"scripted", "answering">>,
     <<"asking", "leaving">>, <<"answering", "leaving">>,
     <<"asking", "absent">>, <<"scripted", "absent">>,
     <<"answering", "absent">>, <<"leaving", "absent">>}

Moves(c) == phase'[c] # phase[c] => <<phase[c], phase'[c]>> \in Legal

\* A client keeps its script while it waits, and a script starts for one client
\* when no other has it.
Helps(c) ==
    /\ phase'[c] = "scripted" <=> helper'[c] # NoHelper
    /\ phase[c] = "scripted" /\ phase'[c] = "scripted" => helper'[c] = helper[c]
    /\ phase[c] # "scripted" /\ phase'[c] = "scripted" =>
         \A d \in Client : helper[d] # helper'[c]

Serve ==
    /\ up
    /\ up' = up
    /\ phase' \in [Client -> {"absent", "asking", "scripted", "answering",
                              "leaving"}]
    /\ helper' \in [Client -> Helper \cup {NoHelper}]
    /\ \A c \in Client : Moves(c) /\ Helps(c)

Halt ==
    /\ up' = FALSE
    /\ phase' = [c \in Client |-> "absent"]
    /\ helper' = [c \in Client |-> NoHelper]

Next == Serve \/ Halt

Spec == Init /\ [][Next]_exchange

=============================================================================
