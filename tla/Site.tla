-------------------------------- MODULE Site --------------------------------
(***************************************************************************)
(* A site as its users may think of it: each request is carried out at one *)
(* moment between its arrival and its answer, while others (scripts, the   *)
(* people who keep the site) change the same files.  Only an upload is not *)
(* one step: its file is empty before it is filled.                        *)
(***************************************************************************)
EXTENDS Integers, Sequences

CONSTANTS
    File,       \* the places where a file may be
    Content,    \* what others put there, a set of sequences
    Request,
    Deed        \* Deed[r]: what a request asks of the disk:
                \*   [kind |-> "none", file]             nothing
                \*   [kind |-> "fetch", file, listed]    its content, or a list
                \*   [kind |-> "remove", file]
                \*   [kind |-> "store", file, data]

VARIABLES
    disk,       \* disk[f]: the content of f, Absent if there is no file
    phase,      \* "idle", "asked", "listing", "filling", "decided"
    request,
    outcome,    \* what was decided, Undecided before that
    linked      \* the file being filled is still in its place

vars == <<disk, phase, request, outcome, linked>>

Absent == <<"absent">>
Listing == <<"listing">>
Undecided == [status |-> 0, content |-> <<>>]
Status(code) == [status |-> code, content |-> <<>>]

\* An unsuccessful attempt may be reported whenever the system may refuse it.
Unreadable == Status(400)
Forbidden == Status(403)
Missing == Status(404)
Failed == Status(500)

Holds(f) == f \in File /\ disk[f] # Absent

-----------------------------------------------------------------------------
Init ==
    /\ disk \in [File -> Content \cup {Absent}]
    /\ phase = "idle" /\ request \in Request /\ outcome = Undecided /\ linked = FALSE

\* Another process puts a file in place of what is there, or takes it away.
Others ==
    \E f \in File, c \in Content \cup {Absent} :
        /\ c # disk[f]
        /\ disk' = [disk EXCEPT ![f] = c]
        /\ linked' = (linked /\ f # Deed[request].file)
        /\ UNCHANGED <<phase, request, outcome>>

Ask ==
    /\ phase = "idle"
    /\ phase' = "asked" /\ request' \in Request
    /\ UNCHANGED <<disk, outcome, linked>>

Decide(o) == phase' = "decided" /\ outcome' = o

\* Refused, redirected, or a matter of a script.
Dispose ==
    /\ phase = "asked" /\ Deed[request].kind = "none"
    /\ Decide(Undecided)
    /\ UNCHANGED <<disk, request, linked>>

Fetch ==
    /\ phase = "asked" /\ Deed[request].kind = "fetch"
    /\ LET deed == Deed[request] IN
         \/ Holds(deed.file) /\ Decide([status |-> 200, content |-> disk[deed.file]])
         \/ ~Holds(deed.file) /\ ~deed.listed /\ Decide(Missing)
         \/ ~Holds(deed.file) /\ deed.listed /\ phase' = "listing" /\ UNCHANGED outcome
         \/ Decide(Unreadable)
    /\ UNCHANGED <<disk, request, linked>>

List ==
    /\ phase = "listing"
    /\ Decide([status |-> 200, content |-> Listing]) \/ Decide(Forbidden)
    /\ UNCHANGED <<disk, request, linked>>

Remove ==
    /\ phase = "asked" /\ Deed[request].kind = "remove"
    /\ LET f == Deed[request].file IN
         \/ Holds(f) /\ Decide(Status(204)) /\ disk' = [disk EXCEPT ![f] = Absent]
         \/ ~Holds(f) /\ Decide(Missing) /\ UNCHANGED disk
         \/ Decide(Failed) /\ UNCHANGED disk
    /\ UNCHANGED <<request, linked>>

Clear ==
    /\ phase = "asked" /\ Deed[request].kind = "store"
    /\ \/ /\ phase' = "filling" /\ linked' = TRUE
          /\ disk' = [disk EXCEPT ![Deed[request].file] = <<>>]
          /\ UNCHANGED outcome
       \/ Decide(Failed) /\ UNCHANGED <<disk, linked>>
    /\ UNCHANGED request

\* The file holds all of the data, or its beginning, unless it was replaced.  That
\* it does not hold all is not always known when the answer is made.
Fill ==
    /\ phase = "filling"
    /\ \E n \in 0 .. Len(Deed[request].data) :
         /\ disk' = IF linked
                    THEN [disk EXCEPT ![Deed[request].file] = SubSeq(Deed[request].data, 1, n)]
                    ELSE disk
         /\ \/ Decide(Status(201))
            \/ n < Len(Deed[request].data) /\ Decide(Failed)
    /\ linked' = FALSE
    /\ UNCHANGED request

Rest ==
    /\ phase = "decided"
    /\ phase' = "idle" /\ outcome' = Undecided
    /\ UNCHANGED <<disk, request, linked>>

Next ==
    \/ Others \/ Ask \/ Dispose \/ Fetch \/ List \/ Remove \/ Clear \/ Fill \/ Rest

Spec == Init /\ [][Next]_vars
=============================================================================
