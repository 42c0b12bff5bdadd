------------------------------- MODULE Config -------------------------------
(***************************************************************************)
(* ServerConfig and LocationConfig: what the configuration file may set,   *)
(* what holds when it does not, and how the rest of the program looks it   *)
(* up.  A text is a value of any kind, a path a sequence of which another  *)
(* path may be a prefix, and Empty the empty string.                       *)
(***************************************************************************)
EXTENDS Integers, Sequences, SequencesExt

CONSTANTS
    DefaultPort,    \* 8080
    DefaultRoot,    \* "./www"
    DefaultIndex,   \* "index.html"
    DefaultLimit,   \* 1048576
    DefaultPath,    \* "/"
    Empty           \* ""

NoMap == [key \in {} |-> Empty]
\* map.find(key), and "" at end()
Get(map, key) == IF key \in DOMAIN map THEN map[key] ELSE Empty

NewServer ==
    [port |-> DefaultPort, root |-> DefaultRoot, index |-> DefaultIndex,
     limit |-> DefaultLimit, errorPages |-> NoMap, locations |-> <<>>]

\* limit 0: not written in this block.
NewLocation ==
    [path |-> DefaultPath, root |-> DefaultRoot, index |-> DefaultIndex,
     methods |-> <<>>, autoindex |-> FALSE, uploadStore |-> Empty,
     redirect |-> Empty, cgi |-> NoMap, limit |-> 0]

\* addLocation()
AddLocation(server, location) ==
    [server EXCEPT !.locations = Append(@, location)]

\* An empty list allows every method.
IsMethodAllowed(location, method) ==
    location.methods = <<>> \/ \E i \in DOMAIN location.methods : location.methods[i] = method

\* mutant: the last block that fits is taken
LastOf(places) == CHOOSE i \in places : \A j \in places : j <= i
FirstOf(places) == CHOOSE i \in places : \A j \in places : i <= j

\* Router::findLocation: the first block, in the order of the file, whose path is
\* a prefix of the URL.  Where there is none (NULL), the program does what it would
\* do in a block that fits everywhere and sets nothing.
NoLocation == [NewLocation EXCEPT !.path = Empty, !.root = Empty, !.index = Empty]

FindLocation(server, path) ==
    LET fits == {i \in DOMAIN server.locations :
                   IsPrefix(server.locations[i].path, path)}
    IN  IF fits = {} THEN NoLocation ELSE server.locations[FirstOf(fits)]

=============================================================================
