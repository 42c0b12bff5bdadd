--------------------------- MODULE ConfigReading ---------------------------
(***************************************************************************)
(* What a configuration file says, read as a whole: which of its tokens    *)
(* begin a statement, how deep they are nested, and which statement is the *)
(* last of its name in its block.  ConfigParser, which sees one token at a *)
(* time, is compared with this.                                            *)
(***************************************************************************)
EXTENDS ConfigParser, FiniteSetsExt

\* The tokens the statement at i takes.
ListEnd(f, i) == Min({j \in i + 1 .. Len(f) : f[j] = ";"} \cup {Len(f) + 1})
Width(f, i) ==
    CASE f[i] = "server" -> 2
      [] f[i] = "location" -> 3
      [] f[i] = "}" -> 1
      [] f[i] \in TwoValues -> 4
      [] f[i] = "allowed_methods" -> ListEnd(f, i) - i + 1
      [] OTHER -> 3

\* Where statements begin; behind the last one if the file ends with it.
Heads(f) ==
    LET heads[n \in 0 .. Len(f)] ==
          IF n = 0 THEN {1}
          ELSE LET before == heads[n - 1]
               IN  before \cup {h + Width(f, h) : h \in before \cap {n}}
    IN  heads[Len(f)]

Depth(f, heads, i) ==
    Cardinality({h \in heads : h < i /\ f[h] \in {"server", "location"}})
    - Cardinality({h \in heads : h < i /\ f[h] = "}"})

IsAt(f, i, token) == i \in DOMAIN f /\ f[i] = token
StatementOK(f, heads, h) ==
    LET depth == Depth(f, heads, h)
        last == h + Width(f, h) - 1
    IN  CASE f[h] = "server" -> depth = 0 /\ IsAt(f, h + 1, "{")
          [] f[h] = "location" -> depth = 1 /\ IsAt(f, h + 2, "{")
          [] f[h] = "}" -> depth > 0
          [] OTHER ->
               /\ \/ depth = 1 /\ f[h] \in ServerDirectives
                  \/ depth = 2 /\ f[h] \in LocationDirectives
               /\ h + 2 <= last /\ IsAt(f, last, ";")
               /\ Accepts(f[h], f[h + 1])

\* The statements that stand directly in the block at h: one level deeper, and
\* from h to there it was never left.
Inside(f, heads, h) ==
    {i \in heads \cap DOMAIN f :
       /\ h < i /\ Depth(f, heads, i) = Depth(f, heads, h) + 1
       /\ \A j \in heads : h < j /\ j < i => Depth(f, heads, j) > Depth(f, heads, h)}
Within(f, heads, h, name) == {i \in Inside(f, heads, h) : f[i] = name}

\* The last of a name is what holds; 0 if there is none.
Latest(f, heads, h, name) ==
    LET said == Within(f, heads, h, name) IN IF said = {} THEN 0 ELSE Max(said)
Says(f, heads, h, name, default) ==
    LET i == Latest(f, heads, h, name) IN IF i = 0 THEN default ELSE f[i + 1]
Limit(f, heads, h, default) ==
    LET i == Latest(f, heads, h, "client_max_body_size")
    IN  IF i = 0 THEN default ELSE parseSize(f[i + 1])
Methods(f, heads, h) ==
    LET i == Latest(f, heads, h, "allowed_methods")
    IN  IF i = 0 THEN <<>> ELSE SubSeq(f, i + 1, ListEnd(f, i) - 1)
\* Of a map, keys[i] being what the statement at i is about.
Entries(f, keys) ==
    [key \in Range(keys) |-> f[Max({i \in DOMAIN keys : keys[i] = key}) + 2]]

InOrder(S) ==
    [k \in 1 .. Cardinality(S) |-> CHOOSE i \in S : Cardinality({j \in S : j < i}) = k - 1]

LocationAt(f, heads, h) ==
    [path |-> f[h + 1],
     root |-> Says(f, heads, h, "root", DefaultRoot),
     index |-> Says(f, heads, h, "index", DefaultIndex),
     methods |-> Methods(f, heads, h),
     autoindex |-> Says(f, heads, h, "autoindex", "off") = "on",
     uploadStore |-> Says(f, heads, h, "upload_store", Empty),
     redirect |-> Says(f, heads, h, "return", Empty),
     cgi |-> Entries(f, [i \in Within(f, heads, h, "cgi_ext") |-> f[i + 1]]),
     limit |-> Limit(f, heads, h, 0)]

ServerAt(f, heads, h) ==
    LET port == Latest(f, heads, h, "listen")
        places == InOrder(Within(f, heads, h, "location"))
    IN  [port |-> IF port = 0 THEN DefaultPort ELSE atoi(f[port + 1]),
         root |-> Says(f, heads, h, "root", DefaultRoot),
         index |-> Says(f, heads, h, "index", DefaultIndex),
         limit |-> Limit(f, heads, h, DefaultLimit),
         errorPages |-> Entries(f, [i \in Within(f, heads, h, "error_page") |->
                                      atoi(f[i + 1])]),
         locations |-> [k \in DOMAIN places |-> LocationAt(f, heads, places[k])]]

\* The server blocks of a file whose statements are all right.
Servers(f, heads) == {h \in heads \cap DOMAIN f : f[h] = "server"}
Reading(f) ==
    LET heads == Heads(f)
        blocks == InOrder(Servers(f, heads))
    IN  [k \in DOMAIN blocks |-> ServerAt(f, heads, blocks[k])]

WellFormed(f) ==
    /\ f # <<>>
    /\ LET heads == Heads(f) IN
         /\ Len(f) + 1 \in heads
         /\ \A h \in heads \cap DOMAIN f : StatementOK(f, heads, h)
         /\ Depth(f, heads, Len(f) + 1) = 0
    /\ LET read == Reading(f) IN
         \A i, j \in DOMAIN read : read[i].port = read[j].port => i = j

-----------------------------------------------------------------------------
\* How a file may go on after its last token.
Endings ==
    LET w == CHOOSE word \in Word : TRUE IN
    {<<>>, <<"}">>, <<"}", "}">>, <<";", "}">>, <<";", "}", "}">>,
     <<"{", "}">>, <<"{", "}", "}">>, <<w, ";", "}">>, <<w, ";", "}", "}">>,
     <<w, w, ";", "}">>, <<w, w, ";", "}", "}">>}

(* Properties.                                                             *)

\* What the classes can hold: a setting is a token of the file or what it was
\* before, a limit is a size_t, and a map goes from what can be written to tokens.
IsList(list) == list \in Seq(Range(list))
IsMap(map, Keys) == DOMAIN map \subseteq Keys /\ \A key \in DOMAIN map : map[key] \in Token
LocationConfig(l) ==
    /\ l \in [path : Token \cup {DefaultPath}, root : Token \cup {DefaultRoot},
              index : Token \cup {DefaultIndex}, methods : Seq(Token), autoindex : BOOLEAN,
              uploadStore : Token \cup {Empty}, redirect : Token \cup {Empty},
              cgi : {l.cgi}, limit : 0 .. SizeRange - 1]
    /\ IsMap(l.cgi, Token)
ServerConfig(s) ==
    /\ s \in [port : Nat \cup {DefaultPort}, root : Token \cup {DefaultRoot},
              index : Token \cup {DefaultIndex}, limit : {s.limit},
              errorPages : {s.errorPages}, locations : {s.locations}]
    /\ s.limit \in 0 .. SizeRange - 1 \/ s.limit = DefaultLimit
    /\ IsMap(s.errorPages, Nat)
    /\ IsList(s.locations)
    /\ \A i \in 1 .. Len(s.locations) : LocationConfig(s.locations[i])

\* The parser is at one of its looks, and what it has built fits the classes;
\* nothing of a refused file is left.
TypeOK ==
    /\ tokens \in Seq(Token) /\ Len(tokens) <= MaxTokens
    /\ slips \in 0 .. MaxSlips
    /\ pc \in Tested \cup {"file", "path", "accepted", "refused", "overrun", "crashed"}
    /\ block \in {"server", "location"}
    /\ directive \in ServerDirectives \cup LocationDirectives \cup {Empty}
    /\ first \in Seq(Token)
    /\ pc = "second" => Len(first) = 1
    /\ LocationConfig(location) /\ ServerConfig(server)
    /\ IsList(servers) /\ \A i \in 1 .. Len(servers) : ServerConfig(servers[i])
    /\ pc = "refused" => servers = <<>> /\ server = NewServer

\* What the server is started with is what the file says: every setting in its
\* block, the last of several, and locations in the order of the file, which
\* decides between those that fit; a value that looks like a keyword or a brace
\* stays a value.
AcceptedAsWritten ==
    pc = "accepted" => WellFormed(tokens) /\ servers = Reading(tokens)

\* A file is only refused when it is not one: not at its end when it was well
\* formed, and not at a token after which it could still have become so.
RefusedWithReason ==
    [][pc # "refused" /\ pc' = "refused" /\ pc # "overrun" =>
         IF tokens' = tokens THEN ~WellFormed(tokens)
         ELSE \A ending \in Endings : ~WellFormed(tokens' \o ending)]_vars

\* Behind the last token the parser looks in one place only, when the file ends
\* with the word location (parseLocationBlock).
OnlyLocationOverruns ==
    pc \in {"overrun", "crashed"} => tokens # <<>> /\ tokens[Len(tokens)] = "location"

=============================================================================
