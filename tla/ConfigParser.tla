---------------------------- MODULE ConfigParser ----------------------------
(***************************************************************************)
(* ConfigParser: one pass over the tokens of the configuration file, which *)
(* either gives the server blocks or throws.  The parser looks at one      *)
(* token after the other and never ahead, so the file is made up as it is  *)
(* read: at every look there is a token, any token, or the file ends.      *)
(* A token is a value; what atoi() and operator>> make of it is given by   *)
(* Digits and Unit.  tokenize() is left out: the words, braces and         *)
(* semicolons are what it gives.                                           *)
(***************************************************************************)
EXTENDS Config

CONSTANTS
    Token,      \* the tokens of files
    Word,       \* those a file usually has where a value is due
    Digits,     \* Digits[t]: the number t begins with, NoDigits if none
    Unit,       \* Unit[t]: what follows it, "" if nothing
    SizeRange,  \* 2^64: size_t is computed modulo this, and holds no more
    MaxTokens,  \* bound: length of a file
    MaxSlips    \* bound: tokens of a file that are not usual where they are

NoDigits == -1

ASSUME TokenAssumption ==
    /\ Word \subseteq Token
    /\ Digits \in [Token -> Nat \cup {NoDigits}]
    /\ SizeRange \in Nat \ {0} /\ MaxTokens \in Nat /\ MaxSlips \in Nat

VARIABLES
    tokens,     \* the tokens looked at so far; pos is its length
    slips,      \* how many of them are not usual
    pc,         \* what the parser is about to look at
    block,      \* whose parseInsideBlock runs: "server" or "location"
    directive,  \* its directive
    first,      \* its first value, and methods
    server,     \* the ServerConfig being built
    location,   \* the LocationConfig being built
    servers     \* the server blocks read

vars == <<tokens, slips, pc, block, directive, first, server, location, servers>>

-----------------------------------------------------------------------------
(* Values.                                                                 *)

\* map[key] = value
Put(map, key, value) ==
    [k \in DOMAIN map \cup {key} |-> IF k = key THEN value ELSE map[k]]

atoi(t) == IF Digits[t] = NoDigits THEN 0 ELSE Digits[t]

Factor == Put([k |-> 1024, m |-> 1024 * 1024, g |-> 1024 * 1024 * 1024], "", 1)
\* A number too large for a size_t makes operator>> fail, one that the unit makes too
\* large does not.
IsSize(t) ==
    Digits[t] # NoDigits /\ Digits[t] < SizeRange /\ Unit[t] \in DOMAIN Factor
parseSize(t) == (Digits[t] * Factor[Unit[t]]) % SizeRange

OneValue == {"listen", "root", "index", "client_max_body_size", "upload_store",
             "return", "autoindex"}
TwoValues == {"error_page", "cgi_ext"}
ServerDirectives == {"listen", "root", "index", "client_max_body_size", "error_page"}
LocationDirectives == {"root", "index", "client_max_body_size", "upload_store",
                       "return", "autoindex", "cgi_ext", "allowed_methods"}

\* What a directive throws at.
Accepts(name, value) ==
    /\ name = "client_max_body_size" => IsSize(value)
    /\ name = "autoindex" => value \in {"on", "off"}

SetServer(name, value) ==
    CASE name = "listen" -> [server EXCEPT !.port = atoi(value)]
      [] name = "root" -> [server EXCEPT !.root = value]
      [] name = "index" -> [server EXCEPT !.index = value]
      [] name = "client_max_body_size" -> [server EXCEPT !.limit = parseSize(value)]
      [] OTHER -> server
SetLocation(name, value) ==
    CASE name = "root" -> [location EXCEPT !.root = value]
      [] name = "index" -> [location EXCEPT !.index = value]
      [] name = "client_max_body_size" -> [location EXCEPT !.limit = parseSize(value)]
      [] name = "upload_store" -> [location EXCEPT !.uploadStore = value]
      [] name = "return" -> [location EXCEPT !.redirect = value]
      [] name = "autoindex" -> [location EXCEPT !.autoindex = (value = "on")]
      [] OTHER -> location
AddErrorPage(code, page) == [server EXCEPT !.errorPages = Put(@, atoi(code), page)]
AddCgi(extension, interpreter) == [location EXCEPT !.cgi = Put(@, extension, interpreter)]

-----------------------------------------------------------------------------
Init ==
    /\ tokens = <<>> /\ slips = 0
    /\ pc = "file" /\ block = "server" /\ directive = Empty /\ first = <<>>
    /\ server = NewServer /\ location = NewLocation /\ servers = <<>>

Nothing == UNCHANGED <<block, directive, first, server, location, servers>>

\* mutant: the servers read before the exception are used
RefuseLate ==
    /\ pc' = "refused"
    /\ block' = "server" /\ directive' = Empty /\ first' = <<>>
    /\ server' = NewServer /\ location' = NewLocation /\ UNCHANGED servers
\* An exception reaches main(), and everything read is gone.
Refuse ==
    /\ pc' = "refused"
    /\ block' = "server" /\ directive' = Empty /\ first' = <<>>
    /\ server' = NewServer /\ location' = NewLocation /\ servers' = <<>>

\* What a file usually has here.
Usual ==
    CASE pc = "file" -> {"server"}
      [] pc \in {"serverBrace", "locationBrace"} -> {"{"}
      [] pc = "server" -> ServerDirectives \cup {"location", "}"}
      [] pc = "location" -> LocationDirectives \cup {"}"}
      [] pc = "semicolon" -> {";"}
      [] pc = "methods" -> Word \cup {";"}
      [] OTHER -> Word

Look(t) ==
    /\ Len(tokens) < MaxTokens
    /\ t \in Usual \/ slips < MaxSlips
    /\ tokens' = Append(tokens, t)
    /\ slips' = IF t \in Usual THEN slips ELSE slips + 1

\* tokens[pos] != expected: throw.
Expect(t, expected, next) ==
    IF t = expected THEN pc' = next /\ Nothing ELSE Refuse

\* parseConfigFile's loop and parseServerBlock
ServerKeyword(t) ==
    /\ pc = "file"
    /\ IF t = "server"
       THEN /\ pc' = "serverBrace" /\ server' = NewServer
            /\ UNCHANGED <<block, directive, first, location, servers>>
       ELSE Refuse

ServerBrace(t) == pc = "serverBrace" /\ Expect(t, "{", "server")

\* The loop of parseServerBlock, and the directive of parseInsideBlock.
ServerItem(t) ==
    /\ pc = "server"
    /\ CASE t = "}" ->
              /\ pc' = "file" /\ servers' = Append(servers, server)
              /\ UNCHANGED <<block, directive, first, server, location>>
         [] t = "location" ->
              /\ pc' = "path" /\ location' = NewLocation
              /\ UNCHANGED <<block, directive, first, server, servers>>
         [] t \in ServerDirectives ->
              /\ pc' = "value" /\ block' = "server" /\ directive' = t
              /\ UNCHANGED <<first, server, location, servers>>
         [] OTHER -> Refuse    \* in the code after one more test; it throws too

\* parseLocationBlock
LocationPath(t) ==
    /\ pc = "path"
    /\ pc' = "locationBrace" /\ location' = [location EXCEPT !.path = t]
    /\ UNCHANGED <<block, directive, first, server, servers>>

LocationBrace(t) == pc = "locationBrace" /\ Expect(t, "{", "location")

\* mutant: blocks are kept in the opposite order
LocationInFront == [server EXCEPT !.locations = <<location>> \o @]
LocationAdded == AddLocation(server, location)

LocationItem(t) ==
    /\ pc = "location"
    /\ CASE t = "}" ->
              /\ pc' = "server" /\ server' = LocationAdded
              /\ UNCHANGED <<block, directive, first, location, servers>>
         [] t \in LocationDirectives ->
              /\ pc' = IF t = "allowed_methods" THEN "methods" ELSE "value"
              /\ block' = "location" /\ directive' = t
              /\ first' = <<>>
              /\ UNCHANGED <<server, location, servers>>
         [] OTHER -> Refuse

\* parseInsideBlock: whatever token comes next is the value.
Value(t) ==
    /\ pc = "value"
    /\ CASE directive \in TwoValues ->
              /\ pc' = "second" /\ first' = <<t>>
              /\ UNCHANGED <<block, directive, server, location, servers>>
         [] directive \in OneValue /\ Accepts(directive, t) ->
              /\ pc' = "semicolon"
              /\ IF block = "server"
                 THEN server' = SetServer(directive, t) /\ UNCHANGED location
                 ELSE location' = SetLocation(directive, t) /\ UNCHANGED server
              /\ UNCHANGED <<block, directive, first, servers>>
         [] OTHER -> Refuse

SecondValue(t) ==
    /\ pc = "second"
    /\ pc' = "semicolon" /\ first' = <<>>
    /\ IF block = "server"
       THEN server' = AddErrorPage(first[1], t) /\ UNCHANGED location
       ELSE location' = AddCgi(first[1], t) /\ UNCHANGED server
    /\ UNCHANGED <<block, directive, servers>>

\* allowed_methods: tokens until the ;
Method(t) ==
    /\ pc = "methods"
    /\ IF t # ";"
       THEN /\ first' = Append(first, t)
            /\ UNCHANGED <<pc, block, directive, server, location, servers>>
       ELSE IF first = <<>> THEN Refuse
       ELSE /\ location' = [location EXCEPT !.methods = first]
            /\ pc' = "location" /\ first' = <<>>
            /\ UNCHANGED <<block, directive, server, servers>>

Semicolon(t) == pc = "semicolon" /\ Expect(t, ";", block)

Step(t) ==
    \/ ServerKeyword(t) \/ ServerBrace(t) \/ ServerItem(t) \/ LocationPath(t)
    \/ LocationBrace(t) \/ LocationItem(t) \/ Value(t) \/ SecondValue(t)
    \/ Method(t) \/ Semicolon(t)

-----------------------------------------------------------------------------
(* The end of the file: pos >= tokens.size().                              *)

\* mutant: the inner loop begins at i
DuplicateOrSame ==
    \E i, j \in DOMAIN servers : i <= j /\ servers[i].port = servers[j].port
DuplicatePorts ==
    \E i, j \in DOMAIN servers : i < j /\ servers[i].port = servers[j].port

FileEnds ==
    /\ pc = "file"
    /\ IF servers = <<>> \/ DuplicatePorts THEN Refuse
       ELSE pc' = "accepted" /\ Nothing

\* The looks that are preceded by a test of pos.
\* mutant: the file of error_page is not tested
TestedButSecond == {"serverBrace", "server", "locationBrace", "location", "value",
                    "methods", "semicolon"}
Tested == {"serverBrace", "server", "locationBrace", "location", "value", "second",
           "methods", "semicolon"}

FileEndsEarly ==
    /\ pc \in Tested
    /\ Refuse

\* tokens[pos] without a test reads behind the vector.  What is there may crash
\* the program, or pass for a path; then pos is past the end, and the next test
\* throws.
ReadsPastEnd ==
    /\ pc \notin Tested \cup {"file", "accepted", "refused", "overrun", "crashed"}
    /\ \/ pc' = "crashed"
       \/ pc' = "overrun"
    /\ Nothing

OverrunNoticed == pc = "overrun" /\ Refuse

EndOfFile ==
    /\ FileEnds \/ FileEndsEarly \/ ReadsPastEnd \/ OverrunNoticed
    /\ UNCHANGED <<tokens, slips>>

Ended == pc \in {"accepted", "refused", "crashed"}
Parsed == Ended /\ UNCHANGED vars

Next == (\E t \in Token : Look(t) /\ Step(t)) \/ EndOfFile \/ Parsed

Spec == Init /\ [][Next]_vars
=============================================================================
