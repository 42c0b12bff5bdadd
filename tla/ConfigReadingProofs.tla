------------------------ MODULE ConfigReadingProofs ------------------------
(***************************************************************************)
(* ConfigParser for files of every length and every set of tokens: what it *)
(* builds always fits the classes, it reads behind the last token only     *)
(* when that is the word location, and the servers it returns are what the *)
(* reference reads in the file.                                            *)
(***************************************************************************)
EXTENDS ConfigReadingLemmas

\* A directive belongs to the block it stands in, and the word location was read
\* right before the one look that no test precedes.
Begun ==
    /\ pc \in {"value", "second"} =>
         directive \in IF block = "server" THEN ServerDirectives
                       ELSE LocationDirectives \ {"allowed_methods"}
    /\ pc \in {"path", "overrun", "crashed"} => tokens # <<>> /\ Last(tokens) = "location"

IInv == TypeOK /\ Begun

-----------------------------------------------------------------------------
(* Values.                                                                 *)

\* What parseSize() returns fits a size_t.
LEMMA Sizes ==
    /\ 0 \in 0 .. SizeRange - 1
    /\ \A t \in Token : IsSize(t) => parseSize(t) \in 0 .. SizeRange - 1
<1>1. ASSUME NEW t \in Token, IsSize(t) PROVE parseSize(t) \in 0 .. SizeRange - 1
  <2>1. Digits[t] \in Nat
    BY <1>1, TokenAssumption DEF IsSize
  <2>2. \A unit \in DOMAIN Factor : Factor[unit] \in Nat
    <3>. DEFINE letters == [k |-> 1024, m |-> 1024 * 1024, g |-> 1024 * 1024 * 1024]
    <3>1. \A unit \in DOMAIN letters : letters[unit] \in Nat
      OBVIOUS
    <3>. HIDE DEF letters
    <3>2. Factor = Put(letters, "", 1)
      BY DEF Factor, letters
    <3>. QED  BY <3>1, <3>2 DEF Put
  <2>3. Digits[t] * Factor[Unit[t]] \in Nat
    BY <1>1, <2>1, <2>2 DEF IsSize
  <2>. QED  BY <2>3, TokenAssumption DEF parseSize
<1>. QED  BY <1>1, TokenAssumption

\* atoi() of a token is a number.
LEMMA Numbers == \A t \in Token : atoi(t) \in Nat
BY TokenAssumption DEF atoi, NoDigits

\* A map that is assigned to at a key is still one,
LEMMA MapGrows ==
    ASSUME NEW map, NEW Keys, IsMap(map, Keys), NEW key \in Keys, NEW t \in Token
    PROVE  IsMap(Put(map, key, t), Keys)
BY DEF IsMap, Put

\* as it is when empty.
LEMMA NothingFits == IsMap(NoMap, Token) /\ IsMap(NoMap, Nat)
BY DEF IsMap, NoMap

\* A list with one more at its end is still one,
LEMMA ListGrows ==
    ASSUME NEW list, IsList(list), NEW x
    PROVE  /\ IsList(Append(list, x)) /\ Len(Append(list, x)) = Len(list) + 1
           /\ \A i \in 1 .. Len(list) : Append(list, x)[i] = list[i]
           /\ Append(list, x)[Len(list) + 1] = x /\ Len(list) \in Nat
<1>. DEFINE all == Range(list) \cup {x}
            longer == Append(list, x)
<1>1. list \in Seq(all) /\ x \in all
  BY DEF IsList
<1>2. /\ Len(longer) = Len(list) + 1 /\ Len(list) \in Nat
      /\ \A i \in 1 .. Len(list) : longer[i] = list[i]
      /\ longer[Len(list) + 1] = x /\ longer \in Seq(all)
  BY <1>1
<1>. HIDE DEF longer
<1>3. DOMAIN longer = 1 .. Len(longer) /\ longer = [i \in 1 .. Len(longer) |-> longer[i]]
  BY <1>2
<1>4. \A i \in 1 .. Len(longer) : longer[i] \in Range(longer)
  BY <1>3 DEF Range
<1>5. longer \in Seq(Range(longer))
  BY <1>2, <1>3, <1>4
<1>. QED  BY <1>2, <1>5 DEF IsList, longer

\* as it is when empty.
LEMMA EmptyIsList == IsList(<<>>)
BY DEF IsList

\* What the constructors make fits the classes,
LEMMA NewFits == LocationConfig(NewLocation) /\ ServerConfig(NewServer)
<1>1. LocationConfig(NewLocation)
  BY NothingFits, Sizes DEF LocationConfig, NewLocation
<1>2. ServerConfig(NewServer)
  BY NothingFits, EmptyIsList DEF ServerConfig, NewServer
<1>. QED  BY <1>1, <1>2

\* and so does what a directive of a server sets,
LEMMA SetServerFits ==
    ASSUME ServerConfig(server), NEW name \in ServerDirectives \ TwoValues, NEW t \in Token,
           Accepts(name, t)
    PROVE  ServerConfig(SetServer(name, t))
<1>1. CASE name = "listen"
  <2>1. SetServer(name, t) = [server EXCEPT !.port = atoi(t)]
    BY <1>1 DEF SetServer
  <2>. QED  BY <2>1, Numbers DEF ServerConfig
<1>2. CASE name = "root"
  <2>1. SetServer(name, t) = [server EXCEPT !.root = t]
    BY <1>2 DEF SetServer
  <2>. QED  BY <2>1 DEF ServerConfig
<1>3. CASE name = "index"
  <2>1. SetServer(name, t) = [server EXCEPT !.index = t]
    BY <1>3 DEF SetServer
  <2>. QED  BY <2>1 DEF ServerConfig
<1>4. CASE name = "client_max_body_size"
  <2>1. SetServer(name, t) = [server EXCEPT !.limit = parseSize(t)]
    BY <1>4 DEF SetServer
  <2>. QED  BY <1>4, <2>1, Sizes DEF ServerConfig, Accepts
<1>. QED  BY <1>1, <1>2, <1>3, <1>4 DEF ServerDirectives, TwoValues

\* a directive of a location,
LEMMA SetLocationFits ==
    ASSUME LocationConfig(location), NEW t \in Token,
           NEW name \in LocationDirectives \ (TwoValues \cup {"allowed_methods"}),
           Accepts(name, t)
    PROVE  LocationConfig(SetLocation(name, t))
<1>1. CASE name = "root"
  <2>1. SetLocation(name, t) = [location EXCEPT !.root = t]
    BY <1>1 DEF SetLocation
  <2>. QED  BY <2>1 DEF LocationConfig
<1>2. CASE name = "index"
  <2>1. SetLocation(name, t) = [location EXCEPT !.index = t]
    BY <1>2 DEF SetLocation
  <2>. QED  BY <2>1 DEF LocationConfig
<1>3. CASE name = "client_max_body_size"
  <2>1. SetLocation(name, t) = [location EXCEPT !.limit = parseSize(t)]
    BY <1>3 DEF SetLocation
  <2>. QED  BY <1>3, <2>1, Sizes DEF LocationConfig, Accepts
<1>4. CASE name = "upload_store"
  <2>1. SetLocation(name, t) = [location EXCEPT !.uploadStore = t]
    BY <1>4 DEF SetLocation
  <2>. QED  BY <2>1 DEF LocationConfig
<1>5. CASE name = "return"
  <2>1. SetLocation(name, t) = [location EXCEPT !.redirect = t]
    BY <1>5 DEF SetLocation
  <2>. QED  BY <2>1 DEF LocationConfig
<1>6. CASE name = "autoindex"
  <2>1. SetLocation(name, t) = [location EXCEPT !.autoindex = (t = "on")]
    BY <1>6 DEF SetLocation
  <2>. QED  BY <2>1 DEF LocationConfig
<1>. QED  BY <1>1, <1>2, <1>3, <1>4, <1>5, <1>6 DEF LocationDirectives, TwoValues

\* and what is added to maps and lists.
LEMMA AddedFits ==
    /\ \A code, t \in Token : ServerConfig(server) => ServerConfig(AddErrorPage(code, t))
    /\ \A name, t \in Token : LocationConfig(location) => LocationConfig(AddCgi(name, t))
    /\ ServerConfig(server) /\ LocationConfig(location) => ServerConfig(LocationAdded)
<1>1. ASSUME NEW code \in Token, NEW t \in Token, ServerConfig(server)
      PROVE  ServerConfig(AddErrorPage(code, t))
  <2>1. IsMap(Put(server.errorPages, atoi(code), t), Nat)
    BY <1>1, MapGrows, Numbers DEF ServerConfig
  <2>. QED  BY <1>1, <2>1 DEF ServerConfig, AddErrorPage
<1>2. ASSUME NEW name \in Token, NEW t \in Token, LocationConfig(location)
      PROVE  LocationConfig(AddCgi(name, t))
  <2>1. IsMap(Put(location.cgi, name, t), Token)
    BY <1>2, MapGrows DEF LocationConfig
  <2>. QED  BY <1>2, <2>1 DEF LocationConfig, AddCgi
<1>3. ASSUME ServerConfig(server), LocationConfig(location) PROVE ServerConfig(LocationAdded)
  <2>. DEFINE added == Append(server.locations, location)
  <2>1. LocationAdded = [server EXCEPT !.locations = added]
    BY DEF LocationAdded, AddLocation
  <2>2. IsList(added) /\ \A i \in 1 .. Len(added) : LocationConfig(added[i])
    BY <1>3, ListGrows DEF ServerConfig
  <2>. QED  BY <1>3, <2>1, <2>2 DEF ServerConfig
<1>. QED  BY <1>1, <1>2, <1>3

-----------------------------------------------------------------------------
(* One look after the other.                                               *)

\* The token looked at is the last one.
LEMMA LookKeeps ==
    ASSUME IInv, NEW t \in Token, Look(t)
    PROVE  /\ tokens' \in Seq(Token) /\ Len(tokens') <= MaxTokens /\ slips' \in 0 .. MaxSlips
           /\ tokens' # <<>> /\ Last(tokens') = t
<1>1. tokens \in Seq(Token) /\ Len(tokens) < MaxTokens /\ slips \in 0 .. MaxSlips
  BY DEF IInv, TypeOK, Look
<1>2. tokens' = Append(tokens, t) /\ Len(tokens') = Len(tokens) + 1
  BY <1>1 DEF Look
<1>3. slips' \in 0 .. MaxSlips
  BY <1>1, TokenAssumption DEF Look
<1>. QED  BY <1>1, <1>2, <1>3, TokenAssumption DEF Last

\* An exception leaves nothing that could be wrong.
LEMMA RefuseKeeps ==
    ASSUME IInv, Refuse, tokens' \in Seq(Token), Len(tokens') <= MaxTokens,
           slips' \in 0 .. MaxSlips
    PROVE  IInv'
<1>1. TypeOK'
  BY NewFits, EmptyIsList DEF Refuse, TypeOK
<1>2. Begun'
  BY DEF Refuse, Begun
<1>. QED  BY <1>1, <1>2 DEF IInv

\* A brace or semicolon changes no setting.
LEMMA ExpectKeeps ==
    ASSUME IInv, NEW t \in Token, Look(t), NEW expected, NEW next \in {"server", "location", block},
           Expect(t, expected, next)
    PROVE  IInv'
<1>1. CASE Refuse
  BY <1>1, LookKeeps, RefuseKeeps
<1>2. CASE pc' = next /\ Nothing
  <2>1. next \in {"server", "location"}
    BY DEF IInv, TypeOK
  <2>2. TypeOK'
    BY <1>2, <2>1, LookKeeps DEF IInv, TypeOK, Nothing, Tested
  <2>3. Begun'
    BY <1>2, <2>1 DEF Begun
  <2>. QED  BY <2>2, <2>3 DEF IInv
<1>. QED  BY <1>1, <1>2 DEF Expect

\* The word server begins a new block.
LEMMA ServerKeywordKeeps ==
    ASSUME IInv, NEW t \in Token, Look(t), ServerKeyword(t) PROVE IInv'
<1>1. CASE Refuse
  BY <1>1, LookKeeps, RefuseKeeps
<1>2. CASE /\ pc' = "serverBrace" /\ server' = NewServer
           /\ UNCHANGED <<block, directive, first, location, servers>>
  <2>1. TypeOK'
    BY <1>2, LookKeeps, NewFits DEF IInv, TypeOK, Tested
  <2>2. Begun'
    BY <1>2 DEF Begun
  <2>. QED  BY <2>1, <2>2 DEF IInv
<1>. QED  BY <1>1, <1>2 DEF ServerKeyword

\* In a server block: its end, a location, or a directive that belongs there.
LEMMA ServerItemKeeps ==
    ASSUME IInv, NEW t \in Token, Look(t), ServerItem(t) PROVE IInv'
<1>1. CASE t = "}"
  <2>1. /\ pc' = "file" /\ servers' = Append(servers, server)
        /\ UNCHANGED <<block, directive, first, server, location>>
    BY <1>1 DEF ServerItem, ServerDirectives
  <2>2. IsList(servers') /\ \A i \in 1 .. Len(servers') : ServerConfig(servers'[i])
    BY <2>1, ListGrows DEF IInv, TypeOK
  <2>3. TypeOK'
    BY <2>1, <2>2, LookKeeps DEF IInv, TypeOK
  <2>4. Begun'
    BY <2>1 DEF Begun
  <2>. QED  BY <2>3, <2>4 DEF IInv
<1>2. CASE t = "location"
  <2>1. /\ pc' = "path" /\ location' = NewLocation
        /\ UNCHANGED <<block, directive, first, server, servers>>
    BY <1>2 DEF ServerItem, ServerDirectives
  <2>2. TypeOK'
    BY <2>1, LookKeeps, NewFits DEF IInv, TypeOK
  <2>3. Begun'
    BY <1>2, <2>1, LookKeeps DEF Begun
  <2>. QED  BY <2>2, <2>3 DEF IInv
<1>3. CASE t \in ServerDirectives
  <2>1. /\ pc' = "value" /\ block' = "server" /\ directive' = t
        /\ UNCHANGED <<first, server, location, servers>>
    BY <1>3 DEF ServerItem, ServerDirectives
  <2>2. TypeOK'
    BY <1>3, <2>1, LookKeeps DEF IInv, TypeOK, Tested
  <2>3. Begun'
    BY <1>3, <2>1 DEF Begun
  <2>. QED  BY <2>2, <2>3 DEF IInv
<1>4. CASE t \notin {"}", "location"} \cup ServerDirectives
  <2>1. Refuse
    BY <1>4 DEF ServerItem
  <2>. QED  BY <2>1, LookKeeps, RefuseKeeps
<1>. QED  BY <1>1, <1>2, <1>3, <1>4

\* Any token is a path.
LEMMA LocationPathKeeps ==
    ASSUME IInv, NEW t \in Token, Look(t), LocationPath(t) PROVE IInv'
<1>1. LocationConfig(location')
  BY DEF IInv, TypeOK, LocationConfig, LocationPath
<1>2. TypeOK'
  BY <1>1, LookKeeps DEF IInv, TypeOK, LocationPath, Tested
<1>3. Begun'
  BY DEF Begun, LocationPath
<1>. QED  BY <1>2, <1>3 DEF IInv

\* In a location block: its end, or a directive that belongs there.
LEMMA LocationItemKeeps ==
    ASSUME IInv, NEW t \in Token, Look(t), LocationItem(t) PROVE IInv'
<1>1. CASE t = "}"
  <2>1. /\ pc' = "server" /\ server' = LocationAdded
        /\ UNCHANGED <<block, directive, first, location, servers>>
    BY <1>1 DEF LocationItem, LocationDirectives
  <2>2. ServerConfig(server')
    BY <2>1, AddedFits DEF IInv, TypeOK
  <2>3. TypeOK'
    BY <2>1, <2>2, LookKeeps DEF IInv, TypeOK, Tested
  <2>4. Begun'
    BY <2>1 DEF Begun
  <2>. QED  BY <2>3, <2>4 DEF IInv
<1>2. CASE t \in LocationDirectives
  <2>1. /\ pc' = IF t = "allowed_methods" THEN "methods" ELSE "value"
        /\ block' = "location" /\ directive' = t /\ first' = <<>>
        /\ UNCHANGED <<server, location, servers>>
    BY <1>2 DEF LocationItem, LocationDirectives
  <2>2. TypeOK'
    BY <1>2, <2>1, LookKeeps DEF IInv, TypeOK, Tested
  <2>3. Begun'
    BY <1>2, <2>1 DEF Begun
  <2>. QED  BY <2>2, <2>3 DEF IInv
<1>3. CASE t \notin {"}"} \cup LocationDirectives
  <2>1. Refuse
    BY <1>3 DEF LocationItem
  <2>. QED  BY <2>1, LookKeeps, RefuseKeeps
<1>. QED  BY <1>1, <1>2, <1>3

\* A value is set by the block it stands in,
LEMMA ValueKeeps ==
    ASSUME IInv, NEW t \in Token, Look(t), Value(t) PROVE IInv'
<1>1. CASE directive \in TwoValues
  <2>1. /\ pc' = "second" /\ first' = <<t>>
        /\ UNCHANGED <<block, directive, server, location, servers>>
    BY <1>1 DEF Value, TwoValues, OneValue
  <2>2. TypeOK'
    BY <2>1, LookKeeps DEF IInv, TypeOK, Tested
  <2>3. Begun'
    BY <2>1 DEF IInv, Begun, Value
  <2>. QED  BY <2>2, <2>3 DEF IInv
<1>2. CASE directive \in OneValue /\ Accepts(directive, t)
  <2>1. /\ pc' = "semicolon"
        /\ IF block = "server"
           THEN server' = SetServer(directive, t) /\ UNCHANGED location
           ELSE location' = SetLocation(directive, t) /\ UNCHANGED server
        /\ UNCHANGED <<block, directive, first, servers>>
    BY <1>2 DEF Value, TwoValues, OneValue
  <2>2. /\ directive \notin TwoValues \cup {"allowed_methods"}
        /\ directive \in IF block = "server" THEN ServerDirectives ELSE LocationDirectives
    BY <1>2 DEF IInv, Begun, Value, TwoValues, OneValue
  <2>3. ServerConfig(server') /\ LocationConfig(location')
    BY <1>2, <2>1, <2>2, SetServerFits, SetLocationFits DEF IInv, TypeOK
  <2>4. TypeOK'
    BY <2>1, <2>3, LookKeeps DEF IInv, TypeOK, Tested
  <2>5. Begun'
    BY <2>1 DEF Begun
  <2>. QED  BY <2>4, <2>5 DEF IInv
<1>3. CASE directive \notin TwoValues /\ ~(directive \in OneValue /\ Accepts(directive, t))
  <2>1. Refuse
    BY <1>3 DEF Value
  <2>. QED  BY <2>1, LookKeeps, RefuseKeeps
<1>. QED  BY <1>1, <1>2, <1>3

\* as is a pair of values.
LEMMA SecondValueKeeps ==
    ASSUME IInv, NEW t \in Token, Look(t), SecondValue(t) PROVE IInv'
<1>1. first[1] \in Token
  <2>1. first \in Seq(Token) /\ Len(first) = 1
    BY DEF IInv, TypeOK, SecondValue
  <2>2. 1 \in 1 .. Len(first)
    BY <2>1
  <2>. QED  BY <2>1, <2>2, ElementOfSeq
<1>2. ServerConfig(server') /\ LocationConfig(location')
  BY <1>1, AddedFits DEF IInv, TypeOK, SecondValue
<1>3. TypeOK'
  BY <1>2, LookKeeps DEF IInv, TypeOK, SecondValue, Tested
<1>4. Begun'
  BY DEF Begun, SecondValue
<1>. QED  BY <1>3, <1>4 DEF IInv

\* Methods are gathered until the semicolon.
LEMMA MethodKeeps ==
    ASSUME IInv, NEW t \in Token, Look(t), Method(t) PROVE IInv'
<1>1. CASE /\ first' = Append(first, t)
           /\ UNCHANGED <<pc, block, directive, server, location, servers>>
  <2>1. first' \in Seq(Token)
    BY <1>1 DEF IInv, TypeOK
  <2>2. TypeOK'
    BY <1>1, <2>1, LookKeeps DEF IInv, TypeOK, Method
  <2>3. Begun'
    BY <1>1 DEF Begun, Method
  <2>. QED  BY <2>2, <2>3 DEF IInv
<1>2. CASE /\ location' = [location EXCEPT !.methods = first]
           /\ pc' = "location" /\ first' = <<>>
           /\ UNCHANGED <<block, directive, server, servers>>
  <2>1. LocationConfig(location')
    BY <1>2 DEF IInv, TypeOK, LocationConfig
  <2>2. TypeOK'
    BY <1>2, <2>1, LookKeeps DEF IInv, TypeOK, Tested
  <2>3. Begun'
    BY <1>2 DEF Begun
  <2>. QED  BY <2>2, <2>3 DEF IInv
<1>3. CASE Refuse
  BY <1>3, LookKeeps, RefuseKeeps
<1>. QED  BY <1>1, <1>2, <1>3 DEF Method

\* Every look keeps the invariant,
LEMMA StepKeeps == ASSUME IInv, NEW t \in Token, Look(t), Step(t) PROVE IInv'
<1>1. CASE ServerBrace(t) \/ LocationBrace(t) \/ Semicolon(t)
  BY <1>1, ExpectKeeps DEF ServerBrace, LocationBrace, Semicolon
<1>. QED  BY <1>1, ServerKeywordKeeps, ServerItemKeeps, LocationPathKeeps, LocationItemKeeps,
             ValueKeeps, SecondValueKeeps, MethodKeeps DEF Step

\* and so does the end of the file.
LEMMA EndOfFileKeeps == ASSUME IInv, EndOfFile PROVE IInv'
<1>. /\ tokens' = tokens /\ slips' = slips /\ tokens \in Seq(Token)
     /\ Len(tokens) <= MaxTokens /\ slips \in 0 .. MaxSlips
  BY DEF IInv, TypeOK, EndOfFile
<1>1. CASE Refuse
  BY <1>1, RefuseKeeps
<1>2. CASE FileEnds /\ pc' = "accepted" /\ Nothing
  <2>1. TypeOK'
    BY <1>2 DEF IInv, TypeOK, Nothing
  <2>2. Begun'
    BY <1>2 DEF Begun
  <2>. QED  BY <2>1, <2>2 DEF IInv
<1>3. CASE ReadsPastEnd
  <2>1. pc = "path"
    BY <1>3 DEF IInv, TypeOK, ReadsPastEnd
  <2>2. TypeOK'
    BY <1>3 DEF IInv, TypeOK, Nothing, ReadsPastEnd
  <2>3. Begun'
    BY <1>3, <2>1 DEF IInv, Begun, Nothing, ReadsPastEnd
  <2>. QED  BY <2>2, <2>3 DEF IInv
<1>. QED  BY <1>1, <1>2, <1>3 DEF EndOfFile, FileEnds, FileEndsEarly, OverrunNoticed

-----------------------------------------------------------------------------
(* Theorems.                                                               *)

\* What the parser builds fits the classes, and the word location comes right
\* before the look that nothing tests: ConfigParser::parseConfigFile and all it
\* calls.
THEOREM Inductive == Spec => []IInv
<1>1. Init => IInv
  BY NewFits, EmptyIsList, TokenAssumption DEF Init, IInv, TypeOK, Begun, ServerDirectives
<1>2. IInv /\ [Next]_vars => IInv'
  <2>. SUFFICES ASSUME IInv, [Next]_vars PROVE IInv'
    OBVIOUS
  <2>1. CASE UNCHANGED vars
    BY <2>1 DEF vars, IInv, TypeOK, Begun
  <2>2. CASE Parsed
    BY <2>2 DEF Parsed, vars, IInv, TypeOK, Begun
  <2>3. ASSUME NEW t \in Token, Look(t) /\ Step(t) PROVE IInv'
    BY <2>3, StepKeeps
  <2>. QED  BY <2>1, <2>2, <2>3, EndOfFileKeeps DEF Next
<1>. QED  BY <1>1, <1>2, PTL DEF Spec

\* In files of every length, whatever the tokens are: the parser's state and the
\* settings read have their types, in particular every limit fits a size_t.
THEOREM TypeCorrect == Spec => []TypeOK
<1>1. IInv => TypeOK
  BY DEF IInv
<1>. QED  BY <1>1, Inductive, PTL

\* parseLocationBlock is the only place that reads behind the last token, and
\* does so when the file ends with the word location as a statement.
THEOREM OverrunsAreKnown == Spec => []OnlyLocationOverruns
<1>1. IInv => OnlyLocationOverruns
  BY DEF IInv, Begun, OnlyLocationOverruns, Last
<1>. QED  BY <1>1, Inductive, PTL

-----------------------------------------------------------------------------
(* One token after the other.                                              *)

\* The token at i is t.
TokenAt(g, i, t) == g[i] = t
Semi == ";"
Brace == "{"
Same(f, p, g) == \A i \in 1 .. p - 1 : g[i] = f[i]

\* A token behind a file leaves the tokens before it,
LEMMA OneTokenMore ==
    ASSUME NEW S, NEW f \in Seq(S), NEW p, IsFile(f, p), NEW t
    PROVE  /\ IsFile(Append(f, t), p + 1) /\ Extends(f, p, Append(f, t), p + 1)
           /\ TokenAt(Append(f, t), p, t) /\ Same(f, p, Append(f, t))
<1>. DEFINE T == S \cup {t}
            g == Append(f, t)
<1>1. p \in Nat /\ p # 0 /\ Len(f) = p - 1 /\ DOMAIN f = 1 .. p - 1
  BY DEF IsFile
<1>2. f \in Seq(T) /\ t \in T
  OBVIOUS
<1>. HIDE DEF T
<1>3. g \in Seq(T) /\ Len(g) = Len(f) + 1 /\ g[Len(f) + 1] = t
      /\ \A i \in 1 .. Len(f) : g[i] = f[i]
  BY <1>2
<1>4. Len(g) = p /\ g[p] = t /\ \A i \in 1 .. p - 1 : g[i] = f[i]
  BY <1>1, <1>3
<1>5. DOMAIN g = 1 .. Len(g)
  BY <1>3
<1>. HIDE DEF g
<1>6. (p + 1) - 1 = p /\ p + 1 \in Nat \ {0} /\ p <= p + 1
  BY <1>1
<1>7. IsFile(g, p + 1)
  BY <1>4, <1>5, <1>6 DEF IsFile
<1>. QED  BY <1>4, <1>6, <1>7 DEF Extends, TokenAt, Same, g

\* also when the file went on before.
LEMMA ExtendsMore ==
    ASSUME NEW S, NEW g \in Seq(S), NEW f, NEW p, NEW q, Extends(f, p, g, q), NEW t
    PROVE  /\ Extends(f, p, Append(g, t), q + 1)
           /\ TokenAt(Append(g, t), q, t) /\ Same(g, q, Append(g, t))
           /\ p \in Nat \ {0} /\ q \in Nat /\ p <= q
<1>. DEFINE h == Append(g, t)
<1>1. /\ IsFile(f, p) /\ IsFile(g, q) /\ p <= q /\ p \in Nat \ {0} /\ q \in Nat
      /\ \A i \in 1 .. p - 1 : g[i] = f[i]
  BY DEF Extends, IsFile
<1>2. IsFile(h, q + 1) /\ TokenAt(h, q, t) /\ Same(g, q, h)
  BY <1>1, OneTokenMore
<1>. HIDE DEF h
<1>3. p <= q + 1 /\ \A i \in 1 .. p - 1 : i \in 1 .. q - 1
  BY <1>1
<1>4. \A i \in 1 .. p - 1 : h[i] = f[i]
  BY <1>1, <1>2, <1>3 DEF Same
<1>5. Extends(f, p, h, q + 1)
  BY <1>1, <1>2, <1>3, <1>4 DEF Extends
<1>. QED  BY <1>1, <1>2, <1>5 DEF h

\* When all tokens of the next statement are there, the file has one more.
LEMMA StatementAdds ==
    ASSUME NEW f, NEW p, NEW H, Complete(f, p, H), NEW g, NEW q, Extends(f, p, g, q),
           p < q, p + Width(g, p) = q
    PROVE  Adds(f, p, H, g, q, H \cup {q})
BY DEF Adds, Extends

-----------------------------------------------------------------------------
(* The beginning and the end of the file.                                  *)

\* Before the first token nothing is read.
LEMMA FileBegins == \E H : AtFile(<<>>, 1, H, <<>>)
<1>. DEFINE H == {1}
            f == <<>>
<1>1. IsFile(f, 1)
  BY DEF IsFile
<1>2. 1 .. 1 - 1 = {}
  OBVIOUS
<1>3. IsHeads(f, 1, H)
  BY <1>2 DEF IsHeads, Closed
<1>4. Complete(f, 1, H)
  BY <1>1, <1>2, <1>3 DEF Complete
<1>5. Servers(f, H) = {}
  BY <1>1, <1>2 DEF Servers, IsFile
<1>6. AreServers(f, H, f, DoneServers(f, H))
  <2>1. DoneServers(f, H) = {}
    BY <1>5 DEF DoneServers
  <2>2. Cardinality({}) = 0 /\ Len(f) = 0 /\ 1 .. 0 = {}
    BY FS_EmptySet
  <2>. QED  BY <2>1, <2>2 DEF AreServers
<1>7. Depth(f, H, 1) = 0
  <2>1. Opened(f, H, 1) = {} /\ Left(f, H, 1) = {}
    <3>1. \A h \in H : ~ (h < 1)
      OBVIOUS
    <3>. HIDE DEF H
    <3>. QED  BY <3>1 DEF Opened, Left
  <2>2. Cardinality({}) = 0
    BY FS_EmptySet
  <2>3. Depth(f, H, 1) = Cardinality(Opened(f, H, 1)) - Cardinality(Left(f, H, 1))
    <3>1. 1 \in Nat /\ H \subseteq 1 .. 1
      OBVIOUS
    <3>. HIDE DEF H, f
    <3>. QED  BY <3>1, DepthIsNumber
  <2>. HIDE DEF H, f
  <2>4. 0 - 0 = 0
    OBVIOUS
  <2>. QED  BY <2>1, <2>2, <2>3, <2>4
<1>8. AtFile(f, 1, H, f)
  BY <1>4, <1>6, <1>7 DEF AtFile
<1>. QED  BY <1>8

\* Between the server blocks, what is read is what the reference reads.
LEMMA FileIsRead ==
    ASSUME NEW f, NEW p, NEW H, NEW list, AtFile(f, p, H, list), IsList(list)
    PROVE  /\ H = Heads(f) /\ list = Reading(f) /\ p = Len(f) + 1
           /\ list # <<>> => f # <<>>
<1>1. Complete(f, p, H) /\ Depth(f, H, p) = 0 /\ IsFile(f, p)
  BY DEF AtFile, Complete
<1>2. H = Heads(f)
  BY <1>1, HeadsAre, HeadsAreUnique DEF Complete
<1>3. p = Len(f) + 1
  BY <1>1 DEF IsFile
<1>4. DoneServers(f, H) = Servers(f, H)
  <2>1. \A h \in Servers(f, H) : Open(f, H, h) => Depth(f, H, p) > 0
    BY <1>1, DepthOfBlock
  <2>2. \A h \in Servers(f, H) : ~ Open(f, H, h)
    BY <1>1, <2>1
  <2>. QED  BY <2>2 DEF DoneServers
<1>. DEFINE S == Servers(f, H)
            n == Cardinality(S)
<1>5. Len(list) = n /\ \A k \in 1 .. n : list[k] = ServerAt(f, H, InOrder(S)[k])
  BY <1>4 DEF AtFile, AreServers
<1>6. list = [k \in 1 .. n |-> list[k]]
  BY <1>5, Appended
<1>7. Reading(f) = [k \in DOMAIN InOrder(S) |-> ServerAt(f, H, InOrder(S)[k])]
  BY <1>2 DEF Reading
<1>8. DOMAIN InOrder(S) = 1 .. n
  BY DEF InOrder
<1>9. ASSUME f = <<>> PROVE n = 0
  <2>1. DOMAIN f = {}
    BY <1>9
  <2>2. S = {}
    BY <2>1 DEF Servers
  <2>. QED  BY <2>2, FS_EmptySet
<1>. HIDE DEF S, n
<1>10. list = Reading(f)
  BY <1>5, <1>6, <1>7, <1>8
<1>11. list # <<>> => f # <<>>
  <2>1. ASSUME n = 0 PROVE list = <<>>
    <3>1. list \in Seq(Range(list)) /\ Len(list) = 0
      BY <1>5, <2>1 DEF IsList
    <3>. QED  BY <3>1
  <2>. QED  BY <1>9, <2>1
<1>. QED  BY <1>2, <1>3, <1>10, <1>11

-----------------------------------------------------------------------------
(* The statements, token after token.                                      *)

\* How many tokens a statement has, by its first.
LEMMA Widths ==
    ASSUME NEW g, NEW p
    PROVE  /\ TokenAt(g, p, "server") => Width(g, p) = 2
           /\ TokenAt(g, p, "location") => Width(g, p) = 3
           /\ TokenAt(g, p, "}") => Width(g, p) = 1
           /\ TokenAt(g, p, "allowed_methods") => Width(g, p) = ListEnd(g, p) - p + 1
           /\ \A name \in OneValue : TokenAt(g, p, name) => Width(g, p) = 3
           /\ \A name \in TwoValues : TokenAt(g, p, name) => Width(g, p) = 4
<1>1. TokenAt(g, p, "server") => Width(g, p) = 2
  BY DEF Width, TokenAt, TwoValues
<1>2. TokenAt(g, p, "location") => Width(g, p) = 3
  BY DEF Width, TokenAt, TwoValues
<1>3. TokenAt(g, p, "}") => Width(g, p) = 1
  BY DEF Width, TokenAt, TwoValues
<1>4. TokenAt(g, p, "allowed_methods") => Width(g, p) = ListEnd(g, p) - p + 1
  BY DEF Width, TokenAt, TwoValues
<1>5. \A name \in OneValue : TokenAt(g, p, name) => Width(g, p) = 3
  BY DEF Width, TokenAt, OneValue, TwoValues
<1>6. \A name \in TwoValues : TokenAt(g, p, name) => Width(g, p) = 4
  BY DEF Width, TokenAt, TwoValues
<1>. QED  BY <1>1, <1>2, <1>3, <1>4, <1>5, <1>6

\* A } is a statement,
LEMMA CloseAdds ==
    ASSUME NEW S, NEW f \in Seq(S), NEW p, NEW H, Complete(f, p, H)
    PROVE  LET g == Append(f, "}")
           IN  Adds(f, p, H, g, p + 1, H \cup {p + 1}) /\ Closing(g, p)
<1>. DEFINE g == Append(f, "}")
<1>1. IsFile(f, p) /\ p \in Nat
  BY DEF Complete, IsFile
<1>2. Extends(f, p, g, p + 1) /\ TokenAt(g, p, "}")
  BY <1>1, OneTokenMore
<1>. HIDE DEF g
<1>3. Width(g, p) = 1
  BY <1>2, Widths
<1>4. p < p + 1 /\ p + Width(g, p) = p + 1
  BY <1>1, <1>3
<1>5. Adds(f, p, H, g, p + 1, H \cup {p + 1})
  BY <1>2, <1>4, StatementAdds
<1>6. Closing(g, p)
  BY <1>2 DEF Closing, TokenAt
<1>. QED  BY <1>5, <1>6 DEF g

\* so are server {,
LEMMA ServerAdds ==
    ASSUME NEW S, NEW f \in Seq(S), NEW p, NEW H, Complete(f, p, H)
    PROVE  LET g == Append(Append(f, "server"), Brace)
           IN  Adds(f, p, H, g, p + 2, H \cup {p + 2}) /\ BeginsServer(g, p)
<1>. DEFINE T == S \cup {"server"}
            c == Append(f, "server")
            g == Append(c, Brace)
<1>1. IsFile(f, p) /\ p \in Nat /\ p # 0
  BY DEF Complete, IsFile
<1>2. Extends(f, p, c, p + 1) /\ TokenAt(c, p, "server") /\ IsFile(c, p + 1)
  BY <1>1, OneTokenMore
<1>3. c \in Seq(T)
  OBVIOUS
<1>. HIDE DEF c, T
<1>4. Extends(f, p, g, (p + 1) + 1) /\ TokenAt(g, p + 1, Brace) /\ Same(c, p + 1, g)
  BY <1>2, <1>3, ExtendsMore
<1>. HIDE DEF g
<1>5. (p + 1) + 1 = p + 2 /\ p \in 1 .. (p + 1) - 1 /\ p + 1 \in 1 .. (p + 2) - 1
      /\ p \in 1 .. (p + 2) - 1
  BY <1>1
<1>6. TokenAt(g, p, "server")
  BY <1>2, <1>4, <1>5 DEF Same, TokenAt
<1>7. Width(g, p) = 2
  BY <1>6, Widths
<1>8. p < p + 2 /\ p + Width(g, p) = p + 2
  BY <1>1, <1>7
<1>9. Extends(f, p, g, p + 2)
  BY <1>4, <1>5
<1>10. Adds(f, p, H, g, p + 2, H \cup {p + 2})
  BY <1>8, <1>9, StatementAdds
<1>11. DOMAIN g = 1 .. (p + 2) - 1
  BY <1>9 DEF Extends, IsFile
<1>12. BeginsServer(g, p)
  BY <1>4, <1>5, <1>6, <1>11 DEF BeginsServer, IsAt, TokenAt, Brace
<1>. QED  BY <1>10, <1>12 DEF g, c

\* g goes on from c with two tokens.
GoesOn(g, c, t, last) == g = Append(Append(c, t), last)

\* location with a path and {,
LEMMA LocationAdds ==
    ASSUME NEW S, NEW c \in Seq(S), NEW f, NEW p, NEW H, Complete(f, p, H),
           Extends(f, p, c, p + 1), TokenAt(c, p, "location"), NEW t,
           NEW g, GoesOn(g, c, t, Brace)
    PROVE  /\ Adds(f, p, H, g, p + 3, H \cup {p + 3})
           /\ BeginsLocation(g, p) /\ Value1(g, p) = t
<1>. DEFINE T == S \cup {t}
            d == Append(c, t)
<1>1. p \in Nat /\ p # 0
  BY DEF Complete, IsFile
<1>2. Extends(f, p, d, (p + 1) + 1) /\ TokenAt(d, p + 1, t) /\ Same(c, p + 1, d)
  BY ExtendsMore
<1>3. d \in Seq(T)
  OBVIOUS
<1>g. g = Append(d, Brace)
  BY DEF GoesOn
<1>. HIDE DEF d, T
<1>4. /\ Extends(f, p, g, ((p + 1) + 1) + 1) /\ TokenAt(g, (p + 1) + 1, Brace)
      /\ Same(d, (p + 1) + 1, g)
  BY <1>2, <1>3, <1>g, ExtendsMore
<1>5. (p + 1) + 1 = p + 2 /\ p + 2 + 1 = p + 3 /\ p \in 1 .. (p + 1) - 1
      /\ p + 1 \in 1 .. (p + 2) - 1 /\ p \in 1 .. (p + 2) - 1
      /\ p \in 1 .. (p + 3) - 1 /\ p + 2 \in 1 .. (p + 3) - 1
  BY <1>1
<1>6. TokenAt(g, p, "location")
  BY <1>2, <1>4, <1>5 DEF Same, TokenAt
<1>7. Value1(g, p) = t
  BY <1>2, <1>4, <1>5 DEF Same, TokenAt, Value1
<1>8. Width(g, p) = 3
  BY <1>6, Widths
<1>9. p < p + 3 /\ p + Width(g, p) = p + 3
  BY <1>1, <1>8
<1>10. Extends(f, p, g, p + 3)
  BY <1>4, <1>5
<1>11. Adds(f, p, H, g, p + 3, H \cup {p + 3})
  BY <1>9, <1>10, StatementAdds
<1>12. DOMAIN g = 1 .. (p + 3) - 1
  BY <1>10 DEF Extends, IsFile
<1>13. BeginsLocation(g, p)
  BY <1>4, <1>5, <1>6, <1>12 DEF BeginsLocation, IsAt, TokenAt, Brace
<1>. QED  BY <1>7, <1>11, <1>13

\* a directive with a value and ;,
LEMMA OneValueAdds ==
    ASSUME NEW S, NEW c \in Seq(S), NEW f, NEW p, NEW H, Complete(f, p, H),
           Extends(f, p, c, p + 1), NEW name \in OneValue, TokenAt(c, p, name), NEW t,
           NEW g, GoesOn(g, c, t, Semi)
    PROVE  /\ Adds(f, p, H, g, p + 3, H \cup {p + 3})
           /\ TokenAt(g, p, name) /\ Value1(g, p) = t
           /\ TokenAt(g, (p + 3) - 1, Semi) /\ p + 2 < p + 3
<1>. DEFINE T == S \cup {t}
            d == Append(c, t)
<1>1. p \in Nat /\ p # 0
  BY DEF Complete, IsFile
<1>2. Extends(f, p, d, (p + 1) + 1) /\ TokenAt(d, p + 1, t) /\ Same(c, p + 1, d)
  BY ExtendsMore
<1>3. d \in Seq(T)
  OBVIOUS
<1>g. g = Append(d, Semi)
  BY DEF GoesOn
<1>. HIDE DEF d, T
<1>4. /\ Extends(f, p, g, ((p + 1) + 1) + 1) /\ TokenAt(g, (p + 1) + 1, Semi)
      /\ Same(d, (p + 1) + 1, g)
  BY <1>2, <1>3, <1>g, ExtendsMore
<1>5. (p + 1) + 1 = p + 2 /\ p + 2 + 1 = p + 3 /\ p \in 1 .. (p + 1) - 1
      /\ p + 1 \in 1 .. (p + 2) - 1 /\ p \in 1 .. (p + 2) - 1
      /\ (p + 3) - 1 = p + 2 /\ p + 2 < p + 3
  BY <1>1
<1>6. TokenAt(g, p, name)
  BY <1>2, <1>4, <1>5 DEF Same, TokenAt
<1>7. Value1(g, p) = t
  BY <1>2, <1>4, <1>5 DEF Same, TokenAt, Value1
<1>8. Width(g, p) = 3
  BY <1>6, Widths
<1>9. p < p + 3 /\ p + Width(g, p) = p + 3
  BY <1>1, <1>8
<1>10. Extends(f, p, g, p + 3) /\ TokenAt(g, (p + 3) - 1, Semi)
  BY <1>4, <1>5
<1>11. Adds(f, p, H, g, p + 3, H \cup {p + 3})
  BY <1>9, <1>10, StatementAdds
<1>. QED  BY <1>5, <1>6, <1>7, <1>10, <1>11

TwoWritten(f, p, H, c, name, v) ==
    /\ c \in Seq(Token) /\ name \in TwoValues
    /\ Complete(f, p, H) /\ Extends(f, p, c, p + 2)
    /\ TokenAt(c, p, name) /\ TokenAt(c, p + 1, v)
TwoAdded(f, p, H, g, name, v, w) ==
    /\ Adds(f, p, H, g, p + 4, H \cup {p + 4})
    /\ TokenAt(g, p, name) /\ Value1(g, p) = v /\ Value2(g, p) = w
    /\ TokenAt(g, (p + 4) - 1, Semi) /\ p + 2 < p + 4

\* one with two values and ;,
LEMMA TwoValuesAdd ==
    ASSUME NEW f, NEW p, NEW H, NEW c, NEW name, NEW v, TwoWritten(f, p, H, c, name, v),
           NEW w, NEW g, GoesOn(g, c, w, Semi)
    PROVE  TwoAdded(f, p, H, g, name, v, w)
<1>. SUFFICES ASSUME c \in Seq(Token), name \in TwoValues, Complete(f, p, H),
                     Extends(f, p, c, p + 2), TokenAt(c, p, name), TokenAt(c, p + 1, v)
              PROVE  /\ Adds(f, p, H, g, p + 4, H \cup {p + 4})
                     /\ TokenAt(g, p, name) /\ Value1(g, p) = v /\ Value2(g, p) = w
                     /\ TokenAt(g, (p + 4) - 1, Semi) /\ p + 2 < p + 4
  BY DEF TwoWritten, TwoAdded
<1>. DEFINE T == Token \cup {w}
            d == Append(c, w)
<1>1. p \in Nat /\ p # 0
  BY DEF Complete, IsFile
<1>2. Extends(f, p, d, (p + 2) + 1) /\ TokenAt(d, p + 2, w) /\ Same(c, p + 2, d)
  BY ExtendsMore
<1>3. d \in Seq(T)
  OBVIOUS
<1>g. g = Append(d, Semi)
  BY DEF GoesOn
<1>. HIDE DEF d, T
<1>4. /\ Extends(f, p, g, ((p + 2) + 1) + 1) /\ TokenAt(g, (p + 2) + 1, Semi)
      /\ Same(d, (p + 2) + 1, g)
  BY <1>2, <1>3, <1>g, ExtendsMore
<1>5. (p + 2) + 1 = p + 3 /\ p + 3 + 1 = p + 4 /\ p \in 1 .. (p + 2) - 1
      /\ p + 1 \in 1 .. (p + 2) - 1
      /\ p \in 1 .. (p + 3) - 1 /\ p + 1 \in 1 .. (p + 3) - 1
      /\ p + 2 \in 1 .. (p + 3) - 1
      /\ (p + 4) - 1 = p + 3 /\ p + 2 < p + 4
  BY <1>1
<1>6. TokenAt(g, p, name)
  BY <1>2, <1>4, <1>5 DEF Same, TokenAt
<1>7. Value1(g, p) = v /\ Value2(g, p) = w
  BY <1>2, <1>4, <1>5 DEF Same, TokenAt, Value1, Value2
<1>8. Width(g, p) = 4
  BY <1>6, Widths
<1>9. p < p + 4 /\ p + Width(g, p) = p + 4
  BY <1>1, <1>8
<1>10. Extends(f, p, g, p + 4) /\ TokenAt(g, (p + 4) - 1, Semi)
  BY <1>4, <1>5
<1>11. Adds(f, p, H, g, p + 4, H \cup {p + 4})
  BY <1>9, <1>10, StatementAdds
<1>. QED  BY <1>5, <1>6, <1>7, <1>10, <1>11

\* A list that stands behind p is the tokens from p + 1 on.
LEMMA CopyOf ==
    ASSUME NEW S, NEW list \in Seq(S), NEW g, NEW p \in Nat,
           \A k \in 1 .. Len(list) : g[p + k] = list[k]
    PROVE  SubSeq(g, p + 1, p + Len(list)) = list
<1>. DEFINE n == Len(list)
            copy == SubSeq(g, p + 1, p + n)
<1>1. n \in Nat /\ \A k \in 1 .. n : list[k] \in S
  OBVIOUS
<1>. HIDE DEF n
<1>2. p + 1 \in Int /\ p + n \in Int /\ (p + n) - (p + 1) + 1 = n
      /\ (IF p + 1 <= p + n THEN (p + n) - (p + 1) + 1 ELSE 0) = n
  BY <1>1
<1>3. \A k \in 1 .. n : p + 1 + k - 1 = p + k
  BY <1>1
<1>4. ASSUME NEW i \in p + 1 .. p + n PROVE g[i] \in S
  <2>1. i - p \in 1 .. n /\ p + (i - p) = i
    BY <1>1
  <2>. QED  BY <1>1, <2>1 DEF n
<1>5. /\ copy \in Seq(S) /\ Len(copy) = n
      /\ \A k \in 1 .. n : copy[k] = g[p + 1 + k - 1]
  <2>1. /\ copy \in Seq(S)
        /\ Len(copy) = IF p + 1 <= p + n THEN (p + n) - (p + 1) + 1 ELSE 0
        /\ \A k \in 1 .. (p + n) - (p + 1) + 1 : copy[k] = g[p + 1 + k - 1]
    <3>1. p + 1 \in Int /\ p + n \in Int
      BY <1>2
    <3>. QED  BY <1>4, <3>1, SubSeqProperties
  <2>. HIDE DEF copy
  <2>2. Len(copy) = n
    BY <1>2, <2>1
  <2>3. \A k \in 1 .. n : copy[k] = g[p + 1 + k - 1]
    BY <1>2, <2>1
  <2>. QED  BY <2>1, <2>2, <2>3
<1>. HIDE DEF copy
<1>6. \A k \in 1 .. n : copy[k] = list[k]
  BY <1>3, <1>5 DEF n
<1>7. copy = list
  <2>1. Len(list) = n /\ DOMAIN list = 1 .. n /\ DOMAIN copy = 1 .. n
    BY <1>5 DEF n
  <2>2. list = [k \in 1 .. n |-> list[k]] /\ copy = [k \in 1 .. n |-> copy[k]]
    BY <1>5, <2>1
  <2>. QED  BY <1>6, <2>2
<1>. QED  BY <1>7 DEF copy, n

IsListAt(g, p, list) ==
    \A k \in 1 .. Len(list) : g[p + k] = list[k] /\ list[k] # Semi

MethodsEnd(g, q, c, p, list) == g = Append(c, Semi) /\ q = p + 2 + Len(list)

MethodsWritten(f, p, H, c, list) ==
    /\ c \in Seq(Token) /\ list \in Seq(Token) /\ list # <<>>
    /\ Complete(f, p, H) /\ Extends(f, p, c, p + 1 + Len(list))
    /\ TokenAt(c, p, "allowed_methods") /\ IsListAt(c, p, list)
MethodsAdded(f, p, H, g, q, list) ==
    /\ Adds(f, p, H, g, q, H \cup {q})
    /\ TokenAt(g, p, "allowed_methods")
    /\ SubSeq(g, p + 1, ListEnd(g, p) - 1) = list
    /\ TokenAt(g, q - 1, Semi) /\ p + 2 < q

\* and allowed_methods with its list and ;.
LEMMA MethodsAdd ==
    ASSUME NEW f, NEW p, NEW H, NEW c, NEW list, MethodsWritten(f, p, H, c, list),
           NEW g, NEW q, MethodsEnd(g, q, c, p, list)
    PROVE  MethodsAdded(f, p, H, g, q, list)
<1>. SUFFICES ASSUME c \in Seq(Token), list \in Seq(Token), list # <<>>, Complete(f, p, H),
                     Extends(f, p, c, p + 1 + Len(list)),
                     TokenAt(c, p, "allowed_methods"), IsListAt(c, p, list)
              PROVE  /\ Adds(f, p, H, g, q, H \cup {q})
                     /\ TokenAt(g, p, "allowed_methods")
                     /\ SubSeq(g, p + 1, ListEnd(g, p) - 1) = list
                     /\ TokenAt(g, q - 1, Semi) /\ p + 2 < q
  BY DEF MethodsWritten, MethodsAdded
<1>. DEFINE n == Len(list)
<1>1. p \in Nat /\ p # 0
  BY DEF Complete, IsFile
<1>2. n \in Nat /\ n # 0 /\ list = [k \in 1 .. n |-> list[k]]
  OBVIOUS
<1>q. q = p + 2 + n /\ g = Append(c, Semi)
  BY DEF MethodsEnd
<1>. HIDE DEF n
<1>3. /\ Extends(f, p, g, (p + 1 + n) + 1) /\ TokenAt(g, p + 1 + n, Semi)
      /\ Same(c, p + 1 + n, g)
  BY <1>q, ExtendsMore DEF n
<1>4. (p + 1 + n) + 1 = q /\ p \in 1 .. (p + 1 + n) - 1 /\ p + 2 < q /\ q - 1 = p + 1 + n
      /\ q \in Nat /\ p < q /\ p \in 1 .. q - 1
      /\ \A k \in 1 .. n : p + k \in 1 .. (p + 1 + n) - 1
  <2>1. q = p + 2 + n
    BY <1>q
  <2>2. p \in Nat /\ p # 0 /\ n \in Nat /\ n # 0
    BY <1>1, <1>2
  <2>3. \A k \in 1 .. n : p + k \in 1 .. (p + 1 + n) - 1
    BY <2>2
  <2>. QED  BY <2>1, <2>2, <2>3
<1>5. TokenAt(g, p, "allowed_methods")
  BY <1>3, <1>4 DEF Same, TokenAt
<1>6. \A k \in 1 .. n : g[p + k] = list[k] /\ list[k] # Semi
  BY <1>3, <1>4 DEF Same, IsListAt, n
<1>7. Extends(f, p, g, q) /\ IsFile(g, q)
  BY <1>3, <1>4 DEF Extends
<1>8. ListEnd(g, p) = q - 1
  <2>. DEFINE e == ListEnd(g, p)
  <2>1. e \in Nat /\ p < e
    BY <1>4, <1>7, ListEndIs
  <2>2. e < q => TokenAt(g, e, Semi)
    BY <1>4, <1>7, ListEndIs DEF TokenAt, Semi
  <2>3. \A j \in p + 1 .. q - 1 : TokenAt(g, j, Semi) => e <= j
    BY <1>4, <1>7, ListEndIs DEF TokenAt, Semi
  <2>. HIDE DEF e
  <2>4. e <= q - 1
    <3>1. q - 1 \in p + 1 .. q - 1
      <4>1. p \in Nat /\ q \in Nat /\ p + 2 < q
        BY <1>1, <1>4
      <4>. QED  BY <4>1
    <3>2. TokenAt(g, q - 1, Semi)
      BY <1>3, <1>4
    <3>. QED  BY <2>3, <3>1, <3>2
  <2>5. ASSUME e # q - 1 PROVE FALSE
    <3>1. e - p \in 1 .. n /\ p + (e - p) = e /\ e < q
      <4>1. n \in Nat /\ q - 1 = p + 1 + n /\ q \in Nat
        BY <1>2, <1>4
      <4>. QED  BY <1>1, <2>1, <2>4, <2>5, <4>1
    <3>2. ~ TokenAt(g, p + (e - p), Semi)
      BY <1>6, <3>1 DEF TokenAt
    <3>. QED  BY <2>2, <3>1, <3>2
  <2>. QED  BY <2>5 DEF e
<1>9. Width(g, p) = ListEnd(g, p) - p + 1
  BY <1>5, Widths
<1>10. p + Width(g, p) = q
  BY <1>1, <1>2, <1>4, <1>8, <1>9
<1>11. SubSeq(g, p + 1, ListEnd(g, p) - 1) = list
  <2>1. ListEnd(g, p) - 1 = p + n
    BY <1>1, <1>2, <1>4, <1>8
  <2>2. \A k \in 1 .. Len(list) : g[p + k] = list[k]
    BY <1>6 DEF n
  <2>3. SubSeq(g, p + 1, p + Len(list)) = list
    BY <1>1, <2>2, CopyOf
  <2>. QED  BY <2>1, <2>3 DEF n
<1>12. Adds(f, p, H, g, q, H \cup {q})
  BY <1>4, <1>7, <1>10, StatementAdds
<1>13. TokenAt(g, q - 1, Semi) /\ p + 2 < q
  BY <1>3, <1>4
<1>. QED  BY <1>5, <1>11, <1>12, <1>13

\* What a directive takes.
IsDirective(f, p, H, g, q) ==
    /\ \/ Depth(f, H, p) = 1 /\ IsSetting(g[p])
       \/ Depth(f, H, p) = 2 /\ IsLocationSetting(g[p])
    /\ p + 2 < q /\ TokenAt(g, q - 1, Semi) /\ Accepts(g[p], Value1(g, p))

\* A directive with a value it accepts, in the block it belongs to, is all right.
LEMMA DirectiveIsOK ==
    ASSUME NEW f, NEW p, NEW H, NEW g, NEW q, NEW K, Adds(f, p, H, g, q, K),
           IsDirective(f, p, H, g, q)
    PROVE  StatementOK(g, K, p)
<1>1. p \in Nat /\ p # 0 /\ q \in Nat /\ p \in 1 .. p /\ p \in 1 .. q - 1
      /\ DOMAIN g = 1 .. q - 1 /\ IsFile(g, q)
  BY DEF Adds, Complete, IsFile
<1>2. Depth(g, K, p) = Depth(f, H, p)
  BY <1>1, DepthKept
<1>3. p + Width(g, p) = q /\ Width(g, p) \in Nat
  BY <1>1, WidthIs DEF Adds
<1>d. p + 2 < q /\ TokenAt(g, q - 1, Semi)
  BY DEF IsDirective
<1>4. p + Width(g, p) - 1 = q - 1 /\ p + 2 <= q - 1 /\ q - 1 \in 1 .. q - 1
  <2>1. p \in Nat /\ q \in Nat /\ p + 2 < q
    BY <1>1, <1>d
  <2>. QED  BY <1>3, <2>1
<1>5. IsAt(g, p + Width(g, p) - 1, ";")
  BY <1>1, <1>4, <1>d DEF IsAt, TokenAt, Semi
<1>6. /\ g[p] # "server" /\ g[p] # "location" /\ g[p] # "}"
  BY DEF IsDirective, IsSetting, IsLocationSetting, ServerDirectives, LocationDirectives
<1>7. p + 2 <= p + Width(g, p) - 1
  BY <1>4
<1>8. \/ Depth(g, K, p) = 1 /\ g[p] \in ServerDirectives
      \/ Depth(g, K, p) = 2 /\ g[p] \in LocationDirectives
  BY <1>2 DEF IsDirective, IsSetting, IsLocationSetting
<1>9. Accepts(g[p], g[p + 1])
  BY DEF IsDirective, Value1
<1>. QED  BY <1>5, <1>6, <1>7, <1>8, <1>9 DEF StatementOK

-----------------------------------------------------------------------------
(* What the setters do.                                                    *)

\* A server has these fields and no others.
LEMMA ServerFields ==
    ASSUME NEW s, ServerConfig(s)
    PROVE  /\ s = [port |-> s.port, root |-> s.root, index |-> s.index, limit |-> s.limit,
                   errorPages |-> s.errorPages, locations |-> s.locations]
           /\ IsList(s.locations)
BY DEF ServerConfig

\* The setters of ServerConfig set what the reference reads,
LEMMA SetServerIs ==
    ASSUME ServerConfig(server), NEW name \in ServerDirectives \cap OneValue, NEW v, NEW w
    PROVE  SetServer(name, v) = ServerWith(server, name, v, w, server.locations)
<1>1. server = [port |-> server.port, root |-> server.root, index |-> server.index,
                limit |-> server.limit, errorPages |-> server.errorPages,
                locations |-> server.locations]
  BY ServerFields
<1>2. CASE name = "listen"
  BY <1>1, <1>2 DEF SetServer, ServerWith
<1>3. CASE name = "root"
  BY <1>1, <1>3 DEF SetServer, ServerWith
<1>4. CASE name = "index"
  BY <1>1, <1>4 DEF SetServer, ServerWith
<1>5. CASE name = "client_max_body_size"
  BY <1>1, <1>5 DEF SetServer, ServerWith
<1>. QED  BY <1>2, <1>3, <1>4, <1>5 DEF ServerDirectives, OneValue

\* so does addErrorPage().
LEMMA AddErrorPageIs ==
    ASSUME ServerConfig(server), NEW v, NEW w
    PROVE  AddErrorPage(v, w) = ServerWith(server, "error_page", v, w, server.locations)
<1>1. server = [port |-> server.port, root |-> server.root, index |-> server.index,
                limit |-> server.limit, errorPages |-> server.errorPages,
                locations |-> server.locations]
  BY ServerFields
<1>. QED  BY <1>1 DEF AddErrorPage, ServerWith

\* A location has these fields and no others.
LEMMA LocationFields ==
    ASSUME NEW l, LocationConfig(l)
    PROVE  l = [path |-> l.path, root |-> l.root, index |-> l.index, methods |-> l.methods,
                autoindex |-> l.autoindex, uploadStore |-> l.uploadStore,
                redirect |-> l.redirect, cgi |-> l.cgi, limit |-> l.limit]
BY DEF LocationConfig

\* The setters of LocationConfig set what the reference reads,
LEMMA SetLocationIs ==
    ASSUME LocationConfig(location), NEW name \in LocationDirectives \cap OneValue,
           NEW v, NEW w, NEW list
    PROVE  SetLocation(name, v) = LocationWith(location, name, v, w, list)
<1>1. location = [path |-> location.path, root |-> location.root, index |-> location.index,
                  methods |-> location.methods, autoindex |-> location.autoindex,
                  uploadStore |-> location.uploadStore, redirect |-> location.redirect,
                  cgi |-> location.cgi, limit |-> location.limit]
  BY LocationFields
<1>2. CASE name = "root"
  BY <1>1, <1>2 DEF SetLocation, LocationWith
<1>3. CASE name = "index"
  BY <1>1, <1>3 DEF SetLocation, LocationWith
<1>4. CASE name = "client_max_body_size"
  BY <1>1, <1>4 DEF SetLocation, LocationWith
<1>5. CASE name = "upload_store"
  BY <1>1, <1>5 DEF SetLocation, LocationWith
<1>6. CASE name = "return"
  BY <1>1, <1>6 DEF SetLocation, LocationWith
<1>7. CASE name = "autoindex"
  BY <1>1, <1>7 DEF SetLocation, LocationWith
<1>. QED  BY <1>2, <1>3, <1>4, <1>5, <1>6, <1>7 DEF LocationDirectives, OneValue

\* so do addCgi() and setAllowedMethods().
LEMMA AddCgiIs ==
    ASSUME LocationConfig(location), NEW v, NEW w, NEW list
    PROVE  /\ AddCgi(v, w) = LocationWith(location, "cgi_ext", v, w, list)
           /\ [location EXCEPT !.methods = list] =
                LocationWith(location, "allowed_methods", v, w, list)
<1>1. location = [path |-> location.path, root |-> location.root, index |-> location.index,
                  methods |-> location.methods, autoindex |-> location.autoindex,
                  uploadStore |-> location.uploadStore, redirect |-> location.redirect,
                  cgi |-> location.cgi, limit |-> location.limit]
  BY LocationFields
<1>2. AddCgi(v, w) = LocationWith(location, "cgi_ext", v, w, list)
  BY <1>1 DEF AddCgi, LocationWith
<1>3. [location EXCEPT !.methods = list] =
        LocationWith(location, "allowed_methods", v, w, list)
  BY <1>1 DEF LocationWith
<1>. QED  BY <1>2, <1>3

-----------------------------------------------------------------------------
(* At each look, what was read of the file.                                *)

ReadFile == \E p, H : AtFile(tokens, p, H, servers)
ReadServer == \E p, H : AtServer(tokens, p, H, server, servers)
ReadLocation == \E p, H : AtLocation(tokens, p, H, server, location, servers)

\* What would be read if the token came that is due.
DueServerBrace == \E p, H : AtServer(Append(tokens, "{"), p, H, server, servers)
DueLocationBrace ==
    \E p, H : AtLocation(Append(tokens, "{"), p, H, server, location, servers)
DueSemicolon ==
    IF block = "server"
    THEN \E p, H : AtServer(Append(tokens, ";"), p, H, server, servers)
    ELSE \E p, H : AtLocation(Append(tokens, ";"), p, H, server, location, servers)

\* In the middle of a statement: what was read before it, and its tokens.
DuePath ==
    \E f, p, H :
       /\ AtServer(f, p, H, server, servers) /\ location = NewLocation
       /\ Extends(f, p, tokens, p + 1) /\ TokenAt(tokens, p, "location")
InBlock(f, p, H) ==
    IF block = "server"
    THEN AtServer(f, p, H, server, servers) /\ IsSetting(directive)
    ELSE AtLocation(f, p, H, server, location, servers) /\ IsLocationSetting(directive)
DueValue ==
    \E f, p, H :
       /\ InBlock(f, p, H)
       /\ Extends(f, p, tokens, p + 1) /\ TokenAt(tokens, p, directive)
DueSecond ==
    /\ directive \in TwoValues
    /\ \E f, p, H :
         /\ InBlock(f, p, H) /\ Extends(f, p, tokens, p + 2)
         /\ TokenAt(tokens, p, directive) /\ TokenAt(tokens, p + 1, first[1])
DueMethods ==
    \E f, p, H :
       /\ AtLocation(f, p, H, server, location, servers)
       /\ Extends(f, p, tokens, p + 1 + Len(first))
       /\ TokenAt(tokens, p, "allowed_methods") /\ IsListAt(tokens, p, first)

ReadSoFar ==
    /\ pc = "file" => ReadFile
    /\ pc = "serverBrace" => DueServerBrace
    /\ pc = "server" => ReadServer
    /\ pc = "path" => DuePath
    /\ pc = "locationBrace" => DueLocationBrace
    /\ pc = "location" => ReadLocation
    /\ pc = "value" => DueValue
    /\ pc = "second" => DueSecond
    /\ pc = "methods" => DueMethods
    /\ pc = "semicolon" => DueSemicolon
    /\ pc = "accepted" => ReadFile /\ servers # <<>> /\ ~ DuplicatePorts

\* Of a refused file nothing is said.
LEMMA Refused == ASSUME Refuse PROVE ReadSoFar'
BY DEF Refuse, ReadSoFar

\* parseConfigFile(): the word server.
LEMMA ReadServerKeyword ==
    ASSUME TypeOK, ReadSoFar, NEW t \in Token, Look(t), ServerKeyword(t) PROVE ReadSoFar'
<1>1. CASE t = "server" /\ pc' = "serverBrace" /\ server' = NewServer /\ servers' = servers
  <2>1. PICK p, H : AtFile(tokens, p, H, servers)
    BY DEF ReadSoFar, ReadFile, ServerKeyword
  <2>. DEFINE g == Append(Append(tokens, "server"), Brace)
  <2>2. tokens \in Seq(Token) /\ Complete(tokens, p, H)
    BY <2>1 DEF TypeOK, AtFile
  <2>3. Adds(tokens, p, H, g, p + 2, H \cup {p + 2}) /\ BeginsServer(g, p)
    BY <2>2, ServerAdds
  <2>. HIDE DEF g
  <2>4. AtServer(g, p + 2, H \cup {p + 2}, NewServer, servers)
    BY <2>1, <2>3, ServerBegins
  <2>5. Append(tokens', "{") = g
    BY <1>1 DEF Look, g, Brace
  <2>6. DueServerBrace'
    BY <1>1, <2>4, <2>5 DEF DueServerBrace
  <2>. QED  BY <1>1, <2>6 DEF ReadSoFar
<1>. QED  BY <1>1, Refused DEF ServerKeyword

\* parseServerBlock(), parseLocationBlock(), parseInsideBlock(): the { or ; that is due.
LEMMA ReadBrace ==
    ASSUME TypeOK, ReadSoFar, NEW t \in Token, Look(t),
           ServerBrace(t) \/ LocationBrace(t) \/ Semicolon(t)
    PROVE  ReadSoFar'
<1>1. tokens' = Append(tokens, t)
  BY DEF Look
<1>2. CASE pc = "serverBrace" /\ t = "{" /\ pc' = "server" /\ Nothing
  <2>1. DueServerBrace
    BY <1>2 DEF ReadSoFar
  <2>2. ReadServer'
    BY <1>1, <1>2, <2>1 DEF DueServerBrace, ReadServer, Nothing
  <2>. QED  BY <1>2, <2>2 DEF ReadSoFar
<1>3. CASE pc = "locationBrace" /\ t = "{" /\ pc' = "location" /\ Nothing
  <2>1. DueLocationBrace
    BY <1>3 DEF ReadSoFar
  <2>2. ReadLocation'
    BY <1>1, <1>3, <2>1 DEF DueLocationBrace, ReadLocation, Nothing
  <2>. QED  BY <1>3, <2>2 DEF ReadSoFar
<1>4. CASE pc = "semicolon" /\ t = ";" /\ pc' = block /\ Nothing
  <2>1. DueSemicolon
    BY <1>4 DEF ReadSoFar
  <2>2. CASE block = "server"
    <3>1. ReadServer'
      BY <1>1, <1>4, <2>1, <2>2 DEF DueSemicolon, ReadServer, Nothing
    <3>. QED  BY <1>4, <2>2, <3>1 DEF ReadSoFar
  <2>3. CASE block = "location"
    <3>1. ReadLocation'
      BY <1>1, <1>4, <2>1, <2>3 DEF DueSemicolon, ReadLocation, Nothing
    <3>. QED  BY <1>4, <2>3, <3>1 DEF ReadSoFar
  <2>. QED  BY <2>2, <2>3 DEF TypeOK
<1>. QED  BY <1>2, <1>3, <1>4, Refused DEF ServerBrace, LocationBrace, Semicolon, Expect

\* parseInsideBlock() of a server: a keyword, the word location or }.
LEMMA ReadServerItem ==
    ASSUME TypeOK, ReadSoFar, NEW t \in Token, Look(t), ServerItem(t) PROVE ReadSoFar'
<1>0. tokens' = Append(tokens, t) /\ tokens \in Seq(Token)
  BY DEF Look, TypeOK
<1>1. PICK p, H : AtServer(tokens, p, H, server, servers)
  BY DEF ReadSoFar, ReadServer, ServerItem
<1>2. Complete(tokens, p, H) /\ IsFile(tokens, p)
  BY <1>1 DEF AtServer, InServer, Complete
<1>t. Extends(tokens, p, tokens', p + 1) /\ TokenAt(tokens', p, t)
  BY <1>0, <1>2, OneTokenMore
<1>3. CASE t = "}" /\ pc' = "file" /\ servers' = Append(servers, server)
  <2>. DEFINE g == Append(tokens, "}")
  <2>1. Adds(tokens, p, H, g, p + 1, H \cup {p + 1}) /\ Closing(g, p)
    BY <1>0, <1>2, CloseAdds
  <2>2. IsList(servers) /\ IsList(server.locations)
    BY ServerFields DEF TypeOK
  <2>. HIDE DEF g
  <2>3. AtFile(g, p + 1, H \cup {p + 1}, Append(servers, server))
    BY <1>1, <2>1, <2>2, ServerEnds
  <2>4. tokens' = g
    BY <1>0, <1>3 DEF g
  <2>5. ReadFile'
    BY <1>3, <2>3, <2>4 DEF ReadFile
  <2>. QED  BY <1>3, <2>5 DEF ReadSoFar
<1>4. CASE /\ t = "location" /\ pc' = "path" /\ location' = NewLocation
           /\ UNCHANGED <<server, servers>>
  <2>1. DuePath'
    BY <1>1, <1>t, <1>4 DEF DuePath
  <2>. QED  BY <1>4, <2>1 DEF ReadSoFar
<1>5. CASE /\ t \in ServerDirectives /\ pc' = "value" /\ block' = "server" /\ directive' = t
           /\ UNCHANGED <<server, servers>>
  <2>1. IsSetting(t)
    BY <1>5 DEF IsSetting
  <2>. PICK f : f = tokens
    OBVIOUS
  <2>2. InBlock(f, p, H)'
    BY <1>1, <1>5, <2>1 DEF InBlock
  <2>3. DueValue'
    BY <1>t, <1>5, <2>2 DEF DueValue
  <2>. QED  BY <1>5, <2>3 DEF ReadSoFar
<1>. QED  BY <1>3, <1>4, <1>5, Refused DEF ServerItem

\* parseLocationBlock(): the path.
LEMMA ReadLocationPath ==
    ASSUME TypeOK, ReadSoFar, NEW t \in Token, Look(t), LocationPath(t) PROVE ReadSoFar'
<1>1. /\ tokens' = Append(tokens, t) /\ tokens \in Seq(Token)
      /\ pc' = "locationBrace" /\ location' = [location EXCEPT !.path = t]
      /\ server' = server /\ servers' = servers
  BY DEF Look, TypeOK, LocationPath
<1>2. PICK f, p, H :
         /\ AtServer(f, p, H, server, servers) /\ location = NewLocation
         /\ Extends(f, p, tokens, p + 1) /\ TokenAt(tokens, p, "location")
  BY DEF ReadSoFar, DuePath, LocationPath
<1>. PICK g : GoesOn(g, tokens, t, Brace)
  BY DEF GoesOn
<1>3. Complete(f, p, H)
  BY <1>2 DEF AtServer, InServer
<1>4. Adds(f, p, H, g, p + 3, H \cup {p + 3}) /\ BeginsLocation(g, p) /\ Value1(g, p) = t
  BY <1>1, <1>2, <1>3, LocationAdds
<1>5. AtLocation(g, p + 3, H \cup {p + 3}, server, Fresh(t), servers)
  BY <1>2, <1>4, LocationBegins
<1>6. location' = Fresh(t)
  BY <1>1, <1>2 DEF Fresh
<1>7. DueLocationBrace'
  BY <1>1, <1>5, <1>6 DEF DueLocationBrace, GoesOn, Brace
<1>. QED  BY <1>1, <1>7 DEF ReadSoFar

\* parseInsideBlock() of a location: a keyword or }.
LEMMA ReadLocationItem ==
    ASSUME TypeOK, ReadSoFar, NEW t \in Token, Look(t), LocationItem(t) PROVE ReadSoFar'
<1>0. tokens' = Append(tokens, t) /\ tokens \in Seq(Token)
  BY DEF Look, TypeOK
<1>1. PICK p, H : AtLocation(tokens, p, H, server, location, servers)
  BY DEF ReadSoFar, ReadLocation, LocationItem
<1>2. Complete(tokens, p, H) /\ IsFile(tokens, p)
  BY <1>1 DEF AtLocation, InServer, Complete
<1>t. Extends(tokens, p, tokens', p + 1) /\ TokenAt(tokens', p, t)
  BY <1>0, <1>2, OneTokenMore
<1>3. CASE t = "}" /\ pc' = "server" /\ server' = LocationAdded /\ servers' = servers
  <2>. DEFINE g == Append(tokens, "}")
  <2>1. Adds(tokens, p, H, g, p + 1, H \cup {p + 1}) /\ Closing(g, p)
    BY <1>0, <1>2, CloseAdds
  <2>2. IsList(server.locations)
    BY ServerFields DEF TypeOK
  <2>. HIDE DEF g
  <2>3. AtServer(g, p + 1, H \cup {p + 1},
                 [server EXCEPT !.locations = Append(server.locations, location)], servers)
    BY <1>1, <2>1, <2>2, LocationEnds
  <2>4. tokens' = g
    BY <1>0, <1>3 DEF g
  <2>5. server' = [server EXCEPT !.locations = Append(server.locations, location)]
    BY <1>3 DEF LocationAdded, AddLocation
  <2>6. ReadServer'
    BY <1>3, <2>3, <2>4, <2>5 DEF ReadServer
  <2>. QED  BY <1>3, <2>6 DEF ReadSoFar
<1>4. CASE /\ t \in LocationDirectives /\ t = "allowed_methods" /\ pc' = "methods"
           /\ first' = <<>> /\ UNCHANGED <<server, location, servers>>
  <2>. PICK f : f = tokens
    OBVIOUS
  <2>1. Len(first') = 0 /\ IsListAt(tokens', p, first')
    BY <1>4 DEF IsListAt
  <2>2. Extends(f, p, tokens', p + 1 + Len(first'))
    <3>1. p + 1 = p + 1 + 0
      BY <1>2 DEF IsFile
    <3>. QED  BY <1>t, <2>1, <3>1
  <2>3. DueMethods'
    BY <1>1, <1>t, <1>4, <2>1, <2>2 DEF DueMethods
  <2>. QED  BY <1>4, <2>3 DEF ReadSoFar
<1>5. CASE /\ t \in LocationDirectives /\ t # "allowed_methods" /\ pc' = "value"
           /\ block' = "location" /\ directive' = t /\ UNCHANGED <<server, location, servers>>
  <2>. PICK f : f = tokens
    OBVIOUS
  <2>1. IsLocationSetting(t)
    BY <1>5 DEF IsLocationSetting
  <2>2. InBlock(f, p, H)'
    BY <1>1, <1>5, <2>1 DEF InBlock
  <2>3. DueValue'
    BY <1>t, <1>5, <2>2 DEF DueValue
  <2>. QED  BY <1>5, <2>3 DEF ReadSoFar
<1>. QED  BY <1>3, <1>4, <1>5, Refused DEF LocationItem

\* A directive with its ; at the place behind the tokens read so far.
LEMMA DirectiveRead ==
    ASSUME NEW f, NEW p, NEW H, InBlock(f, p, H),
           NEW g, NEW q, Adds(f, p, H, g, q, H \cup {q}),
           TokenAt(g, p, directive), p + 2 < q, TokenAt(g, q - 1, Semi),
           Accepts(directive, Value1(g, p))
    PROVE  IF block = "server"
           THEN AtServer(g, q, H \cup {q},
                         ServerWith(server, directive, Value1(g, p), Value2(g, p),
                                    server.locations), servers)
           ELSE AtLocation(g, q, H \cup {q}, server,
                           LocationWith(location, directive, Value1(g, p), Value2(g, p),
                                        SubSeq(g, p + 1, ListEnd(g, p) - 1)), servers)
<1>1. g[p] = directive
  BY DEF TokenAt
<1>2. CASE block = "server"
  <2>1. AtServer(f, p, H, server, servers) /\ IsSetting(g[p])
    BY <1>1, <1>2 DEF InBlock
  <2>2. Depth(f, H, p) = 1
    BY <2>1 DEF AtServer
  <2>3. IsDirective(f, p, H, g, q)
    BY <1>1, <2>1, <2>2 DEF IsDirective
  <2>4. StatementOK(g, H \cup {q}, p)
    BY <2>3, DirectiveIsOK
  <2>5. AtServer(g, q, H \cup {q},
                 ServerWith(server, g[p], Value1(g, p), Value2(g, p), server.locations),
                 servers)
    BY <2>1, <2>4, ServerDirective
  <2>. QED  BY <1>1, <1>2, <2>5
<1>3. CASE block # "server"
  <2>1. AtLocation(f, p, H, server, location, servers) /\ IsLocationSetting(g[p])
    BY <1>1, <1>3 DEF InBlock
  <2>2. Depth(f, H, p) = 2
    BY <2>1 DEF AtLocation
  <2>3. IsDirective(f, p, H, g, q)
    BY <1>1, <2>1, <2>2 DEF IsDirective
  <2>4. StatementOK(g, H \cup {q}, p)
    BY <2>3, DirectiveIsOK
  <2>5. AtLocation(g, q, H \cup {q}, server,
                   LocationWith(location, g[p], Value1(g, p), Value2(g, p),
                                SubSeq(g, p + 1, ListEnd(g, p) - 1)), servers)
    BY <2>1, <2>4, LocationDirective
  <2>. QED  BY <1>1, <1>3, <2>5
<1>. QED  BY <1>2, <1>3

\* What stands before a directive is complete.
LEMMA BlockIsComplete ==
    ASSUME NEW f, NEW p, NEW H, InBlock(f, p, H) PROVE Complete(f, p, H)
BY DEF InBlock, AtServer, AtLocation, InServer

\* The value of a directive, or the first of its two.
LEMMA ReadValue ==
    ASSUME TypeOK, ReadSoFar, NEW t \in Token, Look(t), Value(t) PROVE ReadSoFar'
<1>0. tokens' = Append(tokens, t) /\ tokens \in Seq(Token)
  BY DEF Look, TypeOK
<1>1. PICK f, p, H : /\ InBlock(f, p, H)
                     /\ Extends(f, p, tokens, p + 1) /\ TokenAt(tokens, p, directive)
  BY DEF ReadSoFar, DueValue, Value
<1>2. Complete(f, p, H)
  BY <1>1, BlockIsComplete
<1>3. CASE /\ directive \in TwoValues /\ pc' = "second" /\ first' = <<t>>
           /\ UNCHANGED <<block, directive, server, location, servers>>
  <2>1. /\ Extends(f, p, tokens', (p + 1) + 1) /\ TokenAt(tokens', p + 1, t)
        /\ Same(tokens, p + 1, tokens') /\ p \in Nat \ {0}
    BY <1>0, <1>1, ExtendsMore
  <2>2. (p + 1) + 1 = p + 2 /\ p \in 1 .. (p + 1) - 1
    BY <2>1
  <2>3. TokenAt(tokens', p, directive)
    BY <1>1, <2>1, <2>2 DEF TokenAt, Same
  <2>4. first'[1] = t
    BY <1>3
  <2>5. InBlock(f, p, H)'
    BY <1>1, <1>3 DEF InBlock
  <2>6. DueSecond'
    BY <1>3, <2>1, <2>2, <2>3, <2>4, <2>5 DEF DueSecond
  <2>. QED  BY <1>3, <2>6 DEF ReadSoFar
<1>4. CASE /\ directive \in OneValue /\ Accepts(directive, t) /\ pc' = "semicolon"
           /\ IF block = "server"
              THEN server' = SetServer(directive, t) /\ UNCHANGED location
              ELSE location' = SetLocation(directive, t) /\ UNCHANGED server
           /\ UNCHANGED <<block, directive, servers>>
  <2>. PICK g : GoesOn(g, tokens, t, Semi)
    BY DEF GoesOn
  <2>a. tokens \in Seq(Token) /\ Extends(f, p, tokens, p + 1) /\ TokenAt(tokens, p, directive)
    BY <1>0, <1>1
  <2>b. directive \in OneValue
    BY <1>4
  <2>c. /\ Adds(f, p, H, g, p + 3, H \cup {p + 3})
        /\ TokenAt(g, p, directive) /\ Value1(g, p) = t
        /\ TokenAt(g, (p + 3) - 1, Semi) /\ p + 2 < p + 3
    BY <1>2, <2>a, <2>b, OneValueAdds
  <2>. DEFINE K == H \cup {p + 3}
  <2>1. /\ Adds(f, p, H, g, p + 3, K) /\ TokenAt(g, p, directive) /\ Value1(g, p) = t
        /\ TokenAt(g, (p + 3) - 1, Semi) /\ p + 2 < p + 3
    BY <2>c
  <2>2. Append(tokens', ";") = g
    BY <1>0 DEF GoesOn, Semi
  <2>3. IF block = "server"
        THEN AtServer(g, p + 3, K,
                      ServerWith(server, directive, t, Value2(g, p), server.locations), servers)
        ELSE AtLocation(g, p + 3, K, server,
                        LocationWith(location, directive, t, Value2(g, p),
                                     SubSeq(g, p + 1, ListEnd(g, p) - 1)), servers)
    BY <1>1, <1>4, <2>1, DirectiveRead
  <2>. HIDE DEF K
  <2>4. CASE block = "server"
    <3>1. directive \in ServerDirectives \cap OneValue
      BY <1>1, <1>4, <2>4 DEF InBlock, IsSetting
    <3>2. server' = ServerWith(server, directive, t, Value2(g, p), server.locations)
      BY <1>4, <2>4, <3>1, SetServerIs DEF TypeOK
    <3>3. DueSemicolon'
      BY <1>4, <2>2, <2>3, <2>4, <3>2 DEF DueSemicolon
    <3>. QED  BY <1>4, <3>3 DEF ReadSoFar
  <2>5. CASE block # "server"
    <3>1. directive \in LocationDirectives \cap OneValue
      BY <1>1, <1>4, <2>5 DEF InBlock, IsLocationSetting
    <3>2. location' = LocationWith(location, directive, t, Value2(g, p),
                                   SubSeq(g, p + 1, ListEnd(g, p) - 1))
      BY <1>4, <2>5, <3>1, SetLocationIs DEF TypeOK
    <3>3. DueSemicolon'
      BY <1>4, <2>2, <2>3, <2>5, <3>2 DEF DueSemicolon
    <3>. QED  BY <1>4, <3>3 DEF ReadSoFar
  <2>. QED  BY <2>4, <2>5
<1>. QED  BY <1>3, <1>4, Refused DEF Value

\* The second value of error_page or cgi_ext.
LEMMA ReadSecondValue ==
    ASSUME TypeOK, ReadSoFar, NEW t \in Token, Look(t), SecondValue(t) PROVE ReadSoFar'
<1>0. tokens' = Append(tokens, t) /\ tokens \in Seq(Token)
  BY DEF Look, TypeOK
<1>1. PICK f, p, H : /\ InBlock(f, p, H) /\ Extends(f, p, tokens, p + 2)
                     /\ TokenAt(tokens, p, directive) /\ TokenAt(tokens, p + 1, first[1])
  BY DEF ReadSoFar, DueSecond, SecondValue
<1>2. Complete(f, p, H)
  BY <1>1, BlockIsComplete
<1>3. directive \in TwoValues
  BY DEF ReadSoFar, DueSecond, SecondValue
<1>. PICK g : GoesOn(g, tokens, t, Semi)
  BY DEF GoesOn
<1>a. /\ tokens \in Seq(Token) /\ Extends(f, p, tokens, p + 2)
      /\ TokenAt(tokens, p, directive) /\ TokenAt(tokens, p + 1, first[1])
  BY <1>0, <1>1
<1>b. /\ Adds(f, p, H, g, p + 4, H \cup {p + 4}) /\ TokenAt(g, p, directive)
      /\ Value1(g, p) = first[1] /\ Value2(g, p) = t
      /\ TokenAt(g, (p + 4) - 1, Semi) /\ p + 2 < p + 4
  <2>1. TwoWritten(f, p, H, tokens, directive, first[1])
    BY <1>2, <1>3, <1>a DEF TwoWritten
  <2>2. TwoAdded(f, p, H, g, directive, first[1], t)
    BY <2>1, TwoValuesAdd
  <2>. QED  BY <2>2 DEF TwoAdded
<1>. DEFINE K == H \cup {p + 4}
            v == first[1]
<1>4. /\ Adds(f, p, H, g, p + 4, K) /\ TokenAt(g, p, directive)
      /\ Value1(g, p) = v /\ Value2(g, p) = t
      /\ TokenAt(g, (p + 4) - 1, Semi) /\ p + 2 < p + 4
  BY <1>b
<1>5. Append(tokens', ";") = g
  BY <1>0 DEF GoesOn, Semi
<1>. HIDE DEF v
<1>6. Accepts(directive, v)
  BY <1>3 DEF Accepts, TwoValues
<1>7. IF block = "server"
      THEN AtServer(g, p + 4, K, ServerWith(server, directive, v, t, server.locations), servers)
      ELSE AtLocation(g, p + 4, K, server,
                      LocationWith(location, directive, v, t,
                                   SubSeq(g, p + 1, ListEnd(g, p) - 1)), servers)
  BY <1>1, <1>4, <1>6, DirectiveRead
<1>. HIDE DEF K
<1>8. CASE block = "server"
  <2>1. directive = "error_page"
    BY <1>1, <1>3, <1>8 DEF InBlock, IsSetting, ServerDirectives, TwoValues
  <2>2. server' = AddErrorPage(v, t) /\ UNCHANGED <<location, block, servers>>
        /\ pc' = "semicolon"
    BY <1>8 DEF SecondValue, v
  <2>3. server' = ServerWith(server, directive, v, t, server.locations)
    BY <2>1, <2>2, AddErrorPageIs DEF TypeOK
  <2>4. DueSemicolon'
    BY <1>5, <1>7, <1>8, <2>2, <2>3 DEF DueSemicolon
  <2>. QED  BY <2>2, <2>4 DEF ReadSoFar
<1>9. CASE block # "server"
  <2>1. directive = "cgi_ext"
    BY <1>1, <1>3, <1>9 DEF InBlock, IsLocationSetting, LocationDirectives, TwoValues
  <2>2. location' = AddCgi(v, t) /\ UNCHANGED <<server, block, servers>>
        /\ pc' = "semicolon"
    BY <1>9 DEF SecondValue, v
  <2>3. location' = LocationWith(location, directive, v, t,
                                 SubSeq(g, p + 1, ListEnd(g, p) - 1))
    BY <2>1, <2>2, AddCgiIs DEF TypeOK
  <2>4. DueSemicolon'
    BY <1>5, <1>7, <1>9, <2>2, <2>3 DEF DueSemicolon
  <2>. QED  BY <2>2, <2>4 DEF ReadSoFar
<1>. QED  BY <1>8, <1>9

\* allowed_methods: one more of the list, or its end.
LEMMA ReadMethod ==
    ASSUME TypeOK, ReadSoFar, NEW t \in Token, Look(t), Method(t) PROVE ReadSoFar'
<1>0. tokens' = Append(tokens, t) /\ tokens \in Seq(Token) /\ first \in Seq(Token)
  BY DEF Look, TypeOK
<1>1. PICK f, p, H :
         /\ AtLocation(f, p, H, server, location, servers)
         /\ Extends(f, p, tokens, p + 1 + Len(first))
         /\ TokenAt(tokens, p, "allowed_methods") /\ IsListAt(tokens, p, first)
  BY DEF ReadSoFar, DueMethods, Method
<1>2. Complete(f, p, H)
  BY <1>1 DEF AtLocation, InServer
<1>3. CASE /\ t # ";" /\ first' = Append(first, t)
           /\ UNCHANGED <<pc, block, directive, server, location, servers>>
  <2>. DEFINE n == Len(first)
  <2>1. /\ Extends(f, p, tokens', (p + 1 + n) + 1) /\ TokenAt(tokens', p + 1 + n, t)
        /\ Same(tokens, p + 1 + n, tokens') /\ p \in Nat \ {0}
    BY <1>0, <1>1, ExtendsMore
  <2>a. first \in Seq(Token) /\ first' = Append(first, t)
    BY <1>0, <1>3
  <2>b. t # Semi
    BY <1>3 DEF Semi
  <2>2. n \in Nat /\ Len(first') = n + 1 /\ first'[n + 1] = t
        /\ \A k \in 1 .. n : first'[k] = first[k]
    BY <2>a
  <2>i. \A k \in 1 .. n : tokens[p + k] = first[k] /\ first[k] # Semi
    BY <1>1 DEF IsListAt
  <2>. HIDE DEF n
  <2>3. /\ (p + 1 + n) + 1 = p + 1 + (n + 1) /\ p + 1 + n = p + (n + 1)
        /\ p \in 1 .. (p + 1 + n) - 1
        /\ \A k \in 1 .. n : p + k \in 1 .. (p + 1 + n) - 1
        /\ \A k \in 1 .. n + 1 : k \in 1 .. n \/ k = n + 1
    BY <2>1, <2>2
  <2>4. TokenAt(tokens', p, "allowed_methods")
    BY <1>1, <2>1, <2>3 DEF TokenAt, Same
  <2>5. Extends(f, p, tokens', p + 1 + Len(first'))
    BY <2>1, <2>2, <2>3
  <2>6. IsListAt(tokens', p, first')
    <3>1. ASSUME NEW k \in 1 .. n PROVE tokens'[p + k] = first'[k] /\ first'[k] # Semi
      BY <2>1, <2>2, <2>3, <2>i DEF Same
    <3>2. tokens'[p + (n + 1)] = first'[n + 1] /\ first'[n + 1] # Semi
      <4>1. TokenAt(tokens', p + (n + 1), t)
        BY <2>1, <2>3
      <4>. QED  BY <2>b, <2>2, <4>1 DEF TokenAt
    <3>. QED  BY <2>2, <2>3, <3>1, <3>2 DEF IsListAt
  <2>7. AtLocation(f, p, H, server', location', servers')
    BY <1>1, <1>3
  <2>8. DueMethods'
    BY <2>4, <2>5, <2>6, <2>7 DEF DueMethods
  <2>9. pc' = "methods"
    BY <1>3 DEF Method
  <2>. QED  BY <2>8, <2>9 DEF ReadSoFar
<1>4. CASE /\ t = ";" /\ first # <<>> /\ location' = [location EXCEPT !.methods = first]
           /\ pc' = "location" /\ UNCHANGED <<server, servers>>
  <2>. PICK g, q : MethodsEnd(g, q, tokens, p, first)
    BY DEF MethodsEnd
  <2>1. /\ Adds(f, p, H, g, q, H \cup {q}) /\ TokenAt(g, p, "allowed_methods")
        /\ SubSeq(g, p + 1, ListEnd(g, p) - 1) = first
        /\ TokenAt(g, q - 1, Semi) /\ p + 2 < q
    <3>1. /\ tokens \in Seq(Token) /\ Extends(f, p, tokens, p + 1 + Len(first))
          /\ TokenAt(tokens, p, "allowed_methods") /\ IsListAt(tokens, p, first)
          /\ first \in Seq(Token)
      BY <1>0, <1>1
    <3>2. first # <<>>
      BY <1>4
    <3>3. MethodsWritten(f, p, H, tokens, first)
      BY <1>2, <3>1, <3>2 DEF MethodsWritten
    <3>4. MethodsAdded(f, p, H, g, q, first)
      BY <3>3, MethodsAdd
    <3>. QED  BY <3>4 DEF MethodsAdded
  <2>2. g[p] = "allowed_methods" /\ IsLocationSetting(g[p]) /\ Accepts(g[p], Value1(g, p))
    BY <2>1 DEF TokenAt, IsLocationSetting, LocationDirectives, Accepts
  <2>3. Depth(f, H, p) = 2
    BY <1>1 DEF AtLocation
  <2>4. IsDirective(f, p, H, g, q)
    BY <2>1, <2>2, <2>3 DEF IsDirective
  <2>5. StatementOK(g, H \cup {q}, p)
    BY <2>1, <2>4, DirectiveIsOK
  <2>6. AtLocation(g, q, H \cup {q}, server,
                   LocationWith(location, g[p], Value1(g, p), Value2(g, p),
                                SubSeq(g, p + 1, ListEnd(g, p) - 1)), servers)
    BY <1>1, <2>1, <2>2, <2>5, LocationDirective
  <2>7. location' = LocationWith(location, g[p], Value1(g, p), Value2(g, p),
                                 SubSeq(g, p + 1, ListEnd(g, p) - 1))
    <3>1. location' = [location EXCEPT !.methods = first] /\ LocationConfig(location)
      BY <1>4 DEF TypeOK
    <3>2. LocationWith(location, "allowed_methods", Value1(g, p), Value2(g, p), first)
            = [location EXCEPT !.methods = first]
      BY <3>1, AddCgiIs
    <3>3. g[p] = "allowed_methods" /\ SubSeq(g, p + 1, ListEnd(g, p) - 1) = first
      BY <2>1, <2>2
    <3>. QED  BY <3>1, <3>2, <3>3
  <2>8. tokens' = g
    BY <1>0, <1>4 DEF MethodsEnd, Semi
  <2>9. ReadLocation'
    BY <1>4, <2>6, <2>7, <2>8 DEF ReadLocation
  <2>. QED  BY <1>4, <2>9 DEF ReadSoFar
<1>. QED  BY <1>3, <1>4, Refused DEF Method

\* The end of the file.
LEMMA ReadEnd == ASSUME TypeOK, ReadSoFar, EndOfFile PROVE ReadSoFar'
<1>1. tokens' = tokens
  BY DEF EndOfFile
<1>2. CASE pc = "file" /\ servers # <<>> /\ ~ DuplicatePorts /\ pc' = "accepted" /\ Nothing
  <2>1. ReadFile' /\ servers' # <<>> /\ ~ DuplicatePorts'
    BY <1>1, <1>2 DEF ReadSoFar, ReadFile, Nothing, DuplicatePorts
  <2>. QED  BY <1>2, <2>1 DEF ReadSoFar
<1>3. CASE pc' = "crashed" \/ pc' = "overrun"
  BY <1>3 DEF ReadSoFar
<1>. QED  BY <1>2, <1>3, Refused
          DEF EndOfFile, FileEnds, FileEndsEarly, ReadsPastEnd, OverrunNoticed

\* At every look of the parser the tokens before it are statements that are all
\* right, and what it has built of them is what the reference reads there.
LEMMA ReadOn == Spec => []ReadSoFar
<1>1. Init => ReadSoFar
  <2>. SUFFICES ASSUME Init PROVE ReadSoFar
    OBVIOUS
  <2>1. tokens = <<>> /\ servers = <<>> /\ pc = "file"
    BY DEF Init
  <2>2. ReadFile
    BY <2>1, FileBegins DEF ReadFile
  <2>. QED  BY <2>1, <2>2 DEF ReadSoFar
<1>2. TypeOK /\ ReadSoFar /\ [Next]_vars => ReadSoFar'
  <2>. SUFFICES ASSUME TypeOK, ReadSoFar, [Next]_vars PROVE ReadSoFar'
    OBVIOUS
  <2>1. CASE UNCHANGED vars
    <3>0. /\ tokens' = tokens /\ pc' = pc /\ block' = block /\ directive' = directive
          /\ first' = first /\ server' = server /\ location' = location
          /\ servers' = servers
      BY <2>1 DEF vars
    <3>1. (ReadFile' <=> ReadFile) /\ (ReadServer' <=> ReadServer)
          /\ (ReadLocation' <=> ReadLocation) /\ (DuplicatePorts' <=> DuplicatePorts)
      BY <3>0 DEF ReadFile, ReadServer, ReadLocation, DuplicatePorts
    <3>2. (DuePath' <=> DuePath) /\ (DueMethods' <=> DueMethods)
      BY <3>0 DEF DuePath, DueMethods
    <3>3. (DueValue' <=> DueValue) /\ (DueSecond' <=> DueSecond)
      BY <3>0 DEF DueValue, DueSecond, InBlock
    <3>4. DueServerBrace => DueServerBrace'
      BY <3>0 DEF DueServerBrace
    <3>5. DueLocationBrace => DueLocationBrace'
      BY <3>0 DEF DueLocationBrace
    <3>6. DueSemicolon => DueSemicolon'
      BY <3>0 DEF DueSemicolon
    <3>. QED  BY <3>0, <3>1, <3>2, <3>3, <3>4, <3>5, <3>6 DEF ReadSoFar
  <2>2. ASSUME NEW t \in Token, Look(t), Step(t) PROVE ReadSoFar'
    BY <2>2, ReadServerKeyword, ReadBrace, ReadServerItem, ReadLocationPath,
       ReadLocationItem, ReadValue, ReadSecondValue, ReadMethod DEF Step
  <2>. QED  BY <2>1, <2>2, ReadEnd DEF Next, Parsed
<1>. QED  BY <1>1, <1>2, TypeCorrect, PTL DEF Spec

\* A file that ConfigParser::parseConfigFile() accepts is well formed, and the
\* servers it returns are what the file says, for every file of every length.
THEOREM AcceptedIsWritten == Spec => []AcceptedAsWritten
<1>1. TypeOK /\ ReadSoFar => AcceptedAsWritten
  <2>. SUFFICES ASSUME TypeOK, ReadSoFar, pc = "accepted"
                PROVE  WellFormed(tokens) /\ servers = Reading(tokens)
    BY DEF AcceptedAsWritten
  <2>1. servers # <<>> /\ ~ DuplicatePorts /\ IsList(servers)
    BY DEF ReadSoFar, TypeOK
  <2>2. PICK p, H : AtFile(tokens, p, H, servers)
    BY DEF ReadSoFar, ReadFile
  <2>3. /\ H = Heads(tokens) /\ servers = Reading(tokens) /\ p = Len(tokens) + 1
        /\ tokens # <<>>
    BY <2>1, <2>2, FileIsRead
  <2>4. /\ Complete(tokens, p, H) /\ p \in H /\ Depth(tokens, H, p) = 0
        /\ DOMAIN tokens = 1 .. p - 1
        /\ \A h \in H \cap (1 .. p - 1) : StatementOK(tokens, H, h)
    BY <2>2 DEF AtFile, Complete, IsFile
  <2>5. \A i, j \in DOMAIN servers : servers[i].port = servers[j].port => i = j
    <3>1. DOMAIN servers \subseteq Int
      <4>1. servers \in Seq(Range(servers))
        BY <2>1 DEF IsList
      <4>. HIDE DEF Range
      <4>. QED  BY <4>1
    <3>. QED  BY <2>1, <3>1 DEF DuplicatePorts
  <2>. QED  BY <2>3, <2>4, <2>5 DEF WellFormed
<1>. QED  BY <1>1, TypeCorrect, ReadOn, PTL

-----------------------------------------------------------------------------
(* What a file keeps of its beginning, however it goes on.                 *)

\* The statements that were complete begin where they began, as does the one behind
\* them,
LEMMA HeadsKept ==
    ASSUME NEW f, NEW p, NEW H, Complete(f, p, H), NEW g, NEW q, Extends(f, p, g, q),
           NEW K, IsHeads(g, q, K)
    PROVE  /\ H \subseteq K
           /\ \A h \in K : h < p => h \in H
<1>1. /\ p \in Nat /\ q \in Nat /\ p <= q /\ H \subseteq 1 .. p /\ IsFile(g, q) /\ IsFile(f, p)
      /\ IsHeads(f, p, H)
  BY DEF Extends, Complete, IsFile
<1>2. H \subseteq Nat /\ K \subseteq Nat /\ 1 \in H /\ 1 \in K
  BY <1>1 DEF IsHeads, Closed
<1>3. ASSUME H \ K # {} PROVE FALSE
  <2>1. PICK h \in H \ K : \A i \in H \ K : h <= i
    <3>1. H \ K \subseteq Nat
      BY <1>2
    <3>. QED  BY <1>3, <3>1, LeastNumber
  <2>2. PICK k \in H \cap (1 .. p - 1) : h = k + Width(f, k)
    BY <1>1, <1>2, <2>1 DEF IsHeads
  <2>3. k \in Nat /\ h \in Nat /\ k < h /\ k \in 1 .. q - 1
    <3>1. Width(f, k) \in Nat \ {0}
      BY <1>1, WidthIs
    <3>. QED  BY <1>1, <2>2, <3>1
  <2>4. k \in K
    BY <2>1, <2>2, <2>3
  <2>5. k + Width(g, k) \in K
    BY <2>3, <2>4 DEF IsHeads, Closed
  <2>6. Width(g, k) = Width(f, k)
    BY <2>2, WidthKept
  <2>. QED  BY <2>1, <2>2, <2>5, <2>6
<1>4. ASSUME NEW x \in K, x < p, x \notin H PROVE FALSE
  <2>. DEFINE odd == {h \in K : h < p /\ h \notin H}
  <2>1. PICK h \in odd : \A i \in odd : h <= i
    <3>1. odd \subseteq Nat /\ odd # {}
      BY <1>2, <1>4
    <3>. HIDE DEF odd
    <3>. QED  BY <3>1, LeastNumber
  <2>2. PICK k \in K \cap (1 .. q - 1) : h = k + Width(g, k)
    BY <1>2, <2>1 DEF IsHeads
  <2>3. k \in Nat /\ h \in Nat /\ k < h /\ k < p /\ k \in 1 .. p - 1
    <3>1. Width(g, k) \in Nat \ {0}
      BY <1>1, <2>2, WidthIs
    <3>. QED  BY <1>1, <1>2, <2>1, <2>2, <3>1
  <2>4. k \in H
    BY <2>1, <2>2, <2>3
  <2>5. k + Width(f, k) \in H
    BY <1>1, <2>3, <2>4 DEF IsHeads, Closed
  <2>6. Width(g, k) = Width(f, k)
    BY <2>3, <2>4, WidthKept
  <2>. QED  BY <2>1, <2>2, <2>5, <2>6
<1>. QED  BY <1>3, <1>4

\* and that one is as deep as it was.
LEMMA DepthStays ==
    ASSUME NEW f, NEW p, NEW H, Complete(f, p, H), NEW g, NEW q, Extends(f, p, g, q),
           NEW K, IsHeads(g, q, K)
    PROVE  Depth(g, K, p) = Depth(f, H, p)
<1>1. p \in Nat /\ H \subseteq 1 .. p
  BY DEF Complete, IsFile
<1>2. \A h \in H : h < p => g[h] = f[h]
  <2>1. \A h \in H : h < p => h \in 1 .. p - 1
    BY <1>1
  <2>. QED  BY <2>1 DEF Extends
<1>3. \A h : h \in K /\ h < p <=> h \in H /\ h < p
  BY HeadsKept
<1>4. Opened(g, K, p) = Opened(f, H, p) /\ Left(g, K, p) = Left(f, H, p)
  <2>1. /\ \A h \in H : h < p => h \in K
        /\ \A h \in K : h < p => h \in H
    BY <1>3
  <2>. QED  BY <1>2, <2>1 DEF Opened, Left, Opening
<1>5. /\ Depth(f, H, p) = Cardinality(Opened(f, H, p)) - Cardinality(Left(f, H, p))
      /\ Depth(g, K, p) = Cardinality(Opened(g, K, p)) - Cardinality(Left(g, K, p))
  BY DEF Depth, Opened, Left, Opening
<1>. QED  BY <1>4, <1>5

\* A well-formed file goes on with a statement that is all right there, or ends
\* outside every block.
LEMMA GoesOnWell ==
    ASSUME NEW f, NEW p, NEW H, Complete(f, p, H), NEW g, NEW q, Extends(f, p, g, q),
           WellFormed(g)
    PROVE  /\ p < q => \E K : StatementOK(g, K, p) /\ Depth(g, K, p) = Depth(f, H, p)
           /\ p = q => Depth(f, H, p) = 0
<1>. DEFINE K == Heads(g)
<1>1. /\ IsFile(g, q) /\ p \in H /\ p \in Nat \ {0} /\ q \in Nat /\ q = Len(g) + 1
      /\ DOMAIN g = 1 .. q - 1
  BY DEF Extends, Complete, IsFile
<1>2. IsHeads(g, q, K)
  BY <1>1, HeadsAre
<1>3. /\ \A h \in K \cap DOMAIN g : StatementOK(g, K, h)
      /\ Depth(g, K, q) = 0
  BY <1>1 DEF WellFormed
<1>. HIDE DEF K
<1>4. p \in K /\ Depth(g, K, p) = Depth(f, H, p)
  BY <1>1, <1>2, HeadsKept, DepthStays
<1>5. p < q => p \in DOMAIN g
  BY <1>1
<1>. QED  BY <1>3, <1>4, <1>5

-----------------------------------------------------------------------------
(* What no continuation makes right.                                       *)

\* What a statement that is all right needs, by its first token.
LEMMA StatementNeeds ==
    ASSUME NEW g, NEW K, NEW p, StatementOK(g, K, p)
    PROVE  /\ TokenAt(g, p, "server") => Depth(g, K, p) = 0 /\ IsAt(g, p + 1, Brace)
           /\ TokenAt(g, p, "location") => Depth(g, K, p) = 1 /\ IsAt(g, p + 2, Brace)
           /\ Closing(g, p) => Depth(g, K, p) > 0
           /\ ~ Opening(g, p) /\ ~ Closing(g, p) =>
                /\ \/ Depth(g, K, p) = 1 /\ IsSetting(g[p])
                   \/ Depth(g, K, p) = 2 /\ IsLocationSetting(g[p])
                /\ p + 2 <= p + Width(g, p) - 1
                /\ IsAt(g, p + Width(g, p) - 1, Semi)
                /\ Accepts(g[p], g[p + 1])
<1>1. CASE g[p] = "server"
  <2>1. Depth(g, K, p) = 0 /\ IsAt(g, p + 1, Brace)
    BY <1>1 DEF StatementOK, Brace
  <2>2. ~ TokenAt(g, p, "location") /\ ~ Closing(g, p) /\ Opening(g, p)
    BY <1>1 DEF TokenAt, Closing, Opening
  <2>. QED  BY <2>1, <2>2
<1>2. CASE g[p] = "location"
  <2>1. Depth(g, K, p) = 1 /\ IsAt(g, p + 2, Brace)
    BY <1>2 DEF StatementOK, Brace
  <2>2. ~ TokenAt(g, p, "server") /\ ~ Closing(g, p) /\ Opening(g, p)
    BY <1>2 DEF TokenAt, Closing, Opening
  <2>. QED  BY <2>1, <2>2
<1>3. CASE g[p] = "}"
  <2>1. Depth(g, K, p) > 0
    BY <1>3 DEF StatementOK
  <2>2. ~ TokenAt(g, p, "server") /\ ~ TokenAt(g, p, "location") /\ Closing(g, p)
    BY <1>3 DEF TokenAt, Closing
  <2>. QED  BY <2>1, <2>2
<1>4. CASE g[p] # "server" /\ g[p] # "location" /\ g[p] # "}"
  <2>1. /\ \/ Depth(g, K, p) = 1 /\ IsSetting(g[p])
           \/ Depth(g, K, p) = 2 /\ IsLocationSetting(g[p])
        /\ p + 2 <= p + Width(g, p) - 1
        /\ IsAt(g, p + Width(g, p) - 1, Semi)
        /\ Accepts(g[p], g[p + 1])
    BY <1>4 DEF StatementOK, IsSetting, IsLocationSetting, Semi
  <2>2. ~ TokenAt(g, p, "server") /\ ~ TokenAt(g, p, "location") /\ ~ Closing(g, p)
    BY <1>4 DEF TokenAt, Closing
  <2>. QED  BY <2>1, <2>2
<1>. QED  BY <1>1, <1>2, <1>3, <1>4

\* t may begin a statement at depth d.
IsName(d, t) ==
    \/ d = 0 /\ t = "server"
    \/ d = 1 /\ (IsSetting(t) \/ t \in {"location", "}"})
    \/ d = 2 /\ (IsLocationSetting(t) \/ t = "}")

\* No well-formed file has another token there.
LEMMA WrongName ==
    ASSUME NEW S, NEW f \in Seq(S), NEW p, NEW H, Complete(f, p, H), NEW t,
           Depth(f, H, p) \in 0 .. 2, ~ IsName(Depth(f, H, p), t),
           NEW g, NEW q, Extends(Append(f, t), p + 1, g, q), WellFormed(g)
    PROVE  FALSE
<1>. DEFINE c == Append(f, t)
            d == Depth(f, H, p)
<1>1. Extends(f, p, c, p + 1) /\ TokenAt(c, p, t)
  BY OneTokenMore DEF Complete
<1>. HIDE DEF c
<1>2. p \in Nat /\ q \in Nat /\ p < q /\ p \in 1 .. p /\ \A i \in 1 .. p - 1 : i \in 1 .. p
  BY <1>1 DEF Extends, IsFile, c
<1>3. \A i \in 1 .. p : g[i] = c[i]
  <2>1. (p + 1) - 1 = p
    BY <1>2
  <2>. QED  BY <2>1 DEF Extends, c
<1>4. Extends(f, p, g, q) /\ g[p] = t
  <2>1. IsFile(f, p) /\ IsFile(g, q) /\ \A i \in 1 .. p - 1 : c[i] = f[i]
    BY <1>1 DEF Extends, c
  <2>. QED  BY <1>1, <1>2, <1>3, <2>1 DEF Extends, TokenAt
<1>5. PICK K : StatementOK(g, K, p) /\ Depth(g, K, p) = d
  BY <1>2, <1>4, GoesOnWell
<1>. HIDE DEF d
<1>6. d \in 0 .. 2 /\ ~ IsName(d, t)
  BY DEF d
<1>7. ~ TokenAt(g, p, "server")
  BY <1>4, <1>5, <1>6, StatementNeeds DEF TokenAt, IsName
<1>8. ~ TokenAt(g, p, "location")
  BY <1>4, <1>5, <1>6, StatementNeeds DEF TokenAt, IsName
<1>9. ~ Opening(g, p)
  BY <1>7, <1>8 DEF TokenAt, Opening
<1>10. ~ Closing(g, p)
  <2>1. d > 0 => d = 1 \/ d = 2
    BY <1>6
  <2>. QED  BY <1>4, <1>5, <1>6, <2>1, StatementNeeds DEF Closing, IsName
<1>11. (d = 1 /\ IsSetting(t)) \/ (d = 2 /\ IsLocationSetting(t))
  BY <1>4, <1>5, <1>9, <1>10, StatementNeeds
<1>. QED  BY <1>6, <1>11 DEF IsName

\* In the middle of a statement: n tokens of it are there, the first is name.
Amid(c, n, name) ==
    \E f, p, H : Complete(f, p, H) /\ Extends(f, p, c, p + n) /\ TokenAt(c, p, name)

\* A token behind complete statements begins one,
LEMMA AmidFirst ==
    ASSUME NEW S, NEW f \in Seq(S), NEW p, NEW H, Complete(f, p, H), NEW t
    PROVE  Amid(Append(f, t), 1, t)
<1>1. Extends(f, p, Append(f, t), p + 1) /\ TokenAt(Append(f, t), p, t)
  BY OneTokenMore DEF Complete
<1>. QED  BY <1>1 DEF Amid

\* the next is one more of it,
LEMMA AmidMore ==
    ASSUME NEW S, NEW c \in Seq(S), NEW n \in Nat \ {0}, NEW name, Amid(c, n, name), NEW t
    PROVE  Amid(Append(c, t), n + 1, name)
<1>. DEFINE d == Append(c, t)
<1>1. PICK f, p, H : /\ Complete(f, p, H)
                     /\ Extends(f, p, c, p + n) /\ TokenAt(c, p, name)
  BY DEF Amid
<1>2. /\ Extends(f, p, d, (p + n) + 1) /\ Same(c, p + n, d) /\ p \in Nat \ {0}
  BY <1>1, ExtendsMore
<1>. HIDE DEF d
<1>3. (p + n) + 1 = p + (n + 1) /\ p \in 1 .. (p + n) - 1
  BY <1>2
<1>4. TokenAt(d, p, name)
  BY <1>1, <1>2, <1>3 DEF TokenAt, Same
<1>5. Extends(f, p, d, p + (n + 1))
  BY <1>2, <1>3
<1>6. Amid(d, n + 1, name)
  BY <1>1, <1>4, <1>5 DEF Amid
<1>. QED  BY <1>6 DEF d

\* g is well formed and begins with c: the statement c is in the middle of is all
\* right in g.
WellAt(p, K, c, n, name, r, g, q) ==
    /\ p \in Nat \ {0} /\ r = p + n /\ q \in Nat /\ r <= q
    /\ DOMAIN g = 1 .. q - 1 /\ IsFile(g, q)
    /\ TokenAt(g, p, name) /\ StatementOK(g, K, p)
    /\ \A i \in 1 .. r - 1 : g[i] = c[i]

\* and a well-formed file has that statement right.
LEMMA AmidWell ==
    ASSUME NEW c, NEW n \in Nat \ {0}, NEW name, Amid(c, n, name),
           NEW r, NEW g, NEW q, Extends(c, r, g, q), WellFormed(g)
    PROVE  \E p, K : WellAt(p, K, c, n, name, r, g, q)
<1>1. PICK f, p, H : /\ Complete(f, p, H)
                     /\ Extends(f, p, c, p + n) /\ TokenAt(c, p, name)
  BY DEF Amid
<1>2. /\ p \in Nat \ {0} /\ Len(c) = (p + n) - 1 /\ Len(c) = r - 1 /\ r \in Nat
      /\ q \in Nat /\ r <= q /\ IsFile(f, p) /\ IsFile(g, q) /\ DOMAIN g = 1 .. q - 1
  BY <1>1 DEF Extends, IsFile
<1>3. r = p + n /\ p < q /\ p <= q /\ p \in 1 .. r - 1 /\ \A i \in 1 .. p - 1 : i \in 1 .. r - 1
  BY <1>2
<1>4. \A i \in 1 .. r - 1 : g[i] = c[i]
  BY DEF Extends
<1>5. Extends(f, p, g, q)
  <2>1. \A i \in 1 .. p - 1 : c[i] = f[i]
    BY <1>1 DEF Extends
  <2>. QED  BY <1>2, <1>3, <1>4, <2>1 DEF Extends
<1>6. PICK K : StatementOK(g, K, p)
  BY <1>1, <1>3, <1>5, GoesOnWell
<1>7. TokenAt(g, p, name)
  BY <1>1, <1>3, <1>4 DEF TokenAt
<1>8. WellAt(p, K, c, n, name, r, g, q)
  BY <1>2, <1>3, <1>4, <1>6, <1>7 DEF WellAt
<1>. QED  BY <1>8

\* A statement that begins with name has token at the k-th place behind it.
Requires(name, k, token) ==
    \/ name = "server" /\ k = 1 /\ token = Brace
    \/ name = "location" /\ k = 2 /\ token = Brace
    \/ name \in OneValue /\ k = 2 /\ token = Semi
    \/ name \in TwoValues /\ k = 3 /\ token = Semi

\* as every statement that is all right has it.
LEMMA NeedsToken ==
    ASSUME NEW name, NEW k, NEW token, Requires(name, k, token),
           NEW g, NEW K, NEW p \in Nat, StatementOK(g, K, p), TokenAt(g, p, name)
    PROVE  IsAt(g, p + k, token) /\ k \in Nat \ {0}
<1>1. CASE name = "server" /\ k = 1 /\ token = Brace
  BY <1>1, StatementNeeds
<1>2. CASE name = "location" /\ k = 2 /\ token = Brace
  BY <1>2, StatementNeeds
<1>3. CASE name \in OneValue \cup TwoValues
  <2>1. ~ Opening(g, p) /\ ~ Closing(g, p)
    BY <1>3 DEF TokenAt, Opening, Closing, OneValue, TwoValues
  <2>2. IsAt(g, p + Width(g, p) - 1, Semi)
    BY <2>1, StatementNeeds
  <2>3. CASE name \in OneValue
    <3>1. Width(g, p) = 3
      BY <2>3, Widths
    <3>2. k = 2 /\ token = Semi
      BY <2>3 DEF Requires, OneValue, TwoValues
    <3>3. p + Width(g, p) - 1 = p + k
      BY <3>1, <3>2
    <3>. QED  BY <2>2, <3>2, <3>3
  <2>4. CASE name \in TwoValues
    <3>1. Width(g, p) = 4
      BY <2>4, Widths
    <3>2. k = 3 /\ token = Semi
      BY <2>4 DEF Requires, OneValue, TwoValues
    <3>3. p + Width(g, p) - 1 = p + k
      BY <3>1, <3>2
    <3>. QED  BY <2>2, <3>2, <3>3
  <2>. QED  BY <1>3, <2>3, <2>4
<1>. QED  BY <1>1, <1>2, <1>3 DEF Requires

\* Another token is at that place.
LEMMA WrongToken ==
    ASSUME NEW S, NEW c \in Seq(S), NEW n \in Nat \ {0}, NEW name, Amid(c, n, name),
           NEW token, Requires(name, n, token), NEW t, t # token,
           NEW r, NEW g, NEW q, Extends(Append(c, t), r, g, q), WellFormed(g)
    PROVE  FALSE
<1>. DEFINE d == Append(c, t)
<1>1. Amid(d, n + 1, name)
  BY AmidMore
<1>2. Len(d) = Len(c) + 1 /\ d[Len(c) + 1] = t /\ Len(c) \in Nat
  <2>. DEFINE T == S \cup {t}
  <2>1. c \in Seq(T) /\ t \in T
    OBVIOUS
  <2>. HIDE DEF T
  <2>. QED  BY <2>1
<1>3. Len(d) = r - 1 /\ r \in Nat
  BY DEF Extends, IsFile
<1>. HIDE DEF d
<1>4. n + 1 \in Nat \ {0} /\ Extends(d, r, g, q)
  BY DEF d
<1>a. PICK p, K : WellAt(p, K, d, n + 1, name, r, g, q)
  BY <1>1, <1>4, AmidWell
<1>5. /\ p \in Nat \ {0} /\ r = p + (n + 1)
      /\ TokenAt(g, p, name) /\ StatementOK(g, K, p)
      /\ \A i \in 1 .. r - 1 : g[i] = d[i]
  BY <1>a DEF WellAt
<1>6. IsAt(g, p + n, token)
  BY <1>5, NeedsToken
<1>7. p + n = Len(c) + 1 /\ p + n \in 1 .. r - 1
  BY <1>2, <1>3, <1>5
<1>8. g[p + n] = t
  BY <1>2, <1>5, <1>7
<1>. QED  BY <1>6, <1>8 DEF IsAt

\* The file ends before that place.
LEMMA TooShort ==
    ASSUME NEW g, NEW q, IsFile(g, q), NEW n \in Nat \ {0}, NEW name, Amid(g, n, name),
           NEW k \in Nat, NEW token, Requires(name, k, token), n <= k, WellFormed(g)
    PROVE  FALSE
<1>1. Extends(g, q, g, q)
  BY DEF Extends, IsFile
<1>a. PICK p, K : WellAt(p, K, g, n, name, q, g, q)
  BY <1>1, AmidWell
<1>2. /\ p \in Nat \ {0} /\ q = p + n /\ DOMAIN g = 1 .. q - 1
      /\ TokenAt(g, p, name) /\ StatementOK(g, K, p)
  BY <1>a DEF WellAt
<1>3. IsAt(g, p + k, token)
  BY <1>2, NeedsToken
<1>4. p + k \notin 1 .. q - 1
  BY <1>2
<1>. QED  BY <1>2, <1>3, <1>4 DEF IsAt

\* A value the directive throws at.
LEMMA WrongValue ==
    ASSUME NEW S, NEW c \in Seq(S), NEW name \in OneValue, Amid(c, 1, name),
           NEW t, ~ Accepts(name, t),
           NEW r, NEW g, NEW q, Extends(Append(c, t), r, g, q), WellFormed(g)
    PROVE  FALSE
<1>. DEFINE d == Append(c, t)
<1>1. Amid(d, 2, name)
  <2>1. 1 \in Nat \ {0} /\ 1 + 1 = 2
    OBVIOUS
  <2>2. Amid(d, 1 + 1, name)
    BY <2>1, AmidMore
  <2>. QED  BY <2>1, <2>2
<1>2. Len(d) = Len(c) + 1 /\ d[Len(c) + 1] = t /\ Len(c) \in Nat
  <2>. DEFINE T == S \cup {t}
  <2>1. c \in Seq(T) /\ t \in T
    OBVIOUS
  <2>. HIDE DEF T
  <2>. QED  BY <2>1
<1>3. Len(d) = r - 1 /\ r \in Nat
  BY DEF Extends, IsFile
<1>. HIDE DEF d
<1>4. 2 \in Nat \ {0} /\ Extends(d, r, g, q)
  BY DEF d
<1>a. PICK p, K : WellAt(p, K, d, 2, name, r, g, q)
  BY <1>1, <1>4, AmidWell
<1>5. /\ p \in Nat \ {0} /\ r = p + 2
      /\ TokenAt(g, p, name) /\ StatementOK(g, K, p)
      /\ \A i \in 1 .. r - 1 : g[i] = d[i]
  BY <1>a DEF WellAt
<1>6. ~ Opening(g, p) /\ ~ Closing(g, p)
  BY <1>5 DEF TokenAt, Opening, Closing, OneValue
<1>7. Accepts(g[p], g[p + 1])
  BY <1>5, <1>6, StatementNeeds
<1>8. p + 1 = Len(c) + 1 /\ p + 1 \in 1 .. r - 1
  BY <1>2, <1>3, <1>5
<1>9. g[p + 1] = t /\ g[p] = name
  BY <1>2, <1>5, <1>8 DEF TokenAt
<1>. QED  BY <1>7, <1>9

\* allowed_methods without a method.
LEMMA NoMethods ==
    ASSUME NEW S, NEW c \in Seq(S), Amid(c, 1, "allowed_methods"),
           NEW r, NEW g, NEW q, Extends(Append(c, Semi), r, g, q), WellFormed(g)
    PROVE  FALSE
<1>. DEFINE d == Append(c, Semi)
<1>1. Amid(d, 2, "allowed_methods")
  <2>1. 1 \in Nat \ {0} /\ 1 + 1 = 2
    OBVIOUS
  <2>2. Amid(d, 1 + 1, "allowed_methods")
    BY <2>1, AmidMore
  <2>. QED  BY <2>1, <2>2
<1>2. Len(d) = Len(c) + 1 /\ d[Len(c) + 1] = Semi /\ Len(c) \in Nat
  <2>. DEFINE T == S \cup {Semi}
  <2>1. c \in Seq(T) /\ Semi \in T
    OBVIOUS
  <2>. HIDE DEF T
  <2>. QED  BY <2>1
<1>3. Len(d) = r - 1 /\ r \in Nat
  BY DEF Extends, IsFile
<1>. HIDE DEF d
<1>4. 2 \in Nat \ {0} /\ Extends(d, r, g, q)
  BY DEF d
<1>a. PICK p, K : WellAt(p, K, d, 2, "allowed_methods", r, g, q)
  BY <1>1, <1>4, AmidWell
<1>5. /\ p \in Nat \ {0} /\ r = p + 2 /\ q \in Nat /\ r <= q /\ IsFile(g, q)
      /\ TokenAt(g, p, "allowed_methods") /\ StatementOK(g, K, p)
      /\ \A i \in 1 .. r - 1 : g[i] = d[i]
  BY <1>a DEF WellAt
<1>6. /\ p + 1 = Len(c) + 1 /\ p + 1 \in 1 .. r - 1 /\ p + 1 \in p + 1 .. q - 1
      /\ p \in 1 .. q - 1
  BY <1>2, <1>3, <1>5
<1>7. TokenAt(g, p + 1, Semi)
  BY <1>2, <1>5, <1>6 DEF TokenAt
<1>8. ListEnd(g, p) \in Nat /\ ListEnd(g, p) <= p + 1
  <2>1. \A j \in p + 1 .. q - 1 : TokenAt(g, j, Semi) => ListEnd(g, p) <= j
    BY <1>5, <1>6, ListEndIs DEF TokenAt, Semi
  <2>2. ListEnd(g, p) \in Nat
    BY <1>5, <1>6, ListEndIs
  <2>. QED  BY <1>6, <1>7, <2>1, <2>2
<1>9. Width(g, p) = ListEnd(g, p) - p + 1
  BY <1>5, Widths
<1>10. ~ Opening(g, p) /\ ~ Closing(g, p)
  BY <1>5 DEF TokenAt, Opening, Closing
<1>11. p + 2 <= p + Width(g, p) - 1
  BY <1>5, <1>10, StatementNeeds
<1>. QED  BY <1>5, <1>8, <1>9, <1>11

\* A list of methods the file ends in.
LEMMA MethodsCut ==
    ASSUME NEW f, NEW p, NEW H, Complete(f, p, H), NEW g, NEW list, Len(list) \in Nat,
           Extends(f, p, g, p + 1 + Len(list)), TokenAt(g, p, "allowed_methods"),
           IsListAt(g, p, list), WellFormed(g)
    PROVE  FALSE
<1>. DEFINE n == Len(list)
            q == p + 1 + n
            e == ListEnd(g, p)
<1>1. p \in Nat \ {0} /\ n \in Nat /\ IsFile(g, q) /\ DOMAIN g = 1 .. q - 1
  BY DEF Extends, IsFile
<1>2. p < q /\ p \in 1 .. q - 1 /\ q \in Nat
  BY <1>1
<1>3. Extends(f, p, g, q)
  OBVIOUS
<1>. HIDE DEF q
<1>4. PICK K : StatementOK(g, K, p)
  BY <1>2, <1>3, GoesOnWell
<1>5. ~ Opening(g, p) /\ ~ Closing(g, p)
  BY DEF TokenAt, Opening, Closing
<1>6. IsAt(g, p + Width(g, p) - 1, Semi)
  BY <1>4, <1>5, StatementNeeds
<1>7. Width(g, p) = e - p + 1
  BY Widths
<1>8. e \in Nat /\ p < e
  BY <1>1, <1>2, ListEndIs
<1>. HIDE DEF e
<1>9. p + Width(g, p) - 1 = e
  BY <1>1, <1>7, <1>8
<1>10. e \in 1 .. q - 1 /\ TokenAt(g, e, Semi)
  BY <1>1, <1>6, <1>9 DEF IsAt, TokenAt
<1>11. e - p \in 1 .. n /\ p + (e - p) = e
  BY <1>1, <1>8, <1>10 DEF q
<1>12. \A k \in 1 .. n : g[p + k] = list[k] /\ list[k] # Semi
  BY DEF IsListAt
<1>. HIDE DEF n
<1>13. g[p + (e - p)] # Semi
  BY <1>11, <1>12
<1>. QED  BY <1>10, <1>11, <1>13 DEF TokenAt

\* Between server blocks, a file that has tokens has a server.
LEMMA FileHasServer ==
    ASSUME NEW S, NEW f \in Seq(S), f # <<>>,
           NEW p, NEW H, NEW list, AtFile(f, p, H, list)
    PROVE  list # <<>>
<1>1. /\ p \in Nat \ {0} /\ Len(f) = p - 1 /\ DOMAIN f = 1 .. p - 1
      /\ H \subseteq 1 .. p /\ 1 \in H /\ Depth(f, H, p) = 0 /\ Complete(f, p, H)
  BY DEF AtFile, Complete, IsFile, IsHeads, Closed
<1>2. 1 \in 1 .. p - 1
  <2>1. Len(f) # 0
    OBVIOUS
  <2>. QED  BY <1>1, <2>1
<1>3. StatementOK(f, H, 1)
  BY <1>1, <1>2 DEF Complete
<1>4. Depth(f, H, 1) = 0
  <2>1. \A h \in H : ~ (h < 1)
    BY <1>1
  <2>2. Opened(f, H, 1) = {} /\ Left(f, H, 1) = {}
    BY <2>1 DEF Opened, Left
  <2>3. Cardinality({}) = 0
    BY FS_EmptySet
  <2>4. Depth(f, H, 1) = Cardinality(Opened(f, H, 1)) - Cardinality(Left(f, H, 1))
    BY DEF Depth, Opened, Left, Opening
  <2>5. Cardinality(Opened(f, H, 1)) = 0 /\ Cardinality(Left(f, H, 1)) = 0
    BY <2>2, <2>3
  <2>6. 0 - 0 = 0
    OBVIOUS
  <2>. QED  BY <2>4, <2>5, <2>6
<1>5. ~ TokenAt(f, 1, "location") /\ ~ Closing(f, 1) /\ (Opening(f, 1) \/ Closing(f, 1))
  <2>1. ~ (0 = 1) /\ ~ (0 = 2) /\ ~ (0 > 0)
    OBVIOUS
  <2>. QED  BY <1>3, <1>4, <2>1, StatementNeeds
<1>6. TokenAt(f, 1, "server")
  BY <1>5 DEF Opening, TokenAt
<1>7. 1 \in DoneServers(f, H)
  <2>1. 1 \in Servers(f, H)
    BY <1>1, <1>2, <1>6 DEF Servers, TokenAt
  <2>2. ~ Open(f, H, 1)
    <3>1. ~ (0 > 0)
      OBVIOUS
    <3>. QED  BY <1>1, <2>1, <3>1, DepthOfBlock
  <2>. QED  BY <2>1, <2>2 DEF DoneServers
<1>8. IsFiniteSet(DoneServers(f, H))
  <2>1. DoneServers(f, H) \subseteq 1 .. p
    BY <1>1 DEF DoneServers, Servers
  <2>2. IsFiniteSet(1 .. p)
    BY <1>1, FS_Interval
  <2>. QED  BY <2>1, <2>2, FS_Subset
<1>9. Cardinality(DoneServers(f, H)) # 0
  BY <1>7, <1>8, FS_EmptySet
<1>10. Len(list) = Cardinality(DoneServers(f, H))
  BY DEF AtFile, AreServers
<1>11. Len(list) # 0
  BY <1>9, <1>10
<1>. QED  BY <1>11

-----------------------------------------------------------------------------
(* At each look, what is begun and what would be right.                    *)

\* No file that begins with c is well formed.
Hopeless(c) == \A r, g, q : Extends(c, r, g, q) => ~ WellFormed(g)

\* Within a statement, how much of it is there.
Awaited ==
    /\ pc = "serverBrace" => Amid(tokens, 1, "server")
    /\ pc = "path" => Amid(tokens, 1, "location")
    /\ pc = "locationBrace" => Amid(tokens, 2, "location")
    /\ pc = "value" => Amid(tokens, 1, directive)
    /\ pc = "second" => Amid(tokens, 2, directive) /\ directive \in TwoValues
    /\ pc = "semicolon" => \/ Amid(tokens, 2, directive) /\ directive \in OneValue
                           \/ Amid(tokens, 3, directive) /\ directive \in TwoValues

\* The statements read are complete, and the next one is due at depth d.
Stands(d) == \E p, H : Complete(tokens, p, H) /\ Depth(tokens, H, p) = d

\* Where a statement is due, the statements before are complete, this deep,
LEMMA Standing ==
    ASSUME ReadSoFar
    PROVE  /\ pc = "file" => Stands(0)
           /\ pc = "server" => Stands(1)
           /\ pc = "location" => Stands(2)
<1>1. pc = "file" => Stands(0)
  BY DEF ReadSoFar, ReadFile, AtFile, Stands
<1>2. pc = "server" => Stands(1)
  BY DEF ReadSoFar, ReadServer, AtServer, InServer, Stands
<1>3. pc = "location" => Stands(2)
  BY DEF ReadSoFar, ReadLocation, AtLocation, InServer, Stands
<1>. QED  BY <1>1, <1>2, <1>3

\* so that the next token begins one,
LEMMA StandsFirst ==
    ASSUME tokens \in Seq(Token), NEW d, Stands(d), NEW t
    PROVE  Amid(Append(tokens, t), 1, t)
BY AmidFirst DEF Stands

\* and the ones behind it are more of it.
LEMMA MoreIsThere ==
    ASSUME tokens \in Seq(Token), NEW name, NEW t
    PROVE  /\ Amid(tokens, 1, name) => Amid(Append(tokens, t), 2, name)
           /\ Amid(tokens, 2, name) => Amid(Append(tokens, t), 3, name)
<1>1. 1 \in Nat \ {0} /\ 1 + 1 = 2 /\ 2 \in Nat \ {0} /\ 2 + 1 = 3
  OBVIOUS
<1>2. ASSUME Amid(tokens, 1, name) PROVE Amid(Append(tokens, t), 1 + 1, name)
  BY <1>1, <1>2, AmidMore
<1>3. ASSUME Amid(tokens, 2, name) PROVE Amid(Append(tokens, t), 2 + 1, name)
  BY <1>1, <1>3, AmidMore
<1>. QED  BY <1>1, <1>2, <1>3

\* A token that is not refused is one of its statement.
LEMMA AwaitedStep ==
    ASSUME TypeOK, ReadSoFar, Awaited, NEW t \in Token, Look(t), Step(t) PROVE Awaited'
<1>0. tokens' = Append(tokens, t) /\ tokens \in Seq(Token)
  BY DEF Look, TypeOK
<1>r. ASSUME Refuse PROVE Awaited'
  BY <1>r DEF Refuse, Awaited
<1>1. CASE ServerKeyword(t)
  <2>1. CASE t = "server" /\ pc' = "serverBrace"
    <3>1. Amid(tokens', 1, "server")
      BY <1>0, <1>1, <2>1, Standing, StandsFirst DEF ServerKeyword
    <3>. QED  BY <2>1, <3>1 DEF Awaited
  <2>. QED  BY <1>1, <1>r, <2>1 DEF ServerKeyword
<1>2. CASE ServerBrace(t) \/ LocationBrace(t)
  <2>1. CASE pc' \in {"server", "location"}
    BY <2>1 DEF Awaited
  <2>. QED  BY <1>2, <1>r, <2>1 DEF ServerBrace, LocationBrace, Expect
<1>3. CASE Semicolon(t)
  <2>1. block \in {"server", "location"}
    BY DEF TypeOK
  <2>2. CASE pc' = block
    BY <2>1, <2>2 DEF Awaited
  <2>. QED  BY <1>3, <1>r, <2>2 DEF Semicolon, Expect
<1>4. CASE ServerItem(t)
  <2>0. Amid(tokens', 1, t)
    BY <1>0, <1>4, Standing, StandsFirst DEF ServerItem
  <2>1. CASE pc' = "file"
    BY <2>1 DEF Awaited
  <2>2. CASE t = "location" /\ pc' = "path"
    BY <2>0, <2>2 DEF Awaited
  <2>3. CASE pc' = "value" /\ directive' = t
    BY <2>0, <2>3 DEF Awaited
  <2>. QED  BY <1>4, <1>r, <2>1, <2>2, <2>3 DEF ServerItem
<1>5. CASE LocationPath(t)
  <2>1. pc' = "locationBrace" /\ Amid(tokens, 1, "location")
    BY <1>5 DEF LocationPath, Awaited
  <2>2. Amid(tokens', 2, "location")
    BY <1>0, <2>1, MoreIsThere
  <2>. QED  BY <2>1, <2>2 DEF Awaited
<1>6. CASE LocationItem(t)
  <2>0. Amid(tokens', 1, t)
    BY <1>0, <1>6, Standing, StandsFirst DEF LocationItem
  <2>1. CASE pc' \in {"server", "methods"}
    BY <2>1 DEF Awaited
  <2>2. CASE pc' = "value" /\ directive' = t
    BY <2>0, <2>2 DEF Awaited
  <2>. QED  BY <1>6, <1>r, <2>1, <2>2 DEF LocationItem
<1>7. CASE Value(t)
  <2>0. Amid(tokens', 2, directive)
    <3>1. Amid(tokens, 1, directive)
      BY <1>7 DEF Value, Awaited
    <3>. QED  BY <1>0, <3>1, MoreIsThere
  <2>1. CASE directive \in TwoValues /\ pc' = "second" /\ directive' = directive
    BY <2>0, <2>1 DEF Awaited
  <2>2. CASE directive \in OneValue /\ pc' = "semicolon" /\ directive' = directive
    BY <2>0, <2>2 DEF Awaited
  <2>. QED  BY <1>7, <1>r, <2>1, <2>2 DEF Value
<1>8. CASE SecondValue(t)
  <2>1. Amid(tokens, 2, directive) /\ directive \in TwoValues
    BY <1>8 DEF SecondValue, Awaited
  <2>2. Amid(tokens', 3, directive)
    BY <1>0, <2>1, MoreIsThere
  <2>3. pc' = "semicolon" /\ directive' = directive
    BY <1>8 DEF SecondValue
  <2>. QED  BY <2>1, <2>2, <2>3 DEF Awaited
<1>9. CASE Method(t)
  <2>1. CASE pc' \in {"methods", "location"}
    BY <2>1 DEF Awaited
  <2>. QED  BY <1>9, <1>r, <2>1 DEF Method
<1>. QED  BY <1>1, <1>2, <1>3, <1>4, <1>5, <1>6, <1>7, <1>8, <1>9 DEF Step

\* How much of the statement is there is known at every look.
LEMMA AwaitedAlways == Spec => []Awaited
<1>1. Init => Awaited
  BY DEF Init, Awaited
<1>2. TypeOK /\ ReadSoFar /\ Awaited /\ [Next]_vars => Awaited'
  <2>. SUFFICES ASSUME TypeOK, ReadSoFar, Awaited, [Next]_vars PROVE Awaited'
    OBVIOUS
  <2>1. CASE UNCHANGED vars
    BY <2>1 DEF vars, Awaited
  <2>2. ASSUME NEW t \in Token, Look(t), Step(t) PROVE Awaited'
    BY <2>2, AwaitedStep
  <2>3. CASE EndOfFile
    <3>1. pc' \in {"accepted", "refused", "crashed", "overrun"}
      BY <2>3 DEF EndOfFile, FileEnds, FileEndsEarly, ReadsPastEnd, OverrunNoticed, Refuse
    <3>. QED  BY <3>1 DEF Awaited
  <2>. QED  BY <2>1, <2>2, <2>3 DEF Next, Parsed
<1>. QED  BY <1>1, <1>2, TypeCorrect, ReadOn, PTL DEF Spec

\* A token that begins no statement where one is due makes the file hopeless,
LEMMA NoStatement ==
    ASSUME tokens \in Seq(Token), NEW d \in 0 .. 2, Stands(d), NEW t, ~ IsName(d, t)
    PROVE  Hopeless(Append(tokens, t))
<1>1. PICK p, H : Complete(tokens, p, H) /\ Depth(tokens, H, p) = d
  BY DEF Stands
<1>2. IsFile(tokens, p) /\ IsFile(Append(tokens, t), p + 1)
  BY <1>1, OneTokenMore DEF Complete
<1>3. ASSUME NEW r, NEW g, NEW q, Extends(Append(tokens, t), r, g, q), WellFormed(g)
      PROVE  FALSE
  <2>1. r = p + 1
    <3>1. Len(Append(tokens, t)) = r - 1 /\ r \in Nat
      BY <1>3 DEF Extends, IsFile
    <3>2. Len(Append(tokens, t)) = (p + 1) - 1 /\ p \in Nat
      BY <1>2 DEF IsFile
    <3>. QED  BY <3>1, <3>2
  <2>2. Extends(Append(tokens, t), p + 1, g, q)
    BY <1>3, <2>1
  <2>3. Depth(tokens, H, p) \in 0 .. 2 /\ ~ IsName(Depth(tokens, H, p), t)
    BY <1>1
  <2>. QED  BY <1>1, <1>3, <2>2, <2>3, WrongName
<1>. QED  BY <1>3 DEF Hopeless

\* and so does one that is not the brace or the semicolon that is due,
LEMMA NotTheToken ==
    ASSUME tokens \in Seq(Token), NEW n \in Nat \ {0}, NEW name, Amid(tokens, n, name),
           NEW token, Requires(name, n, token), NEW t, t # token
    PROVE  Hopeless(Append(tokens, t))
<1>1. ASSUME NEW r, NEW g, NEW q, Extends(Append(tokens, t), r, g, q), WellFormed(g)
      PROVE  FALSE
  BY <1>1, WrongToken
<1>. QED  BY <1>1 DEF Hopeless

\* a value that is no number, size or switch,
LEMMA NotTheValue ==
    ASSUME tokens \in Seq(Token), NEW name \in OneValue, Amid(tokens, 1, name),
           NEW t, ~ Accepts(name, t)
    PROVE  Hopeless(Append(tokens, t))
<1>1. ASSUME NEW r, NEW g, NEW q, Extends(Append(tokens, t), r, g, q), WellFormed(g)
      PROVE  FALSE
  BY <1>1, WrongValue
<1>. QED  BY <1>1 DEF Hopeless

\* and a semicolon where the first method is due.
LEMMA NotAMethod ==
    ASSUME TypeOK, DueMethods, first = <<>>
    PROVE  Hopeless(Append(tokens, Semi))
<1>1. PICK f, p, H : /\ AtLocation(f, p, H, server, location, servers)
                     /\ Extends(f, p, tokens, p + 1 + Len(first))
                     /\ TokenAt(tokens, p, "allowed_methods")
  BY DEF DueMethods
<1>2. Complete(f, p, H)
  BY <1>1 DEF AtLocation, InServer
<1>3. p + 1 + Len(first) = p + 1
  <2>1. p \in Nat
    BY <1>2 DEF Complete, IsFile
  <2>. QED  BY <2>1
<1>4. Amid(tokens, 1, "allowed_methods")
  BY <1>1, <1>2, <1>3 DEF Amid
<1>5. tokens \in Seq(Token)
  BY DEF TypeOK
<1>6. ASSUME NEW r, NEW g, NEW q, Extends(Append(tokens, Semi), r, g, q), WellFormed(g)
      PROVE  FALSE
  BY <1>4, <1>5, <1>6, NoMethods
<1>. QED  BY <1>6 DEF Hopeless

\* The parser refuses a token only when no file goes on from it.
LEMMA RefusedLook ==
    ASSUME IInv, ReadSoFar, Awaited, NEW t \in Token, Look(t), Step(t),
           pc # "refused", pc' = "refused"
    PROVE  Hopeless(tokens')
<1>0. tokens' = Append(tokens, t) /\ tokens \in Seq(Token) /\ TypeOK /\ Begun
  BY DEF Look, IInv, TypeOK
<1>n. 0 \in 0 .. 2 /\ 1 \in 0 .. 2 /\ 2 \in 0 .. 2
      /\ 1 \in Nat \ {0} /\ 2 \in Nat \ {0} /\ 3 \in Nat \ {0} /\ 0 # 1 /\ 0 # 2 /\ 1 # 2
  OBVIOUS
<1>1. CASE ServerKeyword(t)
  <2>1. pc = "file" /\ t # "server"
    BY <1>1 DEF ServerKeyword
  <2>2. Stands(0) /\ ~ IsName(0, t)
    BY <1>n, <2>1, Standing DEF IsName
  <2>. QED  BY <1>0, <1>n, <2>2, NoStatement
<1>2. CASE ServerBrace(t)
  <2>1. pc = "serverBrace" /\ t # Brace
    BY <1>2 DEF ServerBrace, Expect, Brace
  <2>2. Amid(tokens, 1, "server") /\ Requires("server", 1, Brace)
    BY <2>1 DEF Awaited, Requires
  <2>. QED  BY <1>0, <1>n, <2>1, <2>2, NotTheToken
<1>3. CASE ServerItem(t)
  <2>1. pc = "server" /\ t # "}" /\ t # "location" /\ t \notin ServerDirectives
    BY <1>3 DEF ServerItem
  <2>2. Stands(1) /\ ~ IsName(1, t)
    BY <1>n, <2>1, Standing DEF IsName, IsSetting
  <2>. QED  BY <1>0, <1>n, <2>2, NoStatement
<1>4. CASE LocationPath(t)
  BY <1>4 DEF LocationPath
<1>5. CASE LocationBrace(t)
  <2>1. pc = "locationBrace" /\ t # Brace
    BY <1>5 DEF LocationBrace, Expect, Brace
  <2>2. Amid(tokens, 2, "location") /\ Requires("location", 2, Brace)
    BY <2>1 DEF Awaited, Requires
  <2>. QED  BY <1>0, <1>n, <2>1, <2>2, NotTheToken
<1>6. CASE LocationItem(t)
  <2>1. pc = "location" /\ t # "}" /\ t \notin LocationDirectives
    BY <1>6 DEF LocationItem
  <2>2. Stands(2) /\ ~ IsName(2, t)
    BY <1>n, <2>1, Standing DEF IsName, IsLocationSetting
  <2>. QED  BY <1>0, <1>n, <2>2, NoStatement
<1>7. CASE Value(t)
  <2>1. pc = "value" /\ directive \notin TwoValues
        /\ ~ (directive \in OneValue /\ Accepts(directive, t))
    BY <1>7 DEF Value
  <2>2. Amid(tokens, 1, directive)
    BY <2>1 DEF Awaited
  <2>3. directive \in OneValue
    BY <1>0, <2>1 DEF Begun, ServerDirectives, LocationDirectives, OneValue, TwoValues
  <2>. QED  BY <1>0, <2>1, <2>2, <2>3, NotTheValue
<1>8. CASE SecondValue(t)
  BY <1>8 DEF SecondValue
<1>9. CASE Method(t)
  <2>1. pc = "methods" /\ t = Semi /\ first = <<>>
    BY <1>9 DEF Method, Semi
  <2>2. DueMethods
    BY <2>1 DEF ReadSoFar
  <2>. QED  BY <1>0, <2>1, <2>2, NotAMethod
<1>10. CASE Semicolon(t)
  <2>1. pc = "semicolon" /\ t # Semi
    <3>1. block \in {"server", "location"}
      BY <1>0 DEF TypeOK
    <3>. QED  BY <1>10, <3>1 DEF Semicolon, Expect, Semi
  <2>2. CASE Amid(tokens, 2, directive) /\ directive \in OneValue
    <3>1. Requires(directive, 2, Semi)
      BY <2>2 DEF Requires
    <3>. QED  BY <1>0, <1>n, <2>1, <2>2, <3>1, NotTheToken
  <2>3. CASE Amid(tokens, 3, directive) /\ directive \in TwoValues
    <3>1. Requires(directive, 3, Semi)
      BY <2>3 DEF Requires
    <3>. QED  BY <1>0, <1>n, <2>1, <2>3, <3>1, NotTheToken
  <2>. QED  BY <2>1, <2>2, <2>3 DEF Awaited
<1>. QED  BY <1>1, <1>2, <1>3, <1>4, <1>5, <1>6, <1>7, <1>8, <1>9, <1>10 DEF Step

\* At its end it refuses a file only when it is not well formed.
LEMMA RefusedEnd ==
    ASSUME IInv, ReadSoFar, Awaited, EndOfFile, pc # "refused", pc # "overrun",
           pc' = "refused", WellFormed(tokens)
    PROVE  FALSE
<1>0. tokens \in Seq(Token) /\ TypeOK /\ Begun
  BY DEF IInv, TypeOK
<1>n. 1 \in Nat \ {0} /\ 2 \in Nat \ {0} /\ 3 \in Nat \ {0} /\ 1 <= 1 /\ 1 <= 2 /\ 1 <= 3
      /\ 2 <= 2 /\ 2 <= 3 /\ 3 <= 3 /\ 0 # 1 /\ 0 # 2
  OBVIOUS
<1>f. PICK q : IsFile(tokens, q)
  <2>1. Len(tokens) + 1 \in Nat \ {0} /\ Len(tokens) = (Len(tokens) + 1) - 1
        /\ DOMAIN tokens = 1 .. (Len(tokens) + 1) - 1
    BY <1>0
  <2>. QED  BY <2>1 DEF IsFile
<1>1. ASSUME NEW d, Stands(d) PROVE d = 0
  <2>1. PICK p, H : Complete(tokens, p, H) /\ Depth(tokens, H, p) = d
    BY <1>1 DEF Stands
  <2>2. Extends(tokens, p, tokens, p) /\ p = p
    BY <2>1 DEF Extends, Complete, IsFile
  <2>. QED  BY <2>1, <2>2, GoesOnWell
<1>2. ASSUME NEW n \in Nat \ {0}, NEW name, Amid(tokens, n, name),
             NEW k \in Nat \ {0}, NEW token, Requires(name, k, token), n <= k
      PROVE  FALSE
  BY <1>2, <1>f, TooShort
<1>3. CASE FileEnds
  <2>0. pc = "file" /\ (servers = <<>> \/ DuplicatePorts)
    BY <1>3 DEF FileEnds
  <2>1. PICK p, H : AtFile(tokens, p, H, servers)
    BY <2>0 DEF ReadSoFar, ReadFile
  <2>2. tokens # <<>>
    BY DEF WellFormed
  <2>3. servers # <<>>
    BY <1>0, <2>1, <2>2, FileHasServer
  <2>4. IsList(servers)
    BY <1>0 DEF TypeOK
  <2>5. servers = Reading(tokens)
    BY <2>1, <2>4, FileIsRead
  <2>6. \A i, j \in DOMAIN servers : servers[i].port = servers[j].port => i = j
    BY <2>5 DEF WellFormed
  <2>7. PICK i \in DOMAIN servers, j \in DOMAIN servers :
            i < j /\ servers[i].port = servers[j].port
    BY <2>0, <2>3 DEF DuplicatePorts
  <2>8. i \in Int /\ i = j
    <3>1. DOMAIN servers \subseteq Int
      <4>1. servers \in Seq(Range(servers))
        BY <2>4 DEF IsList
      <4>. HIDE DEF Range
      <4>. QED  BY <4>1
    <3>. QED  BY <2>6, <2>7, <3>1
  <2>. QED  BY <2>7, <2>8
<1>4. CASE FileEndsEarly
  <2>1. CASE pc = "server"
    BY <1>1, <1>n, <2>1, Standing
  <2>2. CASE pc = "location"
    BY <1>1, <1>n, <2>2, Standing
  <2>3. CASE pc = "serverBrace"
    <3>1. Amid(tokens, 1, "server") /\ Requires("server", 1, Brace)
      BY <2>3 DEF Awaited, Requires
    <3>. QED  BY <1>2, <1>n, <3>1
  <2>4. CASE pc = "locationBrace"
    <3>1. Amid(tokens, 2, "location") /\ Requires("location", 2, Brace)
      BY <2>4 DEF Awaited, Requires
    <3>. QED  BY <1>2, <1>n, <3>1
  <2>5. CASE pc = "value"
    <3>1. Amid(tokens, 1, directive)
      BY <2>5 DEF Awaited
    <3>2. directive \in OneValue \cup TwoValues
      BY <1>0, <2>5 DEF Begun, ServerDirectives, LocationDirectives, OneValue, TwoValues
    <3>3. Requires(directive, 2, Semi) \/ Requires(directive, 3, Semi)
      BY <3>2 DEF Requires
    <3>. QED  BY <1>2, <1>n, <3>1, <3>3
  <2>6. CASE pc = "second"
    <3>1. Amid(tokens, 2, directive) /\ Requires(directive, 3, Semi)
      BY <2>6 DEF Awaited, Requires
    <3>. QED  BY <1>2, <1>n, <3>1
  <2>7. CASE pc = "semicolon"
    <3>1. \/ Amid(tokens, 2, directive) /\ Requires(directive, 2, Semi)
          \/ Amid(tokens, 3, directive) /\ Requires(directive, 3, Semi)
      BY <2>7 DEF Awaited, Requires
    <3>. QED  BY <1>2, <1>n, <3>1
  <2>8. CASE pc = "methods"
    <3>1. PICK f, p, H : /\ AtLocation(f, p, H, server, location, servers)
                         /\ Extends(f, p, tokens, p + 1 + Len(first))
                         /\ TokenAt(tokens, p, "allowed_methods")
                         /\ IsListAt(tokens, p, first)
      BY <2>8 DEF ReadSoFar, DueMethods
    <3>2. Complete(f, p, H)
      BY <3>1 DEF AtLocation, InServer
    <3>3. Len(first) \in Nat
      BY <1>0 DEF TypeOK
    <3>. QED  BY <3>1, <3>2, <3>3, MethodsCut
  <2>. QED  BY <1>4, <2>1, <2>2, <2>3, <2>4, <2>5, <2>6, <2>7, <2>8
            DEF FileEndsEarly, Tested
<1>. QED  BY <1>3, <1>4 DEF EndOfFile, ReadsPastEnd, OverrunNoticed

-----------------------------------------------------------------------------
(* What is refused is wrong.                                               *)

BraceEnd == "}"

\* The files the runs let it go on to are such files.
LEMMA EndingGoesOn ==
    ASSUME NEW c \in Seq(Token), NEW ending \in Endings
    PROVE  Extends(c, Len(c) + 1, c \o ending, Len(c \o ending) + 1)
<1>. DEFINE w == CHOOSE word \in Word : TRUE
            T == Token \cup {w, Semi, Brace, BraceEnd}
<1>1. ending \in Seq(T)
  <2>1. w \in T /\ Semi \in T /\ Brace \in T /\ BraceEnd \in T
    OBVIOUS
  <2>2. ending \in {<<>>, <<BraceEnd>>, <<BraceEnd, BraceEnd>>, <<Semi, BraceEnd>>,
                    <<Semi, BraceEnd, BraceEnd>>, <<Brace, BraceEnd>>,
                    <<Brace, BraceEnd, BraceEnd>>, <<w, Semi, BraceEnd>>,
                    <<w, Semi, BraceEnd, BraceEnd>>, <<w, w, Semi, BraceEnd>>,
                    <<w, w, Semi, BraceEnd, BraceEnd>>}
    BY Zenon DEF Endings, Semi, Brace, BraceEnd
  <2>. HIDE DEF w, T
  <2>3. <<>> \in Seq(T) /\ <<BraceEnd>> \in Seq(T) /\ <<BraceEnd, BraceEnd>> \in Seq(T)
    BY <2>1
  <2>4. /\ <<Semi, BraceEnd>> \in Seq(T) /\ <<Semi, BraceEnd, BraceEnd>> \in Seq(T)
        /\ <<Brace, BraceEnd>> \in Seq(T) /\ <<Brace, BraceEnd, BraceEnd>> \in Seq(T)
    BY <2>1
  <2>5. /\ <<w, Semi, BraceEnd>> \in Seq(T) /\ <<w, Semi, BraceEnd, BraceEnd>> \in Seq(T)
    BY <2>1
  <2>6. /\ <<w, w, Semi, BraceEnd>> \in Seq(T) /\ <<w, w, Semi, BraceEnd, BraceEnd>> \in Seq(T)
    BY <2>1
  <2>. QED  BY <2>2, <2>3, <2>4, <2>5, <2>6, Zenon
<1>2. c \in Seq(T)
  OBVIOUS
<1>. HIDE DEF T
<1>. DEFINE g == c \o ending
<1>3. /\ g \in Seq(T) /\ Len(g) = Len(c) + Len(ending)
      /\ \A i \in 1 .. Len(c) : g[i] = c[i]
  BY <1>1, <1>2
<1>4. Len(c) \in Nat /\ Len(ending) \in Nat /\ DOMAIN c = 1 .. Len(c)
      /\ DOMAIN g = 1 .. Len(g)
  BY <1>1, <1>2, <1>3
<1>. HIDE DEF g
<1>5. Len(g) \in Nat /\ Len(c) + 1 <= Len(g) + 1
      /\ (Len(c) + 1) - 1 = Len(c) /\ (Len(g) + 1) - 1 = Len(g)
      /\ Len(c) + 1 \in Nat \ {0} /\ Len(g) + 1 \in Nat \ {0}
  BY <1>3, <1>4
<1>6. IsFile(c, Len(c) + 1) /\ IsFile(g, Len(g) + 1)
  BY <1>4, <1>5 DEF IsFile
<1>7. Extends(c, Len(c) + 1, g, Len(g) + 1)
  BY <1>3, <1>5, <1>6 DEF Extends
<1>. QED  BY <1>7 DEF g

\* ConfigParser::parseConfigFile() throws only at a file that is none, for every
\* file of every length: at its end when it is not well formed, and before its end
\* at a token behind which no tokens, whichever they are, make it one.
THEOREM RefusedForGood ==
    Spec => [][pc # "refused" /\ pc' = "refused" /\ pc # "overrun" =>
                 IF tokens' = tokens THEN ~ WellFormed(tokens) ELSE Hopeless(tokens')]_vars
<1>. DEFINE Reason ==
              pc # "refused" /\ pc' = "refused" /\ pc # "overrun" =>
                IF tokens' = tokens THEN ~ WellFormed(tokens) ELSE Hopeless(tokens')
<1>1. IInv /\ ReadSoFar /\ Awaited /\ [Next]_vars => [Reason]_vars
  <2>. SUFFICES ASSUME IInv, ReadSoFar, Awaited, Next,
                       pc # "refused", pc' = "refused", pc # "overrun"
                PROVE  IF tokens' = tokens THEN ~ WellFormed(tokens) ELSE Hopeless(tokens')
    OBVIOUS
  <2>1. CASE EndOfFile
    <3>1. tokens' = tokens /\ ~ WellFormed(tokens)
      BY <2>1, RefusedEnd DEF EndOfFile
    <3>. QED  BY <3>1
  <2>2. ASSUME NEW t \in Token, Look(t), Step(t) PROVE tokens' # tokens /\ Hopeless(tokens')
    <3>1. Hopeless(tokens')
      BY <2>2, RefusedLook
    <3>2. tokens \in Seq(Token) /\ tokens' = Append(tokens, t)
      BY <2>2 DEF Look, IInv, TypeOK
    <3>3. Len(tokens') = Len(tokens) + 1 /\ Len(tokens) \in Nat
      BY <3>2
    <3>. QED  BY <3>1, <3>3
  <2>3. CASE Parsed
    BY <2>3 DEF Parsed, vars
  <2>. QED  BY <2>1, <2>2, <2>3 DEF Next
<1>. QED  BY <1>1, Inductive, ReadOn, AwaitedAlways, PTL DEF Spec

\* In particular not the endings the run tries.
THEOREM RefusedIsWrong == Spec => RefusedWithReason
<1>. DEFINE Reason ==
              pc # "refused" /\ pc' = "refused" /\ pc # "overrun" =>
                IF tokens' = tokens THEN ~ WellFormed(tokens) ELSE Hopeless(tokens')
            Tried ==
              pc # "refused" /\ pc' = "refused" /\ pc # "overrun" =>
                IF tokens' = tokens THEN ~ WellFormed(tokens)
                ELSE \A ending \in Endings : ~ WellFormed(tokens' \o ending)
<1>1. ASSUME TypeOK' PROVE [Reason]_vars => [Tried]_vars
  <2>1. Hopeless(tokens') => \A ending \in Endings : ~ WellFormed(tokens' \o ending)
    <3>1. tokens' \in Seq(Token)
      BY <1>1 DEF TypeOK
    <3>. QED  BY <3>1, EndingGoesOn DEF Hopeless
  <2>. QED  BY <2>1
<1>. QED  BY <1>1, TypeCorrect, RefusedForGood, PTL DEF RefusedWithReason

=============================================================================
