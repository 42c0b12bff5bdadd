-------------------------- MODULE MC_ConfigReading --------------------------
(***************************************************************************)
(* Values for files: a port that is the default one, a size, and words.   *)
(***************************************************************************)
EXTENDS ConfigReading

Structure == {"server", "location", "{", "}", ";"}
Words == {"8080", "2k"}
Tokens == Structure \cup Words \cup {"on", "1x"}
          \cup ServerDirectives \cup LocationDirectives

Numbers == [t \in Tokens |-> CASE t = "8080" -> 8080 [] t = "2k" -> 2
                              [] t = "1x" -> 1 [] OTHER -> NoDigits]
Units == [t \in Tokens |-> CASE t = "2k" -> "k" [] t = "1x" -> "x" [] OTHER -> ""]

=============================================================================
