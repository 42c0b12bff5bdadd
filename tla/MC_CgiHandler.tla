--------------------------- MODULE MC_CgiHandler ---------------------------
(***************************************************************************)
(* Bodies and outputs larger than a pipe, so that both sides have to wait. *)
(***************************************************************************)
EXTENDS CgiHandler

\* A script that does what it likes, and those that read their input to the end.
Mixed == {"any"} \cup Cooperative

=============================================================================
