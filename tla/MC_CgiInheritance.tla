------------------------ MODULE MC_CgiInheritance ------------------------
(***************************************************************************)
(* Three clients, two of which have scripts.                               *)
(***************************************************************************)
EXTENDS CgiInheritance

=============================================================================
