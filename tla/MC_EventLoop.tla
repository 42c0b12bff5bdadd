--------------------------- MODULE MC_EventLoop ---------------------------
(***************************************************************************)
(* EventLoop for TLC: the configurations give its constants their values.  *)
(***************************************************************************)
EXTENDS EventLoop

=============================================================================
