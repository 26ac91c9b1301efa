----------------------------- MODULE MCFifoTest -----------------------------
(***************************************************************************)
(* FifoTest with a FIFO smaller than what is written, so that it fills and *)
(* empties, and as many words per writer as its unit can tell apart.       *)
(***************************************************************************)
EXTENDS FifoTest

=============================================================================
