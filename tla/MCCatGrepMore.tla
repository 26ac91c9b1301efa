--------------------------- MODULE MCCatGrepMore ---------------------------
(***************************************************************************)
(* CatGrepMore with two files, so that a wait can find a child of the file *)
(* before, and files longer than the pipes and buffers between main and    *)
(* less.                                                                   *)
(***************************************************************************)
EXTENDS CatGrepMore

=============================================================================
