----------------------------- MODULE MCTasTest -----------------------------
(***************************************************************************)
(* TasTest with few children and increments: two increments suffice for a  *)
(* child to come back to a lock another one waits for.                     *)
(***************************************************************************)
EXTENDS TasTest

=============================================================================
