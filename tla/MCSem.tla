------------------------------- MODULE MCSem -------------------------------
(***************************************************************************)
(* Sem with three processes: two that contend and a third whose sleep or   *)
(* call crosses theirs, and permits enough for two of them.                *)
(***************************************************************************)
EXTENDS Sem

=============================================================================
