------------------------------ MODULE MCSched ------------------------------
(***************************************************************************)
(* Sched on small instances.  The nice arguments lie beyond both ends of   *)
(* the range: clamped to 19 a task reaches the lowest priority at its      *)
(* first tick, clamped to -20 it keeps the highest one.                    *)
(***************************************************************************)
EXTENDS Sched

MCNiceArgs == {-25, 25}

=============================================================================
