---------------------------- MODULE MCSchedMain ----------------------------
(***************************************************************************)
(* SchedMain on small instances: codes are pids, nice arguments the        *)
(* multiples of 4 main.c passes.                                           *)
(***************************************************************************)
EXTENDS SchedMain

MCCodes == 1 .. NPROC
MCNiceArgs == {4 * i : i \in 0 .. NumChildren}

=============================================================================
