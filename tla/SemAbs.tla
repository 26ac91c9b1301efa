------------------------------- MODULE SemAbs -------------------------------
(***************************************************************************)
(* What ps7/sem.h promises of a counting semaphore: P waits for a permit   *)
(* and takes it in one step, V adds one in one step, and sem_try takes a   *)
(* permit and returns 1 or, where P would block, returns 0.                *)
(***************************************************************************)
EXTENDS Integers

CONSTANTS
  Procs,        \* the virtual processors
  InitialCount, \* the count given to sem_init
  NoResult      \* what a processor whose last call was no sem_try has

VARIABLES
  permits,
  phase,        \* the call each processor is in, and whether it took effect
  result        \* what the last call of each processor returned

Phases == {"idle", "waiting", "passed", "trying", "took", "refused",
           "releasing", "released"}

Moves(p, from, to) == phase[p] = from /\ phase' = [phase EXCEPT ![p] = to]

\* The value a call in the phase returns, given what the last call returned.
Returned(from, last) ==
  CASE from = "took" -> 1
    [] from = "refused" -> 0
    [] OTHER -> last

-----------------------------------------------------------------------------
(***************************************************************************)
(* The permits, and the phases of the calls.                               *)
(***************************************************************************)
PermitsInit ==
  /\ permits = InitialCount
  /\ phase = [p \in Procs |-> "idle"]

Call(p) ==
  /\ \E to \in {"waiting", "trying", "releasing"} : Moves(p, "idle", to)
  /\ UNCHANGED permits

P(p) == permits > 0 /\ permits' = permits - 1 /\ Moves(p, "waiting", "passed")

TryP(p) ==
  \/ permits > 0 /\ permits' = permits - 1 /\ Moves(p, "trying", "took")
  \/ permits = 0 /\ Moves(p, "trying", "refused") /\ UNCHANGED permits

V(p) == permits' = permits + 1 /\ Moves(p, "releasing", "released")

Effect(p) == P(p) \/ TryP(p) \/ V(p)

Return(p) ==
  /\ \E from \in {"passed", "took", "refused", "released"} : Moves(p, from, "idle")
  /\ UNCHANGED permits

PermitsNext == \E p \in Procs : Call(p) \/ Effect(p) \/ Return(p)

PermitsSpec == PermitsInit /\ [][PermitsNext]_<<permits, phase>>

-----------------------------------------------------------------------------
(***************************************************************************)
(* The same, with what the calls return.                                   *)
(***************************************************************************)
AbsInit == PermitsInit /\ result = [p \in Procs |-> NoResult]

AbsNext ==
  \E p \in Procs :
    \/ Call(p) /\ result' = [result EXCEPT ![p] = NoResult]
    \/ Effect(p) /\ UNCHANGED result
    \/ Return(p) /\ result' = [result EXCEPT ![p] = Returned(phase[p], @)]

AbsSpec == AbsInit /\ [][AbsNext]_<<permits, phase, result>>

=============================================================================
