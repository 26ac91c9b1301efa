-------------------------------- MODULE Sem --------------------------------
(***************************************************************************)
(* The semaphore of ps7/sem.c: processes that share a struct sem in mapped *)
(* memory, a test-and-set spin lock (tas64.S) around its fields, and       *)
(* SIGUSR1 to wake the processes asleep in sem_wait.                       *)
(*                                                                         *)
(* A step reads or writes one shared field; count++ and count-- are a read *)
(* and a write, as compiled, of their own even where the count was just    *)
(* tested.  A spin of tas that finds the lock held changes nothing and is  *)
(* a stuttering step.  Of the signal mask only SIGUSR1 matters here, and   *)
(* sem.c never blocks it.                                                  *)
(***************************************************************************)
EXTENDS Integers, FiniteSets

CONSTANTS
  N_PROC,       \* number of virtual processors
  InitialCount, \* the count given to sem_init
  MaxCount      \* bound: no sem_inc is called that would pass it

ASSUME SemAssumption ==
  /\ N_PROC \in Nat \ {0}
  /\ InitialCount \in Nat
  /\ MaxCount \in Nat

Procs == 0 .. N_PROC - 1

VARIABLES
  lock,         \* s->lock
  count,        \* s->count
  procs,        \* procs[p]: whether s->procs[p] holds p's process id
  pc,           \* the statement each process is at
  reg,          \* the count the process has read
  k,            \* the loop index of sem_inc
  handled,      \* whether the process has installed usr1_handler
  pending,      \* whether a SIGUSR1 is on its way to the process
  took,         \* history: whether the sem_try under way has taken a permit
  result        \* what the last call of each process returned, if a sem_try

vars == <<lock, count, procs, pc, reg, k, handled, pending, took, result>>

(***************************************************************************)
(* wait_suspend is between the unlock and sigsuspend, suspended inside it. *)
(***************************************************************************)
WaitSteps == {"wait_lock", "wait_handler", "wait_test", "wait_clear", "wait_read",
              "wait_take", "wait_unlock", "wait_release", "wait_suspend", "suspended"}
TrySteps == {"try_lock", "try_test", "try_read", "try_take", "try_unlock", "try_return"}
IncSteps == {"inc_lock", "inc_read", "inc_write", "inc_kill", "inc_unlock"}

NoResult == -1

\* The steps a process takes holding the lock.
Critical == {"wait_handler", "wait_test", "wait_clear", "wait_read", "wait_take",
             "wait_unlock", "wait_release",
             "try_test", "try_read", "try_take", "try_unlock",
             "inc_read", "inc_write", "inc_kill", "inc_unlock"}

SemTypeOK ==
  /\ lock \in BOOLEAN
  /\ count \in Nat
  /\ procs \in [Procs -> BOOLEAN]
  /\ pc \in [Procs -> {"idle", "dead"} \cup WaitSteps \cup TrySteps \cup IncSteps]
  /\ reg \in [Procs -> Nat]
  /\ k \in [Procs -> 0 .. N_PROC]
  /\ handled \in [Procs -> BOOLEAN]
  /\ pending \in [Procs -> BOOLEAN]
  /\ took \in [Procs -> BOOLEAN]
  /\ result \in [Procs -> {NoResult, 0, 1}]

\* sem_init
Init ==
  /\ lock = FALSE
  /\ count = InitialCount
  /\ procs = [p \in Procs |-> FALSE]
  /\ pc = [p \in Procs |-> "idle"]
  /\ reg = [p \in Procs |-> 0]
  /\ k = [p \in Procs |-> 0]
  /\ handled = [p \in Procs |-> FALSE]
  /\ pending = [p \in Procs |-> FALSE]
  /\ took = [p \in Procs |-> FALSE]
  /\ result = [p \in Procs |-> NoResult]

-----------------------------------------------------------------------------
Moves(p, from, to) == pc[p] = from /\ pc' = [pc EXCEPT ![p] = to]

\* Mutant: the lock is read and then set, as if xchgb were not atomic.
Acquire_Unchecked(p) == lock' = TRUE

\* tas exchanges the lock with 1 and returns what was there.
Acquire(p) == ~lock /\ lock' = TRUE

\* The count is read into a register of the process.
Load(p) == reg' = [reg EXCEPT ![p] = count]

\* With a new call the result of the last one is of the past.
Forget(p) == result' = [result EXCEPT ![p] = NoResult]

(***************************************************************************)
(* sem_wait                                                                *)
(***************************************************************************)
WaitCall(p) ==
  /\ Moves(p, "idle", "wait_lock")
  /\ procs' = [procs EXCEPT ![p] = TRUE]
  /\ Forget(p)
  /\ UNCHANGED <<lock, count, reg, k, handled, pending, took>>

WaitLock(p) ==
  /\ Moves(p, "wait_lock", "wait_handler")
  /\ Acquire(p)
  /\ UNCHANGED <<count, procs, reg, k, handled, pending, took, result>>

WaitHandler(p) ==
  /\ Moves(p, "wait_handler", "wait_test")
  /\ handled' = [handled EXCEPT ![p] = TRUE]
  /\ UNCHANGED <<lock, count, procs, reg, k, pending, took, result>>

\* Mutant: s->procs[my_procnum] is cleared whatever the count is.
WaitTest_Unlisted(p) ==
  /\ Moves(p, "wait_test", IF count > 0 THEN "wait_clear" ELSE "wait_release")
  /\ procs' = [procs EXCEPT ![p] = FALSE]
  /\ UNCHANGED <<lock, count, reg, k, handled, pending, took, result>>

WaitTest(p) ==
  /\ Moves(p, "wait_test", IF count > 0 THEN "wait_clear" ELSE "wait_release")
  /\ UNCHANGED <<lock, count, procs, reg, k, handled, pending, took, result>>

WaitClear(p) ==
  /\ Moves(p, "wait_clear", "wait_read")
  /\ procs' = [procs EXCEPT ![p] = FALSE]
  /\ UNCHANGED <<lock, count, reg, k, handled, pending, took, result>>

WaitRead(p) ==
  /\ Moves(p, "wait_read", "wait_take")
  /\ Load(p)
  /\ UNCHANGED <<lock, count, procs, k, handled, pending, took, result>>

WaitTake(p) ==
  /\ Moves(p, "wait_take", "wait_unlock")
  /\ count' = reg[p] - 1
  /\ reg' = [reg EXCEPT ![p] = 0]
  /\ UNCHANGED <<lock, procs, k, handled, pending, took, result>>

WaitUnlock(p) ==
  /\ Moves(p, "wait_unlock", "idle")
  /\ lock' = FALSE
  /\ UNCHANGED <<count, procs, reg, k, handled, pending, took, result>>

WaitRelease(p) ==
  /\ Moves(p, "wait_release", "wait_suspend")
  /\ lock' = FALSE
  /\ UNCHANGED <<count, procs, reg, k, handled, pending, took, result>>

WaitSuspend(p) ==
  /\ Moves(p, "wait_suspend", "suspended")
  /\ UNCHANGED <<lock, count, procs, reg, k, handled, pending, took, result>>

(***************************************************************************)
(* A SIGUSR1 reaches its process: it ends a process that has no handler    *)
(* yet, ends a sigsuspend, and anywhere else runs the empty handler.       *)
(***************************************************************************)
Deliver(p) ==
  /\ pending[p]
  /\ pending' = [pending EXCEPT ![p] = FALSE]
  /\ \/ ~handled[p] /\ pc' = [pc EXCEPT ![p] = "dead"]
     \/ handled[p] /\ Moves(p, "suspended", "wait_lock")
     \/ handled[p] /\ pc[p] # "suspended" /\ UNCHANGED pc
  /\ UNCHANGED <<lock, count, procs, reg, k, handled, took, result>>

(***************************************************************************)
(* sem_inc                                                                 *)
(***************************************************************************)
IncsUnderWay == {p \in Procs : pc[p] \in {"inc_lock", "inc_read", "inc_write"}}

IncCall(p) ==
  /\ count + Cardinality(IncsUnderWay) < MaxCount
  /\ Moves(p, "idle", "inc_lock")
  /\ Forget(p)
  /\ UNCHANGED <<lock, count, procs, reg, k, handled, pending, took>>

IncLock(p) ==
  /\ Moves(p, "inc_lock", "inc_read")
  /\ Acquire(p)
  /\ UNCHANGED <<count, procs, reg, k, handled, pending, took, result>>

IncRead(p) ==
  /\ Moves(p, "inc_read", "inc_write")
  /\ Load(p)
  /\ UNCHANGED <<lock, count, procs, k, handled, pending, took, result>>

IncWrite(p) ==
  /\ Moves(p, "inc_write", "inc_kill")
  /\ count' = reg[p] + 1
  /\ reg' = [reg EXCEPT ![p] = 0]
  /\ UNCHANGED <<lock, procs, k, handled, pending, took, result>>

\* Mutant: the wakeups stop at the first sleeper.
IncKill_First(p) ==
  /\ Moves(p, "inc_kill", IF k[p] + 1 < N_PROC /\ ~procs[k[p]] THEN "inc_kill" ELSE "inc_unlock")
  /\ pending' = [pending EXCEPT ![k[p]] = @ \/ procs[k[p]]]
  /\ k' = [k EXCEPT ![p] = @ + 1]
  /\ UNCHANGED <<lock, count, procs, reg, handled, took, result>>

IncKill(p) ==
  /\ Moves(p, "inc_kill", IF k[p] + 1 < N_PROC THEN "inc_kill" ELSE "inc_unlock")
  /\ pending' = [pending EXCEPT ![k[p]] = @ \/ procs[k[p]]]
  /\ k' = [k EXCEPT ![p] = @ + 1]
  /\ UNCHANGED <<lock, count, procs, reg, handled, took, result>>

IncUnlock(p) ==
  /\ Moves(p, "inc_unlock", "idle")
  /\ lock' = FALSE
  /\ k' = [k EXCEPT ![p] = 0]
  /\ UNCHANGED <<count, procs, reg, handled, pending, took, result>>

(***************************************************************************)
(* sem_try                                                                 *)
(***************************************************************************)
TryCall(p) ==
  /\ Moves(p, "idle", "try_lock")
  /\ Forget(p)
  /\ UNCHANGED <<lock, count, procs, reg, k, handled, pending, took>>

TryLock(p) ==
  /\ Moves(p, "try_lock", "try_test")
  /\ Acquire(p)
  /\ UNCHANGED <<count, procs, reg, k, handled, pending, took, result>>

\* Mutant: the count is not tested.
TryTest_Always(p) ==
  /\ Moves(p, "try_test", "try_read")
  /\ UNCHANGED <<lock, count, procs, reg, k, handled, pending, took, result>>

\* Mutant: the lock is released before the count is read and written.
TryTest_UnlockFirst(p) ==
  /\ Moves(p, "try_test", IF count # 0 THEN "try_read" ELSE "try_unlock")
  /\ lock' = FALSE
  /\ UNCHANGED <<count, procs, reg, k, handled, pending, took, result>>

TryTest(p) ==
  /\ Moves(p, "try_test", IF count # 0 THEN "try_read" ELSE "try_unlock")
  /\ UNCHANGED <<lock, count, procs, reg, k, handled, pending, took, result>>

TryRead(p) ==
  /\ Moves(p, "try_read", "try_take")
  /\ Load(p)
  /\ UNCHANGED <<lock, count, procs, k, handled, pending, took, result>>

TryTake(p) ==
  /\ Moves(p, "try_take", "try_unlock")
  /\ count' = reg[p] - 1
  /\ reg' = [reg EXCEPT ![p] = 0]
  /\ took' = [took EXCEPT ![p] = TRUE]
  /\ UNCHANGED <<lock, procs, k, handled, pending, result>>

TryUnlock(p) ==
  /\ Moves(p, "try_unlock", "try_return")
  /\ lock' = FALSE
  /\ UNCHANGED <<count, procs, reg, k, handled, pending, took, result>>

\* The value returned is computed from the count of that moment, not of the
\* moment the lock was held.
TryResult == IF count + 1 > 0 THEN 1 ELSE 0

TryReturn(p) ==
  /\ Moves(p, "try_return", "idle")
  /\ result' = [result EXCEPT ![p] = TryResult]
  /\ took' = [took EXCEPT ![p] = FALSE]
  /\ UNCHANGED <<lock, count, procs, reg, k, handled, pending>>

-----------------------------------------------------------------------------
Step(p) ==
  \/ WaitLock(p) \/ WaitHandler(p) \/ WaitTest(p) \/ WaitClear(p) \/ WaitRead(p)
  \/ WaitTake(p) \/ WaitUnlock(p) \/ WaitRelease(p) \/ WaitSuspend(p)
  \/ IncLock(p) \/ IncRead(p) \/ IncWrite(p) \/ IncKill(p) \/ IncUnlock(p)
  \/ TryLock(p) \/ TryTest(p) \/ TryRead(p) \/ TryTake(p) \/ TryUnlock(p) \/ TryReturn(p)

Calls(p) == WaitCall(p) \/ IncCall(p) \/ TryCall(p)

Next == \E p \in Procs : Calls(p) \/ Step(p) \/ Deliver(p)

Spec == Init /\ [][Next]_vars

(***************************************************************************)
(* A process that can go on does, and a signal sent is delivered; nothing  *)
(* is assumed of who wins a contended tas, or of the calls a process makes.*)
(***************************************************************************)
FairSpec ==
  /\ Spec
  /\ \A p \in Procs : WF_vars(Step(p)) /\ WF_vars(Deliver(p))

-----------------------------------------------------------------------------
\* The spin lock keeps the fields of *s to one process at a time
\* (sem.c:22-29, 40-58, 65-78; tas64.S).
LockExclusive ==
  /\ \A p, q \in Procs : pc[p] \in Critical /\ pc[q] \in Critical => p = q
  /\ (\E p \in Procs : pc[p] \in Critical) => lock

\* A process asleep in sem_wait, or about to sleep, is in s->procs, so that a
\* sem_inc finds it (sem.c:37, 52, 73).
SleeperIsListed ==
  \A p \in Procs : pc[p] \in {"wait_suspend", "suspended"} => procs[p]

\* A process asleep when a sem_inc starts its round of kills, wherever in
\* s->procs, wakes up (sem.c:70-76).
SleepersAreWoken ==
  \A p \in Procs :
    (pc[p] = "suspended" /\ \E q \in Procs : pc[q] = "inc_kill" /\ k[q] <= p)
      ~> pc[p] # "suspended"

(***************************************************************************)
(* The semaphore of sem.h.  A call takes effect where its process writes   *)
(* count, and a sem_try that takes no permit where it finds none.          *)
(***************************************************************************)
PhaseAt(statement, taken) ==
  CASE statement \in (WaitSteps \cup {"dead"}) \ {"wait_unlock"} -> "waiting"
    [] statement = "wait_unlock" -> "passed"
    [] statement \in {"try_lock", "try_test", "try_read", "try_take"} -> "trying"
    [] statement \in {"try_unlock", "try_return"} -> IF taken THEN "took" ELSE "refused"
    [] statement \in {"inc_lock", "inc_read", "inc_write"} -> "releasing"
    [] statement \in {"inc_kill", "inc_unlock"} -> "released"
    [] OTHER -> "idle"

phase == [p \in Procs |-> PhaseAt(pc[p], took[p])]

Abs == INSTANCE SemAbs WITH permits <- count

\* sem.c keeps the permits of the semaphore of sem.h, in safety: each call takes
\* or adds one in one step, none is lost or made, whoever calls what and wherever
\* a signal strikes (sem.c:21-79).  What a sem_try returns is left open.
KeepsPermits == Abs!PermitsSpec

(***************************************************************************)
(* What sem.h says and sem.c does not do.                                  *)
(***************************************************************************)
\* sem.h:20-22: a sem_try that would block returns 0, any other one 1; that is,
\* sem.c implements the whole semaphore, results included.
ImplementsSemaphore == Abs!AbsSpec

\* sem.h:45-47: a sem_inc wakes the processes that sleep on the semaphore.
\* When the lock is free and a permit is there, nobody sleeps on unwarned.
NoSleeperForgotten ==
  ~lock /\ count > 0 =>
    \A p \in Procs : pc[p] = "suspended" => pending[p]

=============================================================================
