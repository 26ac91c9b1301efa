----------------------------- MODULE SemProofs -----------------------------
(***************************************************************************)
(* Proofs about the semaphore of Sem, for every number of processes and    *)
(* every initial count: its lock excludes, its sleepers are listed, and it *)
(* keeps the permits of the semaphore of SemAbs, in safety.                *)
(***************************************************************************)
EXTENDS Sem, TLAPS

-----------------------------------------------------------------------------
(***************************************************************************)
(* The inductive invariant.                                                *)
(***************************************************************************)
\* A count in a register is the count, until it is written back: it is read
\* and written under the lock.
RegisterFresh ==
  \A p \in Procs :
    /\ pc[p] \in {"wait_clear", "wait_read", "wait_take", "try_read", "try_take"} => count > 0
    /\ pc[p] \in {"wait_take", "try_take", "inc_write"} => reg[p] = count

\* A process is listed in all of sem_wait but its last steps, or died there.
Listed ==
  \A p \in Procs :
    /\ pc[p] \in WaitSteps \ {"wait_read", "wait_take", "wait_unlock"} => procs[p]
    /\ pc[p] \notin WaitSteps \cup {"dead"} => ~procs[p]
    /\ pc[p] \in {"wait_read", "wait_take", "wait_unlock"} => ~procs[p]

\* A SIGUSR1 finds a process without a handler only at the start of its first
\* sem_wait.
Handlers ==
  \A p \in Procs :
    /\ pc[p] \in WaitSteps \ {"wait_lock", "wait_handler"} => handled[p]
    /\ pending[p] /\ ~handled[p] => pc[p] \in {"wait_lock", "wait_handler", "dead"}

LoopIndex ==
  \A p \in Procs :
    /\ pc[p] = "inc_kill" => k[p] < N_PROC
    /\ pc[p] \notin {"inc_kill", "inc_unlock"} => k[p] = 0

\* A sem_try has taken its permit only once it is past the write of the count.
TookInTry ==
  \A p \in Procs : took[p] => pc[p] \in {"try_unlock", "try_return"}

SemInv ==
  /\ SemTypeOK /\ LockExclusive /\ RegisterFresh
  /\ Listed /\ Handlers /\ LoopIndex /\ TookInTry

-----------------------------------------------------------------------------
\* sem_init establishes the invariant.
LEMMA InitInv == Init => SemInv
<1> SUFFICES ASSUME Init PROVE SemInv
  OBVIOUS
<1> USE SemAssumption DEF Init
<1>1. lock \in BOOLEAN /\ \A b \in {procs, handled, pending, took} : b \in [Procs -> BOOLEAN]
  OBVIOUS
<1>2. SemTypeOK
  BY <1>1 DEF SemTypeOK
<1>3. LockExclusive /\ RegisterFresh /\ Listed /\ Handlers /\ TookInTry
  BY DEF LockExclusive, RegisterFresh, Listed, Handlers, TookInTry, Critical, WaitSteps
<1>4. LoopIndex
  BY DEF LoopIndex, TookInTry
<1>5. QED
  BY <1>2, <1>3, <1>4 DEF SemInv

\* The steps of sem_wait preserve it: the lock is held from tas to the unlock.
LEMMA WaitStepInv ==
  ASSUME SemInv, NEW p \in Procs,
         \/ WaitCall(p) \/ WaitLock(p) \/ WaitHandler(p) \/ WaitTest(p) \/ WaitClear(p)
         \/ WaitRead(p) \/ WaitTake(p) \/ WaitUnlock(p) \/ WaitRelease(p) \/ WaitSuspend(p)
  PROVE  SemInv'
<1> USE DEF SemInv, Moves
<1>1. CASE WaitCall(p)
  <2>1. SemTypeOK'
    BY <1>1 DEF WaitCall, Forget, SemTypeOK, WaitSteps
  <2>2. LockExclusive'
    BY <1>1 DEF WaitCall, Forget, SemTypeOK, LockExclusive, Critical
  <2>3. RegisterFresh' /\ Listed' /\ Handlers' /\ LoopIndex' /\ TookInTry'
    BY <1>1 DEF WaitCall, Forget, SemTypeOK, RegisterFresh, Listed, Handlers, LoopIndex, TookInTry, WaitSteps
  <2>4. QED
    BY <2>1, <2>2, <2>3
<1>2. CASE WaitLock(p)
  <2>1. SemTypeOK'
    BY <1>2 DEF WaitLock, Acquire, SemTypeOK, WaitSteps
  <2>2. LockExclusive'
    BY <1>2 DEF WaitLock, Acquire, SemTypeOK, LockExclusive, Critical
  <2>3. RegisterFresh' /\ Listed' /\ Handlers' /\ LoopIndex' /\ TookInTry'
    BY <1>2 DEF WaitLock, SemTypeOK, RegisterFresh, Listed, Handlers, LoopIndex, TookInTry, WaitSteps
  <2>4. QED
    BY <2>1, <2>2, <2>3
<1>3. CASE WaitHandler(p)
  <2>1. SemTypeOK'
    BY <1>3 DEF WaitHandler, SemTypeOK, WaitSteps
  <2>2. LockExclusive'
    BY <1>3 DEF WaitHandler, SemTypeOK, LockExclusive, Critical
  <2>3. RegisterFresh' /\ Listed' /\ Handlers' /\ LoopIndex' /\ TookInTry'
    BY <1>3 DEF WaitHandler, SemTypeOK, RegisterFresh, Listed, Handlers, LoopIndex, TookInTry, WaitSteps
  <2>4. QED
    BY <2>1, <2>2, <2>3
<1>4. CASE WaitTest(p)
  <2>1. SemTypeOK'
    BY <1>4 DEF WaitTest, SemTypeOK, WaitSteps
  <2>2. LockExclusive'
    BY <1>4 DEF WaitTest, SemTypeOK, LockExclusive, Critical
  <2>3. RegisterFresh'
    BY <1>4 DEF WaitTest, SemTypeOK, LockExclusive, Critical, RegisterFresh
  <2>4. Listed' /\ Handlers' /\ LoopIndex' /\ TookInTry'
    BY <1>4 DEF WaitTest, SemTypeOK, Listed, Handlers, LoopIndex, TookInTry, WaitSteps
  <2>5. QED
    BY <2>1, <2>2, <2>3, <2>4
<1>5. CASE WaitClear(p)
  <2>1. SemTypeOK'
    BY <1>5 DEF WaitClear, SemTypeOK, WaitSteps
  <2>2. LockExclusive'
    BY <1>5 DEF WaitClear, SemTypeOK, LockExclusive, Critical
  <2>3. RegisterFresh'
    BY <1>5 DEF WaitClear, SemTypeOK, LockExclusive, Critical, RegisterFresh
  <2>4. Listed' /\ Handlers' /\ LoopIndex' /\ TookInTry'
    BY <1>5 DEF WaitClear, SemTypeOK, Listed, Handlers, LoopIndex, TookInTry, WaitSteps
  <2>5. QED
    BY <2>1, <2>2, <2>3, <2>4
<1>6. CASE WaitRead(p)
  <2>1. SemTypeOK'
    BY <1>6 DEF WaitRead, Load, SemTypeOK, WaitSteps
  <2>2. LockExclusive'
    BY <1>6 DEF WaitRead, SemTypeOK, LockExclusive, Critical
  <2>3. RegisterFresh'
    BY <1>6 DEF WaitRead, Load, SemTypeOK, LockExclusive, Critical, RegisterFresh
  <2>4. Listed' /\ Handlers' /\ LoopIndex' /\ TookInTry'
    BY <1>6 DEF WaitRead, SemTypeOK, Listed, Handlers, LoopIndex, TookInTry, WaitSteps
  <2>5. QED
    BY <2>1, <2>2, <2>3, <2>4
<1>7. CASE WaitTake(p)
  <2>1. SemTypeOK'
    BY <1>7 DEF WaitTake, RegisterFresh, SemTypeOK, WaitSteps
  <2>2. LockExclusive'
    BY <1>7 DEF WaitTake, SemTypeOK, LockExclusive, Critical
  <2>3. RegisterFresh'
    BY <1>7 DEF WaitTake, SemTypeOK, LockExclusive, Critical, RegisterFresh
  <2>4. Listed' /\ Handlers' /\ LoopIndex' /\ TookInTry'
    BY <1>7 DEF WaitTake, SemTypeOK, Listed, Handlers, LoopIndex, TookInTry, WaitSteps
  <2>5. QED
    BY <2>1, <2>2, <2>3, <2>4
<1>8. CASE WaitUnlock(p)
  <2>1. SemTypeOK'
    BY <1>8 DEF WaitUnlock, SemTypeOK, WaitSteps
  <2>2. LockExclusive'
    BY <1>8 DEF WaitUnlock, SemTypeOK, LockExclusive, Critical
  <2>3. RegisterFresh'
    BY <1>8 DEF WaitUnlock, SemTypeOK, LockExclusive, Critical, RegisterFresh
  <2>4. Listed' /\ Handlers' /\ LoopIndex' /\ TookInTry'
    BY <1>8 DEF WaitUnlock, SemTypeOK, Listed, Handlers, LoopIndex, TookInTry, WaitSteps
  <2>5. QED
    BY <2>1, <2>2, <2>3, <2>4
<1>9. CASE WaitRelease(p)
  <2>1. SemTypeOK'
    BY <1>9 DEF WaitRelease, SemTypeOK, WaitSteps
  <2>2. LockExclusive'
    BY <1>9 DEF WaitRelease, SemTypeOK, LockExclusive, Critical
  <2>3. RegisterFresh'
    BY <1>9 DEF WaitRelease, SemTypeOK, LockExclusive, Critical, RegisterFresh
  <2>4. Listed' /\ Handlers' /\ LoopIndex' /\ TookInTry'
    BY <1>9 DEF WaitRelease, SemTypeOK, Listed, Handlers, LoopIndex, TookInTry, WaitSteps
  <2>5. QED
    BY <2>1, <2>2, <2>3, <2>4
<1>10. CASE WaitSuspend(p)
  <2>1. SemTypeOK'
    BY <1>10 DEF WaitSuspend, SemTypeOK, WaitSteps
  <2>2. LockExclusive'
    BY <1>10 DEF WaitSuspend, SemTypeOK, LockExclusive, Critical
  <2>3. RegisterFresh'
    BY <1>10 DEF WaitSuspend, SemTypeOK, LockExclusive, Critical, RegisterFresh
  <2>4. Listed' /\ Handlers' /\ LoopIndex' /\ TookInTry'
    BY <1>10 DEF WaitSuspend, SemTypeOK, Listed, Handlers, LoopIndex, TookInTry, WaitSteps
  <2>5. QED
    BY <2>1, <2>2, <2>3, <2>4
<1>11. QED
  BY <1>1, <1>2, <1>3, <1>4, <1>5, <1>6, <1>7, <1>8, <1>9, <1>10

\* The steps of sem_inc preserve it: a kill goes only to listed processes.
LEMMA IncStepInv ==
  ASSUME SemInv, NEW p \in Procs,
         IncCall(p) \/ IncLock(p) \/ IncRead(p) \/ IncWrite(p) \/ IncKill(p) \/ IncUnlock(p)
  PROVE  SemInv'
<1> USE DEF SemInv, Moves
<1>1. CASE IncCall(p)
  <2>1. SemTypeOK'
    BY <1>1 DEF IncCall, Forget, SemTypeOK, IncSteps
  <2>2. LockExclusive'
    BY <1>1 DEF IncCall, Forget, SemTypeOK, LockExclusive, Critical
  <2>3. RegisterFresh' /\ Listed' /\ Handlers' /\ LoopIndex' /\ TookInTry'
    BY <1>1 DEF IncCall, Forget, SemTypeOK, RegisterFresh, Listed, Handlers, LoopIndex, TookInTry, WaitSteps
  <2>4. QED
    BY <2>1, <2>2, <2>3
<1>2. CASE IncLock(p)
  <2>1. SemTypeOK'
    BY <1>2 DEF IncLock, Acquire, SemTypeOK, IncSteps
  <2>2. LockExclusive'
    BY <1>2 DEF IncLock, Acquire, SemTypeOK, LockExclusive, Critical
  <2>3. RegisterFresh' /\ Listed' /\ Handlers' /\ LoopIndex' /\ TookInTry'
    BY <1>2 DEF IncLock, SemTypeOK, RegisterFresh, Listed, Handlers, LoopIndex, TookInTry, WaitSteps
  <2>4. QED
    BY <2>1, <2>2, <2>3
<1>3. CASE IncRead(p)
  <2>1. SemTypeOK'
    BY <1>3 DEF IncRead, Load, SemTypeOK, IncSteps
  <2>2. LockExclusive'
    BY <1>3 DEF IncRead, SemTypeOK, LockExclusive, Critical
  <2>3. RegisterFresh' /\ Listed' /\ Handlers' /\ LoopIndex' /\ TookInTry'
    BY <1>3 DEF IncRead, Load, SemTypeOK, RegisterFresh, Listed, Handlers, LoopIndex, TookInTry, WaitSteps
  <2>4. QED
    BY <2>1, <2>2, <2>3
<1>4. CASE IncWrite(p)
  <2>1. SemTypeOK'
    BY <1>4 DEF IncWrite, SemTypeOK, IncSteps
  <2>2. LockExclusive'
    BY <1>4 DEF IncWrite, SemTypeOK, LockExclusive, Critical
  <2>3. RegisterFresh'
    BY <1>4 DEF IncWrite, SemTypeOK, LockExclusive, Critical, RegisterFresh
  <2>4. Listed' /\ Handlers'
    BY <1>4 DEF IncWrite, SemTypeOK, Listed, Handlers, WaitSteps
  <2>5. LoopIndex' /\ TookInTry'
    BY <1>4, SemAssumption DEF IncWrite, SemTypeOK, LoopIndex, TookInTry
  <2>6. QED
    BY <2>1, <2>2, <2>3, <2>4, <2>5
<1>5. CASE IncKill(p)
  <2>1. k[p] \in Procs
    BY <1>5, SemAssumption DEF IncKill, LoopIndex, TookInTry, SemTypeOK, Procs
  <2>2. SemTypeOK'
    <3>1. k' \in [Procs -> 0 .. N_PROC]
      BY <1>5, <2>1, SemAssumption DEF IncKill, SemTypeOK, Procs
    <3>2. pending' \in [Procs -> BOOLEAN]
      BY <1>5, <2>1 DEF IncKill, SemTypeOK
    <3>3. pc' \in [Procs -> {"idle", "dead"} \cup WaitSteps \cup TrySteps \cup IncSteps]
      BY <1>5 DEF IncKill, SemTypeOK, IncSteps
    <3>4. QED
      BY <1>5, <3>1, <3>2, <3>3 DEF IncKill, SemTypeOK
  <2>3. LockExclusive'
    BY <1>5 DEF IncKill, SemTypeOK, LockExclusive, Critical
  <2>4. RegisterFresh' /\ Listed'
    BY <1>5 DEF IncKill, SemTypeOK, RegisterFresh, Listed, WaitSteps
  <2>5. Handlers'
    BY <1>5, <2>1 DEF IncKill, SemTypeOK, Handlers, Listed, WaitSteps
  <2>6. LoopIndex' /\ TookInTry'
    BY <1>5, <2>1 DEF IncKill, SemTypeOK, LoopIndex, TookInTry, Procs
  <2>7. QED
    BY <2>2, <2>3, <2>4, <2>5, <2>6
<1>6. CASE IncUnlock(p)
  <2>1. SemTypeOK'
    <3>1. k' \in [Procs -> 0 .. N_PROC]
      BY <1>6, SemAssumption DEF IncUnlock, SemTypeOK
    <3>2. lock' \in BOOLEAN
      BY <1>6 DEF IncUnlock
    <3>3. QED
      BY <1>6, <3>1, <3>2 DEF IncUnlock, SemTypeOK
  <2>2. LockExclusive'
    BY <1>6 DEF IncUnlock, SemTypeOK, LockExclusive, Critical
  <2>3. RegisterFresh' /\ Listed' /\ Handlers' /\ LoopIndex' /\ TookInTry'
    BY <1>6 DEF IncUnlock, SemTypeOK, RegisterFresh, Listed, Handlers, LoopIndex, TookInTry, WaitSteps
  <2>4. QED
    BY <2>1, <2>2, <2>3
<1>7. QED
  BY <1>1, <1>2, <1>3, <1>4, <1>5, <1>6

\* The steps of sem_try preserve it.
LEMMA TryStepInv ==
  ASSUME SemInv, NEW p \in Procs,
         \/ TryCall(p) \/ TryLock(p) \/ TryTest(p) \/ TryRead(p) \/ TryTake(p)
         \/ TryUnlock(p) \/ TryReturn(p)
  PROVE  SemInv'
<1> USE DEF SemInv, Moves
<1>1. CASE TryCall(p)
  <2>1. SemTypeOK'
    BY <1>1 DEF TryCall, Forget, SemTypeOK, TrySteps
  <2>2. LockExclusive'
    BY <1>1 DEF TryCall, Forget, SemTypeOK, LockExclusive, Critical
  <2>3. RegisterFresh' /\ Listed' /\ Handlers' /\ LoopIndex' /\ TookInTry'
    BY <1>1 DEF TryCall, Forget, SemTypeOK, RegisterFresh, Listed, Handlers, LoopIndex, TookInTry, WaitSteps
  <2>4. QED
    BY <2>1, <2>2, <2>3
<1>2. CASE TryLock(p)
  <2>1. SemTypeOK'
    BY <1>2 DEF TryLock, Acquire, SemTypeOK, TrySteps
  <2>2. LockExclusive'
    BY <1>2 DEF TryLock, Acquire, SemTypeOK, LockExclusive, Critical
  <2>3. RegisterFresh' /\ Listed' /\ Handlers' /\ LoopIndex' /\ TookInTry'
    BY <1>2 DEF TryLock, SemTypeOK, RegisterFresh, Listed, Handlers, LoopIndex, TookInTry, WaitSteps
  <2>4. QED
    BY <2>1, <2>2, <2>3
<1>3. CASE TryTest(p)
  <2>1. SemTypeOK'
    BY <1>3 DEF TryTest, SemTypeOK, TrySteps
  <2>2. LockExclusive'
    BY <1>3 DEF TryTest, SemTypeOK, LockExclusive, Critical
  <2>3. RegisterFresh'
    BY <1>3 DEF TryTest, SemTypeOK, LockExclusive, Critical, RegisterFresh
  <2>4. Listed' /\ Handlers' /\ LoopIndex' /\ TookInTry'
    BY <1>3 DEF TryTest, SemTypeOK, Listed, Handlers, LoopIndex, TookInTry, WaitSteps
  <2>5. QED
    BY <2>1, <2>2, <2>3, <2>4
<1>4. CASE TryRead(p)
  <2>1. SemTypeOK'
    BY <1>4 DEF TryRead, Load, SemTypeOK, TrySteps
  <2>2. LockExclusive'
    BY <1>4 DEF TryRead, SemTypeOK, LockExclusive, Critical
  <2>3. RegisterFresh'
    BY <1>4 DEF TryRead, Load, SemTypeOK, LockExclusive, Critical, RegisterFresh
  <2>4. Listed' /\ Handlers' /\ LoopIndex' /\ TookInTry'
    BY <1>4 DEF TryRead, SemTypeOK, Listed, Handlers, LoopIndex, TookInTry, WaitSteps
  <2>5. QED
    BY <2>1, <2>2, <2>3, <2>4
<1>5. CASE TryTake(p)
  <2>1. SemTypeOK'
    BY <1>5 DEF TryTake, RegisterFresh, SemTypeOK, TrySteps
  <2>2. LockExclusive'
    BY <1>5 DEF TryTake, SemTypeOK, LockExclusive, Critical
  <2>3. RegisterFresh'
    BY <1>5 DEF TryTake, SemTypeOK, LockExclusive, Critical, RegisterFresh
  <2>4. Listed' /\ Handlers' /\ LoopIndex' /\ TookInTry'
    BY <1>5 DEF TryTake, SemTypeOK, Listed, Handlers, LoopIndex, TookInTry, WaitSteps
  <2>5. QED
    BY <2>1, <2>2, <2>3, <2>4
<1>6. CASE TryUnlock(p)
  <2>1. SemTypeOK'
    BY <1>6 DEF TryUnlock, SemTypeOK, TrySteps
  <2>2. LockExclusive'
    BY <1>6 DEF TryUnlock, SemTypeOK, LockExclusive, Critical
  <2>3. RegisterFresh'
    BY <1>6 DEF TryUnlock, SemTypeOK, LockExclusive, Critical, RegisterFresh
  <2>4. Listed' /\ Handlers' /\ LoopIndex' /\ TookInTry'
    BY <1>6 DEF TryUnlock, SemTypeOK, Listed, Handlers, LoopIndex, TookInTry, WaitSteps
  <2>5. QED
    BY <2>1, <2>2, <2>3, <2>4
<1>7. CASE TryReturn(p)
  <2>1. SemTypeOK'
    BY <1>7 DEF TryReturn, TryResult, SemTypeOK, TrySteps
  <2>2. LockExclusive'
    BY <1>7 DEF TryReturn, SemTypeOK, LockExclusive, Critical
  <2>3. RegisterFresh'
    BY <1>7 DEF TryReturn, TryResult, SemTypeOK, LockExclusive, Critical, RegisterFresh
  <2>4. Listed' /\ Handlers' /\ LoopIndex' /\ TookInTry'
    BY <1>7 DEF TryReturn, SemTypeOK, Listed, Handlers, LoopIndex, TookInTry, WaitSteps
  <2>5. QED
    BY <2>1, <2>2, <2>3, <2>4
<1>8. QED
  BY <1>1, <1>2, <1>3, <1>4, <1>5, <1>6, <1>7

\* A signal preserves it: it ends only processes at the start of sem_wait.
LEMMA DeliverInv ==
  ASSUME SemInv, NEW p \in Procs, Deliver(p)
  PROVE  SemInv'
<1> USE DEF SemInv, Moves
<1>1. SemTypeOK'
  <2>1. pending' \in [Procs -> BOOLEAN]
    BY DEF Deliver, SemTypeOK
  <2>2. pc' \in [Procs -> {"idle", "dead"} \cup WaitSteps \cup TrySteps \cup IncSteps]
    BY DEF Deliver, SemTypeOK, WaitSteps
  <2>3. QED
    BY <2>1, <2>2 DEF Deliver, SemTypeOK
<1>2. LockExclusive'
  BY DEF Deliver, SemTypeOK, LockExclusive, Critical
<1>3. RegisterFresh' /\ Listed'
  BY DEF Deliver, SemTypeOK, RegisterFresh, Listed, Handlers, WaitSteps
<1>4. Handlers'
  BY DEF Deliver, SemTypeOK, Handlers, WaitSteps
<1>5. LoopIndex' /\ TookInTry'
  BY DEF Deliver, SemTypeOK, LoopIndex, TookInTry, Handlers
<1>6. QED
  BY <1>1, <1>2, <1>3, <1>4, <1>5

\* Every step keeps the lock, the registers, the list and the handlers in
\* order.
THEOREM Invariance == Spec => []SemInv
<1>1. SemInv /\ [Next]_vars => SemInv'
  <2> SUFFICES ASSUME SemInv, [Next]_vars PROVE SemInv'
    OBVIOUS
  <2>1. ASSUME NEW p \in Procs, Calls(p) \/ Step(p) \/ Deliver(p)
        PROVE  SemInv'
    BY <2>1, WaitStepInv, IncStepInv, TryStepInv, DeliverInv DEF Calls, Step
  <2>2. CASE UNCHANGED vars
    BY <2>2 DEF vars, SemInv, SemTypeOK, LockExclusive, RegisterFresh, Listed, Handlers, LoopIndex, TookInTry
  <2>3. QED
    BY <2>1, <2>2 DEF Next
<1>2. QED
  BY InitInv, <1>1, PTL DEF Spec

\* The fields and the processes keep their types; the count is never negative
\* (sem.c:21-79).
THEOREM TypeCorrect == Spec => []SemTypeOK
  BY Invariance, PTL DEF SemInv

\* The fields of *s are used by one process at a time, a process that dies
\* holding the lock included (sem.c:22-29, 40-58, 65-78).
THEOREM MutualExclusion == Spec => []LockExclusive
  BY Invariance, PTL DEF SemInv

\* A process that sleeps in sem_wait, or is about to, is listed in s->procs
\* (sem.c:37, 52, 73).
THEOREM SleepersAreListed == Spec => []SleeperIsListed
<1>1. SemInv => SleeperIsListed
  BY DEF SemInv, Listed, SleeperIsListed, WaitSteps
<1>2. QED
  BY Invariance, <1>1, PTL

-----------------------------------------------------------------------------
(***************************************************************************)
(* sem.c keeps the permits of the semaphore of sem.h: a step that writes   *)
(* the count is the abstract P, V or sem_try, the test of a sem_try that   *)
(* finds none the abstract sem_try that takes none, and every other step a *)
(* call, a return or a stutter.                                            *)
(***************************************************************************)
LEMMA PhaseMoves ==
  ASSUME SemTypeOK, NEW p \in Procs, NEW from, NEW to, Moves(p, from, to),
         \A q \in Procs : q # p => took'[q] = took[q]
  PROVE  /\ phase[p] = PhaseAt(from, took[p])
         /\ phase' = [phase EXCEPT ![p] = PhaseAt(to, took'[p])]
  BY DEF SemTypeOK, Moves, phase

\* A step within one phase is not seen by the abstract semaphore.
LEMMA PhaseStays ==
  ASSUME SemTypeOK, NEW p \in Procs, NEW from, NEW to, Moves(p, from, to),
         took' = took, PhaseAt(from, took[p]) = PhaseAt(to, took[p])
  PROVE  phase' = phase
  BY DEF SemTypeOK, Moves, phase

\* The phase of each statement.
LEMMA PhaseValues ==
  ASSUME NEW taken
  PROVE  /\ \A s \in (WaitSteps \cup {"dead"}) \ {"wait_unlock"} : PhaseAt(s, taken) = "waiting"
         /\ PhaseAt("wait_unlock", taken) = "passed"
         /\ \A s \in {"try_lock", "try_test", "try_read", "try_take"} :
              PhaseAt(s, taken) = "trying"
         /\ \A s \in {"try_unlock", "try_return"} :
              PhaseAt(s, taken) = IF taken THEN "took" ELSE "refused"
         /\ \A s \in {"inc_lock", "inc_read", "inc_write"} : PhaseAt(s, taken) = "releasing"
         /\ \A s \in {"inc_kill", "inc_unlock"} : PhaseAt(s, taken) = "released"
         /\ PhaseAt("idle", taken) = "idle"
  BY DEF PhaseAt, WaitSteps

\* A call is an abstract call.
LEMMA CallsImplement ==
  ASSUME SemInv, NEW p \in Procs, Calls(p)
  PROVE  Abs!Call(p)
<1>1. /\ \E to \in {"wait_lock", "inc_lock", "try_lock"} : Moves(p, "idle", to)
      /\ count' = count /\ took' = took
  BY DEF Calls, WaitCall, IncCall, TryCall
<1>2. QED
  BY <1>1, PhaseMoves, PhaseValues DEF SemInv, Abs!Call, Abs!Moves, WaitSteps

\* The write of the count is the abstract operation, and a sem_try that finds
\* no permit is the abstract sem_try that takes none.
LEMMA EffectsImplement ==
  ASSUME SemInv, NEW p \in Procs
  PROVE  /\ WaitTake(p) => Abs!P(p)
         /\ IncWrite(p) => Abs!V(p)
         /\ TryTake(p) => Abs!TryP(p)
         /\ TryTest(p) /\ count = 0 => Abs!TryP(p)
<1> USE PhaseMoves, PhaseValues DEF SemInv
<1>1. ASSUME WaitTake(p) PROVE Abs!P(p)
  <2>1. /\ Moves(p, "wait_take", "wait_unlock") /\ took' = took
        /\ count' = count - 1 /\ count > 0
    BY <1>1 DEF WaitTake, RegisterFresh, Moves
  <2>2. QED
    BY <2>1 DEF Abs!P, Abs!Moves, WaitSteps
<1>2. ASSUME IncWrite(p) PROVE Abs!V(p)
  <2>1. Moves(p, "inc_write", "inc_kill") /\ took' = took /\ count' = count + 1
    BY <1>2 DEF IncWrite, RegisterFresh, Moves
  <2>2. QED
    BY <2>1 DEF Abs!V, Abs!Moves
<1>3. ASSUME TryTake(p) PROVE Abs!TryP(p)
  <2>1. Moves(p, "try_take", "try_unlock") /\ count' = count - 1 /\ count > 0
    BY <1>3 DEF TryTake, RegisterFresh, Moves
  <2>2. took'[p] /\ \A q \in Procs : q # p => took'[q] = took[q]
    BY <1>3 DEF TryTake, SemTypeOK
  <2>3. QED
    BY <2>1, <2>2 DEF Abs!TryP, Abs!Moves
<1>4. ASSUME TryTest(p), count = 0 PROVE Abs!TryP(p)
  <2>1. Moves(p, "try_test", "try_unlock") /\ took' = took /\ count' = count
    BY <1>4 DEF TryTest
  <2>2. ~took[p]
    BY <2>1 DEF Moves, TookInTry
  <2>3. QED
    BY <1>4, <2>1, <2>2 DEF Abs!TryP, Abs!Moves
<1>5. QED
  BY <1>1, <1>2, <1>3, <1>4

\* The last step of each call is an abstract return.
LEMMA ReturnsImplement ==
  ASSUME SemInv, NEW p \in Procs, WaitUnlock(p) \/ IncUnlock(p) \/ TryReturn(p)
  PROVE  Abs!Return(p)
<1>1. \E from \in {"wait_unlock", "inc_unlock", "try_return"} :
        Moves(p, from, "idle") /\ count' = count
  BY DEF WaitUnlock, IncUnlock, TryReturn
<1>2. \A q \in Procs : q # p => took'[q] = took[q]
  BY DEF WaitUnlock, IncUnlock, TryReturn, SemInv, SemTypeOK
<1>3. QED
  BY <1>1, <1>2, PhaseMoves, PhaseValues DEF SemInv, Abs!Return, Abs!Moves

\* Locking, testing, reading, signalling and sleeping are not seen.
LEMMA OthersStutter ==
  ASSUME SemInv, NEW p \in Procs,
         \/ WaitLock(p) \/ WaitHandler(p) \/ WaitTest(p) \/ WaitClear(p) \/ WaitRead(p)
         \/ WaitRelease(p) \/ WaitSuspend(p)
         \/ IncLock(p) \/ IncRead(p) \/ IncKill(p)
         \/ TryLock(p) \/ (TryTest(p) /\ count # 0) \/ TryRead(p) \/ TryUnlock(p)
         \/ Deliver(p)
  PROVE  UNCHANGED <<count, phase>>
<1> USE PhaseStays, PhaseValues DEF SemInv
<1>1. CASE \/ WaitLock(p) \/ WaitHandler(p) \/ WaitTest(p) \/ WaitClear(p) \/ WaitRead(p)
           \/ WaitRelease(p) \/ WaitSuspend(p)
  <2>1. /\ count' = count /\ took' = took
        /\ \E from, to \in WaitSteps \ {"wait_unlock"} : Moves(p, from, to)
    BY <1>1 DEF WaitLock, WaitHandler, WaitTest, WaitClear, WaitRead, WaitRelease,
                WaitSuspend, WaitSteps
  <2>2. QED
    BY <2>1
<1>2. CASE IncLock(p) \/ IncRead(p)
  <2>1. /\ count' = count /\ took' = took
        /\ \E from, to \in {"inc_lock", "inc_read", "inc_write"} : Moves(p, from, to)
    BY <1>2 DEF IncLock, IncRead
  <2>2. QED
    BY <2>1
<1>3. CASE IncKill(p)
  <2>1. /\ count' = count /\ took' = took
        /\ \E from, to \in {"inc_kill", "inc_unlock"} : Moves(p, from, to)
    BY <1>3 DEF IncKill
  <2>2. QED
    BY <2>1
<1>4. CASE TryLock(p) \/ (TryTest(p) /\ count # 0) \/ TryRead(p)
  <2>1. /\ count' = count /\ took' = took
        /\ \E from, to \in {"try_lock", "try_test", "try_read", "try_take"} : Moves(p, from, to)
    BY <1>4 DEF TryLock, TryTest, TryRead
  <2>2. QED
    BY <2>1
<1>5. CASE TryUnlock(p)
  <2>1. /\ count' = count /\ took' = took
        /\ \E from, to \in {"try_unlock", "try_return"} : Moves(p, from, to)
    BY <1>5 DEF TryUnlock
  <2>2. QED
    BY <2>1
<1>6. CASE Deliver(p)
  <2>1. count' = count /\ took' = took
    BY <1>6 DEF Deliver
  <2>2. \/ pc' = pc
        \/ \E from, to \in (WaitSteps \cup {"dead"}) \ {"wait_unlock"} : Moves(p, from, to)
    BY <1>6 DEF Deliver, Handlers, Moves, WaitSteps
  <2>3. QED
    BY <2>1, <2>2 DEF phase
<1>7. QED
  BY <1>1, <1>2, <1>3, <1>4, <1>5, <1>6

\* sem.c keeps the permits of the semaphore of sem.h, in safety: each permit that
\* is taken was there, and none is lost or made (sem.h:19-47).  Of what sem_try
\* returns this says nothing.
THEOREM Implementation == Spec => KeepsPermits
<1>1. Init => Abs!PermitsInit
  BY PhaseValues DEF Init, Abs!PermitsInit, phase, PhaseAt, WaitSteps
<1>2. SemInv /\ [Next]_vars => [Abs!PermitsNext]_<<count, phase>>
  <2> SUFFICES ASSUME SemInv, [Next]_vars
               PROVE  Abs!PermitsNext \/ UNCHANGED <<count, phase>>
    OBVIOUS
  <2>1. ASSUME NEW p \in Procs, Calls(p) \/ Step(p) \/ Deliver(p)
        PROVE  Abs!PermitsNext \/ UNCHANGED <<count, phase>>
    BY <2>1, CallsImplement, EffectsImplement, ReturnsImplement, OthersStutter
    DEF Step, Abs!PermitsNext, Abs!Effect
  <2>2. CASE UNCHANGED vars
    BY <2>2 DEF vars, phase
  <2>3. QED
    BY <2>1, <2>2 DEF Next
<1>3. QED
  BY Invariance, <1>1, <1>2, PTL DEF Spec, KeepsPermits, Abs!PermitsSpec

=============================================================================
