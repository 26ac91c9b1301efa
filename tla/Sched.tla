------------------------------- MODULE Sched -------------------------------
(***************************************************************************)
(* The user-level scheduler of ps9/sched.c: simulated tasks that share one *)
(* process, a table of task slots, one current task and a timer signal.    *)
(*                                                                         *)
(* A region the code runs with every signal blocked cannot be interrupted, *)
(* so it is one action; the places where the timer can strike, including   *)
(* the gaps between an unblock and the next block, are values of pc.  The  *)
(* task in slot i has pid i (the code stores pid i at procs[i - 1]).       *)
(***************************************************************************)
EXTENDS Integers, FiniteSets

CONSTANTS
  NPROC,        \* SCHED_NPROC, the number of slots of running->procs
  MaxTicks,     \* bound: no tick is delivered once tick_count reaches it
  NiceArgs,     \* arguments a task may give sched_nice
  Codes,        \* exit codes a task may give sched_exit
  NoCode,       \* the exit code of a task that has not exited
  MemoryFails   \* whether malloc and mmap can fail

ASSUME SchedAssumption ==
  /\ NPROC \in Nat \ {0}
  /\ MaxTicks \in Nat
  /\ NiceArgs \subseteq Int
  /\ NoCode \notin Codes
  /\ MemoryFails \in BOOLEAN

Slots == 1 .. NPROC
InitPid == 1

VARIABLES
  current,      \* the slot whose code the processor executes
  state,        \* procs[i]->state; "free" when procs[i] is NULL
  ppid,         \* procs[i]->ppid
  niceval,      \* procs[i]->niceval
  exit_code,    \* procs[i]->exit_code
  total_ticks,  \* procs[i]->total_ticks
  ctx,          \* where procs[i]->ctx resumes; "stale" once it was restored
  proc_count,
  tick_count,
  masked,       \* whether the process blocks all signals
  pc,           \* where the current task is
  forker,       \* history: the task that forked i, 0 once that task is reaped
  orderly       \* history: whether, up to now, tasks reaped their children
                \*   before they exited, init did not exit, and init waited
                \*   only while it had a child

fields == <<state, ppid, niceval, exit_code, total_ticks, forker>>
vars == <<current, fields, ctx, proc_count, tick_count, masked, pc, orderly>>

(***************************************************************************)
(* Where a task can be when the timer strikes or another task gets the     *)
(* processor.                                                              *)
(*   user      in the task's own code                                      *)
(*   sleep     in sched_wait, marked SLEEPING, about to call sched_switch  *)
(*   woken     in sched_wait, back from sched_switch                       *)
(*   dying     in sched_exit, about to call sched_switch                   *)
(*   returned  past sched_exit, which came back to its caller              *)
(*   crashed   the process faulted on a stack that could not be mapped     *)
(***************************************************************************)
ResumePoints == {"user", "sleep", "woken", "dying", "returned"}
TaskStates == {"ready", "running", "sleeping", "zombie"}

TypeOK ==
  /\ current \in Slots
  /\ state \in [Slots -> TaskStates \cup {"free"}]
  /\ ppid \in [Slots -> 0 .. NPROC]
  /\ niceval \in [Slots -> -20 .. 19]
  /\ exit_code \in [Slots -> Codes \cup {NoCode}]
  /\ total_ticks \in [Slots -> Nat]
  /\ ctx \in [Slots -> ResumePoints \cup {"stale"}]
  /\ proc_count \in Int
  /\ tick_count \in Nat
  /\ masked \in BOOLEAN
  /\ pc \in ResumePoints \cup {"crashed"}
  /\ forker \in [Slots -> 0 .. NPROC]
  /\ orderly \in BOOLEAN

(***************************************************************************)
(* sched_init: the init task is its own parent and has the processor.      *)
(***************************************************************************)
Init ==
  /\ current = InitPid
  /\ state = [i \in Slots |-> IF i = InitPid THEN "running" ELSE "free"]
  /\ ppid = [i \in Slots |-> IF i = InitPid THEN InitPid ELSE 0]
  /\ niceval = [i \in Slots |-> 0]
  /\ exit_code = [i \in Slots |-> NoCode]
  /\ total_ticks = [i \in Slots |-> 0]
  /\ ctx = [i \in Slots |-> "stale"]
  /\ proc_count = 1
  /\ tick_count = 0
  /\ masked = FALSE
  /\ pc = "user"
  /\ forker = [i \in Slots |-> IF i = InitPid THEN InitPid ELSE 0]
  /\ orderly = TRUE

-----------------------------------------------------------------------------
(***************************************************************************)
(* What the handlers look up.                                              *)
(***************************************************************************)
IsNextPid(n) == state[n] = "free" /\ \A m \in 1 .. n - 1 : state[m] # "free"

IsChild(j, i) == state[j] # "free" /\ ppid[j] = i

\* Mutant: the check for children is left out.
HasChild_Unchecked(i) == i \in Slots

HasChild(i) == \E j \in Slots : IsChild(j, i)

ZombieChild(j, i) == IsChild(j, i) /\ state[j] = "zombie"

\* Mutant: only a READY parent is looked for.
SleepingParent_Ready(j, i) == ppid[i] = j /\ state[j] = "ready"

SleepingParent(j, i) == ppid[i] = j /\ state[j] = "sleeping"

\* Mutant: no lower clamp.
ClampNice_NoLower(v) == IF v > 19 THEN 19 ELSE v

ClampNice(v) == IF v > 19 THEN 19 ELSE IF v < -20 THEN -20 ELSE v

\* Mutant: no floor of 1.
DynamicPriority_NoFloor(nice, ticks) == 20 - nice - (ticks \div (20 - nice))

\* C division of the nonnegative tick count; the quotient truncates.
DynamicPriority(nice, ticks) ==
  LET temp == 20 - nice - (ticks \div (20 - nice))
  IN  IF temp <= 0 THEN 1 ELSE temp

\* The scan of sched_switch: READY, priority above the initial 0, and above
\* every READY task scanned before.
Eligible(i, st, ticks) ==
  st[i] = "ready" /\ DynamicPriority(niceval[i], ticks[i]) > 0

IsBest(i, st, ticks) ==
  /\ Eligible(i, st, ticks)
  /\ \A j \in Slots \ {i} : Eligible(j, st, ticks) =>
       LET pi == DynamicPriority(niceval[i], ticks[i])
           pj == DynamicPriority(niceval[j], ticks[j])
       IN  pi > pj \/ (pi = pj /\ i < j)

-----------------------------------------------------------------------------
(***************************************************************************)
(* sched_switch with the tick counts `ticks'; the caller goes on at        *)
(* `resume'.  A task that gets the processor leaves the region with        *)
(* signals unblocked; a call that finds nobody better returns without      *)
(* unblocking them, and `kept' is the mask the caller then runs with.      *)
(***************************************************************************)
Requeued ==
  [state EXCEPT ![current] = IF @ \in {"sleeping", "zombie"} THEN @ ELSE "ready"]

\* Mutant: the context of the task that leaves the processor is not saved.
SaveAndRestore_NoSave(b, resume) == ctx' = [ctx EXCEPT ![b] = "stale"]

SaveAndRestore(b, resume) ==
  ctx' = [ctx EXCEPT ![current] = resume, ![b] = "stale"]

SwitchTo(b, resume) ==
  /\ state' = [Requeued EXCEPT ![b] = "running"]
  /\ SaveAndRestore(b, resume)
  /\ current' = b
  /\ pc' = ctx[b]
  /\ masked' = FALSE

Stay(resume, kept) ==
  /\ state' = Requeued
  /\ pc' = resume
  /\ masked' = kept
  /\ UNCHANGED <<current, ctx>>

sched_switch(ticks, resume, kept) ==
  \/ \E b \in Slots \ {current} :
       IsBest(b, Requeued, ticks) /\ SwitchTo(b, resume)
  \/ IsBest(current, Requeued, ticks) /\ Stay(resume, kept)
  \/ /\ \A i \in Slots : ~ Eligible(i, Requeued, ticks)
     /\ Stay(resume, kept)

(***************************************************************************)
(* The timer signal.  Returning from the handler restores the mask of the  *)
(* interrupted code, which had signals unblocked.                          *)
(***************************************************************************)
\* Mutant: tick_count is incremented after sched_switch, so only once the
\* interrupted task goes on.
sched_tick_LateCount ==
  /\ ~masked
  /\ pc \in ResumePoints
  /\ tick_count < MaxTicks
  /\ total_ticks' = [total_ticks EXCEPT ![current] = @ + 1]
  /\ sched_switch(total_ticks', pc, FALSE)
  /\ tick_count' = IF current' = current THEN tick_count + 1 ELSE tick_count
  /\ UNCHANGED <<ppid, niceval, exit_code, proc_count, forker, orderly>>

sched_tick ==
  /\ ~masked
  /\ pc \in ResumePoints
  /\ tick_count < MaxTicks
  /\ total_ticks' = [total_ticks EXCEPT ![current] = @ + 1]
  /\ tick_count' = tick_count + 1
  /\ sched_switch(total_ticks', pc, FALSE)
  /\ UNCHANGED <<ppid, niceval, exit_code, proc_count, forker, orderly>>

-----------------------------------------------------------------------------
(***************************************************************************)
(* sched_fork.                                                             *)
(***************************************************************************)
\* Mutant: the child is a sibling of its parent.
ForkChild_Sibling(n) ==
  /\ state' = [state EXCEPT ![n] = "ready"]
  /\ ppid' = [ppid EXCEPT ![n] = ppid[current]]
  /\ forker' = [forker EXCEPT ![n] = current]
  /\ niceval' = [niceval EXCEPT ![n] = 0]
  /\ total_ticks' = [total_ticks EXCEPT ![n] = total_ticks[current]]
  /\ ctx' = [ctx EXCEPT ![n] = "user"]
  /\ proc_count' = proc_count + 1
  /\ masked' = FALSE
  /\ UNCHANGED <<current, exit_code, tick_count, pc>>

ForkChild(n) ==
  /\ state' = [state EXCEPT ![n] = "ready"]
  /\ ppid' = [ppid EXCEPT ![n] = current]
  /\ forker' = [forker EXCEPT ![n] = current]
  /\ niceval' = [niceval EXCEPT ![n] = 0]
  /\ total_ticks' = [total_ticks EXCEPT ![n] = total_ticks[current]]
  /\ ctx' = [ctx EXCEPT ![n] = "user"]
  /\ proc_count' = proc_count + 1
  /\ masked' = FALSE
  /\ UNCHANGED <<current, exit_code, tick_count, pc>>

\* malloc or nextpid fails: the early return leaves signals blocked.
ForkError ==
  /\ MemoryFails \/ \A n \in Slots : ~ IsNextPid(n)
  /\ masked' = TRUE
  /\ UNCHANGED <<current, fields, ctx, proc_count, tick_count, pc>>

\* mmap fails: MAP_FAILED is not below 0, so the copy goes to that address.
ForkFault ==
  /\ MemoryFails
  /\ \E n \in Slots : IsNextPid(n)
  /\ masked' = TRUE
  /\ pc' = "crashed"
  /\ UNCHANGED <<current, fields, ctx, proc_count, tick_count>>

sched_fork ==
  /\ pc = "user"
  /\ \/ \E n \in Slots : IsNextPid(n) /\ ForkChild(n)
     \/ ForkError
     \/ ForkFault
  /\ UNCHANGED orderly

(***************************************************************************)
(* sched_exit.  A parent asleep gets the processor at once, without a call *)
(* of sched_switch.                                                        *)
(***************************************************************************)
\* Mutant: the count is not taken back.
CountExit_Missing == UNCHANGED proc_count

CountExit == proc_count' = proc_count - 1

WakeParent(j) ==
  /\ state' = [state EXCEPT ![current] = "zombie", ![j] = "running"]
  /\ current' = j
  /\ pc' = ctx[j]
  /\ ctx' = [ctx EXCEPT ![j] = "stale"]
  /\ masked' = FALSE

NobodyToWake ==
  /\ \A j \in Slots : ~ SleepingParent(j, current)
  /\ state' = [state EXCEPT ![current] = "zombie"]
  /\ pc' = "dying"
  /\ masked' = FALSE
  /\ UNCHANGED <<current, ctx>>

sched_exit(code) ==
  /\ pc = "user"
  /\ orderly' = (orderly /\ current # InitPid /\ ~ HasChild(current))
  /\ CountExit
  /\ exit_code' = [exit_code EXCEPT ![current] = code]
  /\ \/ \E j \in Slots : SleepingParent(j, current) /\ WakeParent(j)
     \/ NobodyToWake
  /\ UNCHANGED <<ppid, niceval, total_ticks, forker, tick_count>>

ExitSwitch ==
  /\ pc = "dying"
  /\ sched_switch(total_ticks, "returned", TRUE)
  /\ UNCHANGED <<ppid, niceval, exit_code, total_ticks, forker,
                 proc_count, tick_count, orderly>>

(***************************************************************************)
(* sched_wait: one pass of its loop, the call, the call of sched_switch    *)
(* and the pass after it.                                                  *)
(***************************************************************************)
FirstZombieChild(z) ==
  ZombieChild(z, current) /\ \A j \in 1 .. z - 1 : ~ ZombieChild(j, current)

Reap(z) ==
  /\ state' = [state EXCEPT ![z] = "free"]
  /\ ppid' = [ppid EXCEPT ![z] = 0]
  /\ niceval' = [niceval EXCEPT ![z] = 0]
  /\ exit_code' = [exit_code EXCEPT ![z] = NoCode]
  /\ total_ticks' = [total_ticks EXCEPT ![z] = 0]
  /\ ctx' = [ctx EXCEPT ![z] = "stale"]
  /\ forker' = [i \in Slots |-> IF i = z \/ forker[i] = z THEN 0 ELSE forker[i]]
  /\ pc' = "user"

\* Mutant: the caller goes to sleep without the scan for zombies.
Sleep_NoScan ==
  /\ state' = [state EXCEPT ![current] = "sleeping"]
  /\ pc' = "sleep"
  /\ UNCHANGED <<ppid, niceval, exit_code, total_ticks, ctx, forker>>

Sleep ==
  /\ \A j \in Slots : ~ ZombieChild(j, current)
  /\ state' = [state EXCEPT ![current] = "sleeping"]
  /\ pc' = "sleep"
  /\ UNCHANGED <<ppid, niceval, exit_code, total_ticks, ctx, forker>>

WaitPass ==
  /\ \/ \E z \in Slots : FirstZombieChild(z) /\ Reap(z)
     \/ Sleep
  /\ masked' = FALSE
  /\ UNCHANGED <<current, proc_count, tick_count>>

\* Nothing to wait for: the early return leaves signals blocked.
WaitError ==
  /\ ~ HasChild(current)
  /\ masked' = TRUE
  /\ UNCHANGED <<current, fields, ctx, proc_count, tick_count, pc>>

sched_wait ==
  /\ pc = "user"
  /\ orderly' = (orderly /\ (current = InitPid =>
                               \E j \in Slots \ {InitPid} : IsChild(j, InitPid)))
  /\ \/ HasChild(current) /\ WaitPass
     \/ WaitError

WaitSwitch ==
  /\ pc = "sleep"
  /\ sched_switch(total_ticks, "woken", TRUE)
  /\ UNCHANGED <<ppid, niceval, exit_code, total_ticks, forker,
                 proc_count, tick_count, orderly>>

WaitAgain ==
  /\ pc = "woken"
  /\ WaitPass
  /\ UNCHANGED orderly

sched_nice(v) ==
  /\ pc = "user"
  /\ niceval' = [niceval EXCEPT ![current] = ClampNice(v)]
  /\ UNCHANGED <<current, state, ppid, exit_code, total_ticks, forker, ctx,
                 proc_count, tick_count, masked, pc, orderly>>

-----------------------------------------------------------------------------
Next ==
  \/ sched_tick
  \/ sched_fork
  \/ \E code \in Codes : sched_exit(code)
  \/ ExitSwitch
  \/ sched_wait
  \/ WaitSwitch
  \/ WaitAgain
  \/ \E v \in NiceArgs : sched_nice(v)

Spec == Init /\ [][Next]_vars

-----------------------------------------------------------------------------
(***************************************************************************)
(* What holds whatever the tasks do.                                       *)
(***************************************************************************)
Live(i) == state[i] \notin {"free", "zombie"}

\* A context that may still be restored was saved after its task last ran:
\* sched_switch and sched_exit never resume a task at a point it has already
\* left (sched.c:166, 324-327).
ContextFresh ==
  \A i \in Slots \ {current} :
    state[i] \in {"ready", "sleeping"} => ctx[i] # "stale"

\* A parent asleep in sched_wait never has a zombie to collect: the wakeup of
\* sched_exit is not lost, wherever the timer struck (sched.c:162, 197-216).
NoLostWakeup ==
  \A i, j \in Slots : state[i] = "sleeping" => ~ ZombieChild(j, i)

\* A task other than init sleeps in sched_wait only while a child of it is
\* alive and can still wake it, also when it sleeps again without another
\* check for children (sched.c:180-192, 196-222).
SleeperHasLiveChild ==
  \A i \in Slots \ {InitPid} :
    state[i] = "sleeping" => \E j \in Slots \ {i} : IsChild(j, i) /\ Live(j)

\* proc_count is the number of tasks that have not exited, whichever slots
\* were freed and reused (sched.c:79, 132, 155).
ProcCountExact == proc_count = Cardinality({i \in Slots : Live(i)})

\* sched_switch comes back to a task that cannot run, asleep or a zombie, only
\* when no task is READY: no tick count or nice value takes a READY task's
\* priority down to the 0 its scan starts from (sched.c:279-282, 293-307).
NoIdleWithReady ==
  masked /\ pc \in {"woken", "returned"} /\ ~(state[current] = "ready") =>
    \A i \in Slots : state[i] # "ready"

\* No task is charged more ticks than the timer has delivered, though a child
\* starts with the ticks of its parent (sched.c:112, 335-336).
TicksDelivered == \A i \in Slots : total_ticks[i] <= tick_count

(***************************************************************************)
(* What holds as long as the tasks are orderly.                            *)
(***************************************************************************)
\* The children sched_wait finds by ppid are tasks the caller forked, though
\* slots, and with them pids, are reused (sched.c:18-26, 184, 200).
OnlyOwnChildren ==
  orderly => \A i \in Slots : state[i] # "free" => forker[i] = ppid[i]

SomebodyCanRun ==
  \E i \in Slots : state[i] = "ready" \/ (i = current /\ Live(i) /\ state[i] # "sleeping")

\* Tasks never all sleep on one another: some task is READY or current and
\* able to run (sched.c:162, 196-222).
NoSleepDeadlock == orderly => SomebodyCanRun

\* sched_exit does not return (sched.h:76-77, sched.c:173).
ExitNeverReturns == orderly => pc # "returned"

=============================================================================
