---------------------------- MODULE SchedProofs ----------------------------
(***************************************************************************)
(* Proofs about the scheduler of Sched, for every number of slots and      *)
(* every bound: first contexts and wakeups, then parents and children (who *)
(* is counted, who can still be waited for, whose children sched_wait      *)
(* finds), then that orderly tasks never all sleep on one another, and     *)
(* last, on all this, about the program of SchedMain.                      *)
(***************************************************************************)
EXTENDS SchedMain, FiniteSetTheorems, TLAPS

-----------------------------------------------------------------------------
(***************************************************************************)
(* The inductive invariant.  A switch takes pc from the saved context of   *)
(* the task it picks, so the type of pc rests on which contexts are fresh, *)
(* and that on where a task in each state can be.                          *)
(***************************************************************************)
CurrentPlaced ==
  /\ state[current] # "free"
  /\ pc = "user" => state[current] \in {"ready", "running"}
  /\ pc \in {"sleep", "woken"} => state[current] \in {"ready", "running", "sleeping"}
  /\ pc \in {"dying", "returned"} => state[current] = "zombie"

OthersPlaced ==
  \A i \in Slots \ {current} :
    /\ state[i] # "running"
    /\ state[i] = "ready" => ctx[i] \in {"user", "sleep", "woken"}
    /\ state[i] = "sleeping" => ctx[i] \in {"sleep", "woken"}

Inv == TypeOK /\ CurrentPlaced /\ OthersPlaced /\ NoLostWakeup

\* sched_nice clamps to the range of a nice value.
LEMMA ClampNiceRange ==
  ASSUME NEW v \in Int
  PROVE  ClampNice(v) \in -20 .. 19
  BY DEF ClampNice

\* The priority sched_switch computes is above the 0 its scan starts from.
LEMMA PriorityPositive ==
  ASSUME NEW nice \in -20 .. 19, NEW ticks \in Nat
  PROVE  DynamicPriority(nice, ticks) > 0
<1>1. ticks \div (20 - nice) \in Int
  OBVIOUS
<1>2. QED
  BY <1>1 DEF DynamicPriority

\* The task whose priority is the best is READY, and is the current task only
\* if that one is READY again.
LEMMA RequeuedType ==
  ASSUME TypeOK
  PROVE  /\ Requeued \in [Slots -> TaskStates \cup {"free"}]
         /\ \A i \in Slots \ {current} : Requeued[i] = state[i]
         /\ Requeued[current] = IF state[current] \in {"sleeping", "zombie"}
                                THEN state[current] ELSE "ready"
  BY DEF TypeOK, Requeued, TaskStates

\* A call of sched_switch makes no task sleep, wake, exit or disappear.
LEMMA SwitchKeeps ==
  ASSUME TypeOK, state[current] # "free",
         NEW ticks, NEW resume, NEW kept, sched_switch(ticks, resume, kept)
  PROVE  \A i \in Slots : \A s \in {"sleeping", "zombie", "free"} :
           state'[i] = s <=> state[i] = s
<1> SUFFICES ASSUME NEW i \in Slots, NEW s \in {"sleeping", "zombie", "free"}
             PROVE  state'[i] = s <=> state[i] = s
  OBVIOUS
<1>1. Requeued[i] = s <=> state[i] = s
  BY RequeuedType DEF TypeOK
<1>2. CASE \E b \in Slots \ {current} : IsBest(b, Requeued, ticks) /\ SwitchTo(b, resume)
  <2>1. PICK b \in Slots \ {current} : IsBest(b, Requeued, ticks) /\ SwitchTo(b, resume)
    BY <1>2
  <2>2. Requeued[b] = "ready" /\ state' = [Requeued EXCEPT ![b] = "running"]
    BY <2>1 DEF IsBest, Eligible, SwitchTo
  <2>3. QED
    BY <1>1, <2>2, RequeuedType
<1>3. CASE Stay(resume, kept)
  BY <1>1, <1>3 DEF Stay
<1>4. QED
  BY <1>2, <1>3 DEF sched_switch

\* What a call of sched_switch leaves behind, whichever of its returns it takes.
LEMMA SwitchPlaced ==
  ASSUME Inv, NEW ticks, NEW resume \in ResumePoints, NEW kept \in BOOLEAN,
         pc # "crashed",
         resume = pc \/ (pc = "sleep" /\ resume = "woken")
                     \/ (pc = "dying" /\ resume = "returned"),
         sched_switch(ticks, resume, kept)
  PROVE  /\ current' \in Slots
         /\ state' \in [Slots -> TaskStates \cup {"free"}]
         /\ ctx' \in [Slots -> ResumePoints \cup {"stale"}]
         /\ masked' \in BOOLEAN
         /\ pc' \in ResumePoints
         /\ CurrentPlaced'
         /\ OthersPlaced'
<1> USE RequeuedType DEF Inv
<1>1. CASE \E b \in Slots \ {current} : IsBest(b, Requeued, ticks) /\ SwitchTo(b, resume)
  <2>1. PICK b \in Slots \ {current} : IsBest(b, Requeued, ticks) /\ SwitchTo(b, resume)
    BY <1>1
  <2>2. state[b] = "ready"
    BY <2>1 DEF IsBest, Eligible
  <2>3. ctx[b] \in {"user", "sleep", "woken"}
    BY <2>2 DEF OthersPlaced
  <2>4. /\ current' = b /\ pc' = ctx[b] /\ masked' = FALSE
        /\ state' = [Requeued EXCEPT ![b] = "running"]
        /\ ctx' = [ctx EXCEPT ![current] = resume, ![b] = "stale"]
    BY <2>1 DEF SwitchTo, SaveAndRestore
  <2>5. /\ current' \in Slots /\ masked' \in BOOLEAN /\ pc' \in ResumePoints
        /\ state' \in [Slots -> TaskStates \cup {"free"}]
        /\ ctx' \in [Slots -> ResumePoints \cup {"stale"}]
    BY <2>3, <2>4 DEF TypeOK, ResumePoints, TaskStates
  <2>6. CurrentPlaced'
    BY <2>3, <2>4 DEF CurrentPlaced, TypeOK
  <2>7. OthersPlaced'
    <3> SUFFICES ASSUME NEW i \in Slots, i # b
                 PROVE  /\ state'[i] # "running"
                        /\ state'[i] = "ready" => ctx'[i] \in {"user", "sleep", "woken"}
                        /\ state'[i] = "sleeping" => ctx'[i] \in {"sleep", "woken"}
      BY <2>4 DEF OthersPlaced
    <3>1. CASE i = current
      BY <3>1, <2>4 DEF TypeOK, CurrentPlaced, TaskStates, ResumePoints
    <3>2. CASE i # current
      BY <3>2, <2>4 DEF TypeOK, OthersPlaced
    <3>3. QED
      BY <3>1, <3>2
  <2>8. QED
    BY <2>5, <2>6, <2>7
<1>2. CASE Stay(resume, kept)
  <2>1. /\ current' = current /\ ctx' = ctx /\ pc' = resume /\ masked' = kept
        /\ state' = Requeued
    BY <1>2 DEF Stay
  <2>2. CurrentPlaced'
    BY <2>1 DEF CurrentPlaced, TypeOK, TaskStates
  <2>3. OthersPlaced'
    BY <2>1 DEF OthersPlaced
  <2>4. QED
    BY <2>1, <2>2, <2>3 DEF TypeOK
<1>3. QED
  BY <1>1, <1>2 DEF sched_switch

-----------------------------------------------------------------------------
(***************************************************************************)
(* Inv holds initially and every action preserves it.                      *)
(***************************************************************************)
LEMMA InitInv == Init => Inv
<1> SUFFICES ASSUME Init PROVE Inv
  OBVIOUS
<1> USE SchedAssumption DEF Init, Slots, InitPid
<1>1. masked \in BOOLEAN
  OBVIOUS
<1>2. TypeOK
  BY <1>1 DEF TypeOK, TaskStates, ResumePoints
<1>3. CurrentPlaced /\ OthersPlaced
  BY DEF CurrentPlaced, OthersPlaced
<1>4. NoLostWakeup
  BY DEF NoLostWakeup
<1>5. QED
  BY <1>2, <1>3, <1>4 DEF Inv

\* A step that leaves who sleeps, who is a zombie and who is whose child alone
\* loses no wakeup.
LEMMA SameFamily ==
  ASSUME NoLostWakeup,
         \A i \in Slots : \A s \in {"sleeping", "zombie", "free"} :
           state'[i] = s <=> state[i] = s,
         ppid' = ppid
  PROVE  NoLostWakeup'
  BY DEF NoLostWakeup, ZombieChild, IsChild

\* What each step does to the history variable orderly.
LEMMA OrderlyType ==
  ASSUME Inv, [Next]_vars
  PROVE  orderly' \in BOOLEAN
<1>1. orderly \in BOOLEAN
  BY DEF Inv, TypeOK
<1>2. CASE sched_wait \/ \E code \in Codes : sched_exit(code)
  BY <1>2 DEF sched_wait, sched_exit
<1>3. CASE UNCHANGED orderly
  BY <1>1, <1>3
<1>4. QED
  BY <1>2, <1>3 DEF Next, vars, sched_tick, sched_fork, ExitSwitch, WaitSwitch, WaitAgain,
                    sched_nice

\* The timer signal preserves Inv.
LEMMA TickInv ==
  ASSUME Inv, orderly' \in BOOLEAN, sched_tick
  PROVE  Inv'
<1>1. pc \in ResumePoints /\ pc # "crashed" /\ sched_switch(total_ticks', pc, FALSE)
  BY DEF sched_tick, ResumePoints
<1>2. total_ticks' \in [Slots -> Nat] /\ tick_count' \in Nat
  BY DEF sched_tick, Inv, TypeOK
<1>3. /\ current' \in Slots
      /\ state' \in [Slots -> TaskStates \cup {"free"}]
      /\ ctx' \in [Slots -> ResumePoints \cup {"stale"}]
      /\ masked' \in BOOLEAN
      /\ pc' \in ResumePoints
      /\ CurrentPlaced'
      /\ OthersPlaced'
  BY <1>1, SwitchPlaced
<1>4. UNCHANGED <<ppid, niceval, exit_code, proc_count, forker>>
  BY DEF sched_tick
<1>5. TypeOK'
  BY <1>2, <1>3, <1>4 DEF Inv, TypeOK
<1>6. NoLostWakeup'
  BY <1>1, <1>4, SwitchKeeps, SameFamily DEF Inv, CurrentPlaced
<1>7. QED
  BY <1>3, <1>5, <1>6 DEF Inv

\* The calls of sched_switch by sched_exit and sched_wait preserve it.
LEMMA TaskSwitchInv ==
  ASSUME Inv, orderly' \in BOOLEAN, ExitSwitch \/ WaitSwitch
  PROVE  Inv'
<1>1. \E resume \in ResumePoints :
        /\ pc # "crashed"
        /\ (pc = "sleep" /\ resume = "woken") \/ (pc = "dying" /\ resume = "returned")
        /\ sched_switch(total_ticks, resume, TRUE)
  BY DEF ExitSwitch, WaitSwitch, ResumePoints
<1>2. /\ current' \in Slots
      /\ state' \in [Slots -> TaskStates \cup {"free"}]
      /\ ctx' \in [Slots -> ResumePoints \cup {"stale"}]
      /\ masked' \in BOOLEAN
      /\ pc' \in ResumePoints
      /\ CurrentPlaced'
      /\ OthersPlaced'
  BY <1>1, SwitchPlaced
<1>3. UNCHANGED <<ppid, niceval, exit_code, total_ticks, forker, proc_count, tick_count>>
  BY DEF ExitSwitch, WaitSwitch
<1>4. TypeOK'
  BY <1>2, <1>3 DEF Inv, TypeOK
<1>5. NoLostWakeup'
  BY <1>1, <1>3, SwitchKeeps, SameFamily DEF Inv, CurrentPlaced
<1>6. QED
  BY <1>2, <1>4, <1>5 DEF Inv

\* sched_fork preserves it: the new task is READY and has a context.
LEMMA ForkInv ==
  ASSUME Inv, orderly' \in BOOLEAN, sched_fork
  PROVE  Inv'
<1> USE DEF Inv
<1>1. ASSUME NEW n \in Slots, IsNextPid(n), ForkChild(n)
      PROVE  Inv'
  <2>1. state[n] = "free" /\ n # current
    BY <1>1 DEF IsNextPid, CurrentPlaced
  <2>2. masked' \in BOOLEAN
    BY <1>1 DEF ForkChild
  <2>3. TypeOK'
    <3>1. /\ state' \in [Slots -> TaskStates \cup {"free"}]
          /\ ctx' \in [Slots -> ResumePoints \cup {"stale"}]
          /\ UNCHANGED <<current, exit_code, tick_count, pc>>
      BY <1>1 DEF ForkChild, TypeOK, TaskStates, ResumePoints
    <3>2. /\ ppid' \in [Slots -> 0 .. NPROC]
          /\ forker' \in [Slots -> 0 .. NPROC]
      <4>1. current \in 0 .. NPROC
        BY SchedAssumption DEF TypeOK, Slots
      <4>2. ppid \in [Slots -> 0 .. NPROC] /\ forker \in [Slots -> 0 .. NPROC]
        BY DEF TypeOK
      <4>3. ppid' = [ppid EXCEPT ![n] = current] /\ forker' = [forker EXCEPT ![n] = current]
        BY <1>1 DEF ForkChild
      <4>4. QED
        BY <4>1, <4>2, <4>3
    <3>3. /\ niceval' \in [Slots -> -20 .. 19]
          /\ total_ticks' \in [Slots -> Nat]
          /\ proc_count' \in Int
      BY <1>1 DEF ForkChild, TypeOK
    <3>4. QED
      BY <2>2, <3>1, <3>2, <3>3 DEF TypeOK
  <2>4. CurrentPlaced'
    BY <1>1, <2>1 DEF ForkChild, CurrentPlaced, TypeOK
  <2>5. OthersPlaced'
    BY <1>1, <2>1 DEF ForkChild, OthersPlaced, TypeOK
  <2>6. NoLostWakeup'
    BY <1>1, <2>1 DEF ForkChild, NoLostWakeup, ZombieChild, IsChild, TypeOK
  <2>7. QED
    BY <2>3, <2>4, <2>5, <2>6
<1>2. ASSUME ForkError \/ ForkFault
      PROVE  Inv'
  <2>1. /\ masked' \in BOOLEAN
        /\ pc' \in ResumePoints \cup {"crashed"}
        /\ pc' # "crashed" => pc' = pc
        /\ UNCHANGED <<current, fields, ctx, proc_count, tick_count>>
    BY <1>2 DEF ForkError, ForkFault, TypeOK
  <2>2. TypeOK' /\ CurrentPlaced' /\ OthersPlaced'
    BY <2>1 DEF fields, TypeOK, CurrentPlaced, OthersPlaced
  <2>3. NoLostWakeup'
    BY <2>1, SameFamily DEF fields
  <2>4. QED
    BY <2>2, <2>3
<1>3. QED
  BY <1>1, <1>2 DEF sched_fork

\* sched_exit preserves it: the sleeping parent is the task that goes on.
LEMMA ExitInv ==
  ASSUME Inv, orderly' \in BOOLEAN, NEW code \in Codes, sched_exit(code)
  PROVE  Inv'
<1> USE DEF Inv
<1>1. /\ pc = "user" /\ state[current] \in {"ready", "running"}
      /\ exit_code' \in [Slots -> Codes \cup {NoCode}]
      /\ proc_count' \in Int
      /\ UNCHANGED <<ppid, niceval, total_ticks, forker, tick_count>>
  BY DEF sched_exit, CountExit, CurrentPlaced, TypeOK
<1>2. ASSUME NEW j \in Slots, SleepingParent(j, current), WakeParent(j)
      PROVE  Inv'
  <2>1. j # current /\ ctx[j] \in {"sleep", "woken"}
    BY <1>1, <1>2 DEF SleepingParent, OthersPlaced
  <2>2. masked' \in BOOLEAN
    BY <1>2 DEF WakeParent
  <2>3. TypeOK'
    BY <1>1, <1>2, <2>1, <2>2 DEF WakeParent, TypeOK, TaskStates, ResumePoints
  <2>4. CurrentPlaced'
    BY <1>2, <2>1 DEF WakeParent, CurrentPlaced, TypeOK
  <2>5. OthersPlaced'
    BY <1>2, <2>1 DEF WakeParent, OthersPlaced, TypeOK
  <2>6. NoLostWakeup'
    BY <1>1, <1>2, <2>1 DEF WakeParent, SleepingParent, NoLostWakeup, ZombieChild, IsChild, TypeOK
  <2>7. QED
    BY <2>3, <2>4, <2>5, <2>6
<1>3. ASSUME NobodyToWake
      PROVE  Inv'
  <2>1. masked' \in BOOLEAN
    BY <1>3 DEF NobodyToWake
  <2>2. TypeOK'
    BY <1>1, <1>3, <2>1 DEF NobodyToWake, TypeOK, TaskStates, ResumePoints
  <2>3. CurrentPlaced'
    BY <1>3 DEF NobodyToWake, CurrentPlaced, TypeOK
  <2>4. OthersPlaced'
    BY <1>3 DEF NobodyToWake, OthersPlaced, TypeOK
  <2>5. NoLostWakeup'
    BY <1>1, <1>3 DEF NobodyToWake, SleepingParent, NoLostWakeup, ZombieChild, IsChild, TypeOK
  <2>6. QED
    BY <2>2, <2>3, <2>4, <2>5
<1>4. QED
  BY <1>2, <1>3 DEF sched_exit

\* A pass of the loop of sched_wait preserves it.
LEMMA WaitPassInv ==
  ASSUME Inv, orderly' \in BOOLEAN, pc \in {"user", "woken"}, WaitPass
  PROVE  Inv'
<1> USE DEF Inv
<1>1. /\ state[current] \in {"ready", "running", "sleeping"}
      /\ UNCHANGED <<current, proc_count, tick_count>>
  BY DEF WaitPass, CurrentPlaced
<1>2. masked' \in BOOLEAN
  BY DEF WaitPass
<1>3. ASSUME NEW z \in Slots, FirstZombieChild(z), Reap(z)
      PROVE  Inv'
  <2>1. state[z] = "zombie" /\ z # current /\ ZombieChild(z, current)
    BY <1>1, <1>3 DEF FirstZombieChild, ZombieChild
  <2>2. state[current] \in {"ready", "running"}
    BY <1>1, <2>1 DEF NoLostWakeup, TypeOK
  <2>3. TypeOK'
    <3>1. /\ state' \in [Slots -> TaskStates \cup {"free"}]
          /\ ctx' \in [Slots -> ResumePoints \cup {"stale"}]
          /\ exit_code' \in [Slots -> Codes \cup {NoCode}]
          /\ pc' \in ResumePoints
      BY <1>3 DEF Reap, TypeOK, TaskStates, ResumePoints
    <3>2. /\ ppid' \in [Slots -> 0 .. NPROC]
          /\ forker' \in [Slots -> 0 .. NPROC]
          /\ niceval' \in [Slots -> -20 .. 19]
          /\ total_ticks' \in [Slots -> Nat]
      BY <1>3, SchedAssumption DEF Reap, TypeOK, Slots
    <3>3. QED
      BY <1>1, <1>2, <3>1, <3>2 DEF TypeOK
  <2>4. CurrentPlaced'
    BY <1>1, <1>3, <2>1, <2>2 DEF Reap, CurrentPlaced, TypeOK
  <2>5. OthersPlaced'
    BY <1>1, <1>3, <2>1 DEF Reap, OthersPlaced, TypeOK
  <2>6. NoLostWakeup'
    BY <1>3 DEF Reap, NoLostWakeup, ZombieChild, IsChild, TypeOK
  <2>7. QED
    BY <2>3, <2>4, <2>5, <2>6
<1>4. ASSUME Sleep
      PROVE  Inv'
  <2>1. TypeOK'
    BY <1>1, <1>2, <1>4 DEF Sleep, TypeOK, TaskStates, ResumePoints
  <2>2. CurrentPlaced' /\ OthersPlaced'
    BY <1>1, <1>4 DEF Sleep, CurrentPlaced, OthersPlaced, TypeOK
  <2>3. NoLostWakeup'
    BY <1>4 DEF Sleep, NoLostWakeup, ZombieChild, IsChild, TypeOK
  <2>4. QED
    BY <2>1, <2>2, <2>3
<1>5. QED
  BY <1>3, <1>4 DEF WaitPass

\* sched_wait preserves it, whichever way it returns.
LEMMA WaitInv ==
  ASSUME Inv, orderly' \in BOOLEAN, sched_wait \/ WaitAgain
  PROVE  Inv'
<1>1. CASE pc \in {"user", "woken"} /\ WaitPass
  BY <1>1, WaitPassInv
<1>2. CASE WaitError
  <2>1. masked' \in BOOLEAN /\ UNCHANGED <<current, fields, ctx, proc_count, tick_count, pc>>
    BY <1>2 DEF WaitError
  <2>2. TypeOK' /\ CurrentPlaced' /\ OthersPlaced'
    BY <2>1 DEF Inv, fields, TypeOK, CurrentPlaced, OthersPlaced
  <2>3. NoLostWakeup'
    BY <2>1, SameFamily DEF Inv, fields
  <2>4. QED
    BY <2>2, <2>3 DEF Inv
<1>3. QED
  BY <1>1, <1>2 DEF sched_wait, WaitAgain

\* sched_nice preserves it.
LEMMA NiceInv ==
  ASSUME Inv, orderly' \in BOOLEAN, NEW v \in NiceArgs, sched_nice(v)
  PROVE  Inv'
<1>1. v \in Int
  BY SchedAssumption
<1>2. TypeOK'
  BY <1>1, ClampNiceRange DEF Inv, sched_nice, TypeOK
<1>3. CurrentPlaced' /\ OthersPlaced'
  BY DEF Inv, sched_nice, CurrentPlaced, OthersPlaced
<1>4. NoLostWakeup'
  BY SameFamily DEF Inv, sched_nice
<1>5. QED
  BY <1>2, <1>3, <1>4 DEF Inv

\* A stuttering step preserves it.
LEMMA StutterInv ==
  ASSUME Inv, orderly' \in BOOLEAN, UNCHANGED vars
  PROVE  Inv'
<1>1. TypeOK' /\ CurrentPlaced' /\ OthersPlaced'
  BY DEF Inv, vars, fields, TypeOK, CurrentPlaced, OthersPlaced
<1>2. NoLostWakeup'
  BY SameFamily DEF Inv, vars, fields
<1>3. QED
  BY <1>1, <1>2 DEF Inv

\* Every step preserves it.
LEMMA StepInv ==
  ASSUME Inv, [Next]_vars
  PROVE  Inv'
<1> USE OrderlyType
<1>1. CASE sched_tick
  BY <1>1, TickInv
<1>2. CASE sched_fork
  BY <1>2, ForkInv
<1>3. CASE \E code \in Codes : sched_exit(code)
  BY <1>3, ExitInv
<1>4. CASE ExitSwitch \/ WaitSwitch
  BY <1>4, TaskSwitchInv
<1>5. CASE sched_wait \/ WaitAgain
  BY <1>5, WaitInv
<1>6. CASE \E v \in NiceArgs : sched_nice(v)
  BY <1>6, NiceInv
<1>7. CASE UNCHANGED vars
  BY <1>7, StutterInv
<1>8. QED
  BY <1>1, <1>2, <1>3, <1>4, <1>5, <1>6, <1>7 DEF Next

\* Every step keeps types, contexts and wakeups in order.
THEOREM Invariance == Spec => []Inv
<1>1. Inv /\ [Next]_vars => Inv'
  BY StepInv
<1>2. QED
  BY InitInv, <1>1, PTL DEF Spec

\* The variables keep their types whatever the tasks call (sched.c:28-338).
THEOREM TypeCorrect == Spec => []TypeOK
  BY Invariance, PTL DEF Inv

\* No task is resumed at a point it has already left (sched.c:166, 324-327).
THEOREM ContextsAreFresh == Spec => []ContextFresh
<1>1. Inv => ContextFresh
  BY DEF Inv, OthersPlaced, ContextFresh
<1>2. QED
  BY Invariance, <1>1, PTL

\* No parent sleeps on a zombie child (sched.c:162, 197-216).
THEOREM WakeupsAreNotLost == Spec => []NoLostWakeup
  BY Invariance, PTL DEF Inv

-----------------------------------------------------------------------------
\* A tick is charged to one task and counted once; a child starts with its
\* parent's ticks (sched.c:112, 335-336).
THEOREM TicksAreDelivered == Spec => []TicksDelivered
<1>1. Init => TicksDelivered
  BY DEF Init, TicksDelivered
<1>2. ASSUME Inv, TicksDelivered, [Next]_vars
      PROVE  TicksDelivered'
  <2>1. /\ total_ticks \in [Slots -> Nat] /\ tick_count \in Nat /\ current \in Slots
        /\ \A i \in Slots : total_ticks[i] <= tick_count
    BY <1>2 DEF Inv, TypeOK, TicksDelivered
  <2>2. CASE sched_tick
    <3>1. /\ total_ticks' = [total_ticks EXCEPT ![current] = @ + 1]
          /\ tick_count' = tick_count + 1
      BY <2>2 DEF sched_tick
    <3>2. QED
      BY <2>1, <3>1 DEF TicksDelivered
  <2>3. CASE \E n \in Slots : ForkChild(n)
    <3>1. PICK n \in Slots : /\ total_ticks' = [total_ticks EXCEPT ![n] = total_ticks[current]]
                             /\ tick_count' = tick_count
      BY <2>3 DEF ForkChild
    <3>2. QED
      BY <2>1, <3>1 DEF TicksDelivered
  <2>4. CASE \E z \in Slots : Reap(z) /\ UNCHANGED tick_count
    <3>1. PICK z \in Slots : /\ total_ticks' = [total_ticks EXCEPT ![z] = 0]
                             /\ tick_count' = tick_count
      BY <2>4 DEF Reap
    <3>2. QED
      BY <2>1, <3>1 DEF TicksDelivered
  <2>5. CASE UNCHANGED <<total_ticks, tick_count>>
    BY <2>5, <2>1 DEF TicksDelivered
  <2>6. QED
    BY <1>2, <2>2, <2>3, <2>4, <2>5
    DEF Next, sched_fork, ForkError, ForkFault, sched_exit, ExitSwitch, sched_wait,
        WaitPass, Sleep, WaitError, WaitSwitch, WaitAgain, sched_nice, vars, fields
<1>3. QED
  BY Invariance, <1>1, <1>2, PTL DEF Spec

\* A switch that comes back to a task that cannot run found no READY task: a
\* READY task's priority is never too low for the scan (sched.c:279-282, 293).
THEOREM NoReadyTaskIsPassedOver == Spec => []NoIdleWithReady
<1>1. Init => NoIdleWithReady
  BY DEF Init, NoIdleWithReady
<1>2. ASSUME Inv, NoIdleWithReady, [Next]_vars
      PROVE  NoIdleWithReady'
  <2>1. ASSUME NEW resume, sched_switch(total_ticks, resume, TRUE)
        PROVE  NoIdleWithReady'
    <3>1. CASE \E b \in Slots : SwitchTo(b, resume)
      BY <3>1 DEF SwitchTo, NoIdleWithReady
    <3>2. CASE IsBest(current, Requeued, total_ticks) /\ Stay(resume, TRUE)
      BY <3>2 DEF IsBest, Eligible, Stay, NoIdleWithReady
    <3>3. CASE (\A i \in Slots : ~ Eligible(i, Requeued, total_ticks)) /\ Stay(resume, TRUE)
      <4>1. \A i \in Slots : DynamicPriority(niceval[i], total_ticks[i]) > 0
        BY <1>2, PriorityPositive DEF Inv, TypeOK
      <4>2. \A i \in Slots : Requeued[i] # "ready"
        BY <3>3, <4>1 DEF Eligible
      <4>3. QED
        BY <3>3, <4>2 DEF Stay, NoIdleWithReady
    <3>4. QED
      BY <2>1, <3>1, <3>2, <3>3 DEF sched_switch
  <2>2. CASE ExitSwitch \/ WaitSwitch
    BY <2>1, <2>2 DEF ExitSwitch, WaitSwitch
  <2>3. CASE masked' = FALSE \/ pc' \in {"user", "crashed"}
    BY <2>3 DEF NoIdleWithReady
  <2>4. CASE UNCHANGED vars
    BY <1>2, <2>4 DEF NoIdleWithReady, vars, fields
  <2>5. QED
    BY <1>2, <2>2, <2>3, <2>4
    DEF Next, sched_tick, sched_switch, SwitchTo, Stay, sched_fork, ForkChild, ForkError,
        ForkFault, sched_exit, WakeParent, NobodyToWake, sched_wait, WaitPass, WaitError,
        WaitAgain, sched_nice
<1>3. QED
  BY Invariance, <1>1, <1>2, PTL DEF Spec

-----------------------------------------------------------------------------
(***************************************************************************)
(* Every step does one of five things to the families of tasks, and the    *)
(* proofs below have one case for each.                                    *)
(***************************************************************************)
SameKinds(S) ==
  \A i \in S : \A s \in {"sleeping", "zombie", "free"} : state'[i] = s <=> state[i] = s

Kept == SameKinds(Slots) /\ UNCHANGED <<ppid, forker, proc_count>>

Born(n) ==
  /\ state[n] = "free" /\ Live(current)
  /\ state' = [state EXCEPT ![n] = "ready"]
  /\ ppid' = [ppid EXCEPT ![n] = current]
  /\ forker' = [forker EXCEPT ![n] = current]
  /\ proc_count' = proc_count + 1

Died ==
  /\ Live(current) /\ state[current] # "sleeping" /\ state'[current] = "zombie"
  /\ \A i \in Slots \ {current} :
       state'[i] = IF SleepingParent(i, current) THEN "running" ELSE state[i]
  /\ orderly' => current # InitPid /\ ~ HasChild(current)
  /\ UNCHANGED <<ppid, forker>>
  /\ proc_count' = proc_count - 1

Reaped(z) ==
  /\ state[z] = "zombie" /\ ppid[z] = current /\ z # current
  /\ state' = [state EXCEPT ![z] = "free"]
  /\ ppid' = [ppid EXCEPT ![z] = 0]
  /\ forker' = [i \in Slots |-> IF i = z \/ forker[i] = z THEN 0 ELSE forker[i]]
  /\ pc' = "user"
  /\ UNCHANGED <<current, proc_count>>

Slept ==
  /\ Live(current)
  /\ \A j \in Slots : ~ ZombieChild(j, current)
  /\ pc \in {"user", "woken"}
  /\ pc = "user" => HasChild(current)
  /\ state' = [state EXCEPT ![current] = "sleeping"]
  /\ pc' = "sleep"
  /\ UNCHANGED <<current, ppid, forker, proc_count>>

\* What a step does to the families.
LEMMA FamilyStep ==
  ASSUME Inv, [Next]_vars
  PROVE  \/ Kept
         \/ \E n \in Slots : Born(n)
         \/ Died
         \/ \E z \in Slots : Reaped(z)
         \/ Slept
<1> USE DEF Inv
<1>1. /\ current \in Slots /\ state \in [Slots -> TaskStates \cup {"free"}]
      /\ state[current] # "free"
  BY DEF TypeOK, CurrentPlaced
<1>2. ASSUME NEW ticks, NEW resume, NEW kept, sched_switch(ticks, resume, kept),
             UNCHANGED <<ppid, forker, proc_count>>
      PROVE  Kept
  BY <1>1, <1>2, SwitchKeeps DEF Kept, SameKinds
<1>3. CASE sched_tick \/ ExitSwitch \/ WaitSwitch
  BY <1>2, <1>3 DEF sched_tick, ExitSwitch, WaitSwitch
<1>4. CASE sched_fork
  <2>1. pc = "user" /\ Live(current)
    BY <1>1, <1>4 DEF sched_fork, CurrentPlaced, Live
  <2>2. ASSUME NEW n \in Slots, IsNextPid(n), ForkChild(n)
        PROVE  Born(n)
    BY <2>1, <2>2 DEF Born, IsNextPid, ForkChild
  <2>3. CASE ForkError \/ ForkFault
    BY <2>3 DEF ForkError, ForkFault, fields, Kept, SameKinds
  <2>4. QED
    BY <1>4, <2>2, <2>3 DEF sched_fork
<1>5. CASE \E code \in Codes : sched_exit(code)
  <2>1. PICK code \in Codes : sched_exit(code)
    BY <1>5
  <2>2. /\ pc = "user" /\ Live(current) /\ state[current] # "sleeping"
        /\ orderly' => current # InitPid /\ ~ HasChild(current)
        /\ UNCHANGED <<ppid, forker>> /\ proc_count' = proc_count - 1
    BY <1>1, <2>1 DEF sched_exit, CurrentPlaced, Live, CountExit
  <2>3. CASE \E j \in Slots : SleepingParent(j, current) /\ WakeParent(j)
    <3>1. PICK j \in Slots : SleepingParent(j, current) /\ WakeParent(j)
      BY <2>3
    <3>2. /\ j # current /\ ppid[current] = j
          /\ state' = [state EXCEPT ![current] = "zombie", ![j] = "running"]
      BY <2>2, <3>1 DEF SleepingParent, WakeParent
    <3>3. QED
      BY <1>1, <2>2, <3>1, <3>2 DEF Died, SleepingParent
  <2>4. CASE NobodyToWake
    BY <1>1, <2>2, <2>4 DEF Died, NobodyToWake
  <2>5. QED
    BY <2>1, <2>3, <2>4 DEF sched_exit
<1>6. ASSUME WaitPass, pc \in {"user", "woken"}, pc = "user" => HasChild(current)
      PROVE  (\E z \in Slots : Reaped(z)) \/ Slept
  <2>1. Live(current) /\ state[current] # "zombie"
    BY <1>1, <1>6 DEF CurrentPlaced, Live
  <2>2. UNCHANGED proc_count
    BY <1>6 DEF WaitPass
  <2>3. ASSUME NEW z \in Slots, FirstZombieChild(z), Reap(z)
        PROVE  Reaped(z)
    BY <1>6, <2>1, <2>2, <2>3 DEF Reaped, Reap, FirstZombieChild, ZombieChild, IsChild, WaitPass
  <2>4. CASE Sleep
    BY <1>6, <2>1, <2>2, <2>4 DEF Slept, Sleep, WaitPass
  <2>5. QED
    BY <1>6, <2>3, <2>4 DEF WaitPass
<1>7. CASE sched_wait \/ WaitAgain
  <2>1. CASE WaitError
    BY <2>1 DEF WaitError, fields, Kept, SameKinds
  <2>2. QED
    BY <1>6, <1>7, <2>1 DEF sched_wait, WaitAgain
<1>8. CASE (\E v \in NiceArgs : sched_nice(v)) \/ UNCHANGED vars
  BY <1>8 DEF sched_nice, vars, fields, Kept, SameKinds
<1>9. QED
  BY <1>3, <1>4, <1>5, <1>7, <1>8 DEF Next

-----------------------------------------------------------------------------
LiveTasks == {i \in Slots : Live(i)}

\* Each exit takes back what one fork or sched_init counted, and a freed slot
\* was no longer counted (sched.c:79, 132, 155, 208-209).
THEOREM ProcCountIsExact == Spec => []ProcCountExact
<1>1. Init => ProcCountExact
  <2> SUFFICES ASSUME Init PROVE ProcCountExact
    OBVIOUS
  <2>1. LiveTasks = {InitPid}
    BY SchedAssumption DEF Init, LiveTasks, Live, InitPid, Slots
  <2>2. Cardinality({InitPid}) = 1
    BY FS_Singleton
  <2>3. QED
    BY <2>1, <2>2 DEF Init, ProcCountExact, LiveTasks
<1>2. ASSUME Inv, ProcCountExact, [Next]_vars
      PROVE  ProcCountExact'
  <2>1. /\ current \in Slots /\ state \in [Slots -> TaskStates \cup {"free"}]
        /\ proc_count = Cardinality(LiveTasks)
    BY <1>2 DEF Inv, TypeOK, ProcCountExact, LiveTasks
  <2>2. IsFiniteSet(LiveTasks) /\ Cardinality(LiveTasks) \in Nat
    <3>1. IsFiniteSet(Slots)
      BY SchedAssumption, FS_Interval DEF Slots
    <3>2. LiveTasks \subseteq Slots
      BY DEF LiveTasks
    <3>3. QED
      BY <3>1, <3>2, FS_Subset, FS_CardinalityType
  <2>3. SUFFICES proc_count' = Cardinality(LiveTasks')
    BY DEF ProcCountExact, LiveTasks
  <2>4. CASE Kept \/ Slept \/ \E z \in Slots : Reaped(z)
    <3>1. LiveTasks' = LiveTasks
      BY <2>1, <2>4 DEF Kept, Slept, Reaped, SameKinds, LiveTasks, Live
    <3>2. proc_count' = proc_count
      BY <2>4 DEF Kept, Slept, Reaped
    <3>3. QED
      BY <2>1, <3>1, <3>2
  <2>5. CASE \E n \in Slots : Born(n)
    <3>1. PICK n \in Slots : Born(n)
      BY <2>5
    <3>2. LiveTasks' = LiveTasks \cup {n} /\ n \notin LiveTasks
      BY <2>1, <3>1 DEF Born, LiveTasks, Live
    <3>3. Cardinality(LiveTasks') = Cardinality(LiveTasks) + 1
      BY <2>2, <3>2, FS_AddElement
    <3>4. QED
      BY <2>1, <3>1, <3>3 DEF Born
  <2>6. CASE Died
    <3>1. LiveTasks' = LiveTasks \ {current} /\ current \in LiveTasks
      BY <2>1, <2>6 DEF Died, SleepingParent, LiveTasks, Live
    <3>2. Cardinality(LiveTasks') = Cardinality(LiveTasks) - 1
      BY <2>2, <3>1, FS_RemoveElement
    <3>3. QED
      BY <2>1, <2>6, <3>2 DEF Died
  <2>7. QED
    BY <1>2, <2>4, <2>5, <2>6, FamilyStep
<1>3. QED
  BY Invariance, <1>1, <1>2, PTL DEF Spec

-----------------------------------------------------------------------------
(***************************************************************************)
(* A task in the loop of sched_wait has a child, though the loop looks for *)
(* children only once, before it: only the task itself frees a child of    *)
(* its own.                                                                *)
(***************************************************************************)
Waits(i) ==
  IF i = current THEN pc \in {"sleep", "woken"}
  ELSE state[i] \in {"ready", "sleeping"} /\ ctx[i] \in {"sleep", "woken"}

WaitersHaveChildren == \A i \in Slots : Waits(i) => HasChild(i)

NotOwnParent == \A i \in Slots \ {InitPid} : state[i] # "free" => ppid[i] # i

FamilyInv == WaitersHaveChildren /\ NotOwnParent /\ SleeperHasLiveChild

\* A task that reaps nothing keeps its children.
LEMMA ChildrenStay ==
  ASSUME Inv, [Next]_vars, NEW i \in Slots, HasChild(i),
         \A z \in Slots : Reaped(z) => i # current
  PROVE  HasChild(i)'
<1>1. PICK c \in Slots : state[c] # "free" /\ ppid[c] = i
  BY DEF HasChild, IsChild
<1>2. state'[c] # "free" /\ ppid'[c] = i
  BY <1>1, FamilyStep
  DEF Inv, TypeOK, Kept, SameKinds, Born, Died, SleepingParent, Reaped, Slept
<1>3. QED
  BY <1>2 DEF HasChild, IsChild

\* Who is in the loop after a step was in it before, or has just looked for
\* children and found one.
LEMMA WaitersCome ==
  ASSUME Inv, [Next]_vars, NEW i \in Slots, Waits(i)'
  PROVE  Waits(i) \/ (i = current /\ sched_wait /\ HasChild(i))
<1> USE DEF Inv
<1>1. /\ current \in Slots /\ state \in [Slots -> TaskStates \cup {"free"}]
      /\ ctx \in [Slots -> ResumePoints \cup {"stale"}]
  BY DEF TypeOK
<1>2. ASSUME NEW ticks, NEW resume, NEW kept, sched_switch(ticks, resume, kept),
             resume \in {"sleep", "woken"} => pc \in {"sleep", "woken"}
      PROVE  Waits(i)
  <2>1. CASE \E b \in Slots \ {current} : IsBest(b, Requeued, ticks) /\ SwitchTo(b, resume)
    <3>1. PICK b \in Slots \ {current} : IsBest(b, Requeued, ticks) /\ SwitchTo(b, resume)
      BY <2>1
    <3>2. /\ current' = b /\ pc' = ctx[b] /\ state[b] = "ready"
          /\ ctx' = [ctx EXCEPT ![current] = resume, ![b] = "stale"]
          /\ \A j \in Slots \ {current, b} : state'[j] = state[j]
      BY <1>1, <3>1, RequeuedType DEF IsBest, Eligible, SwitchTo, SaveAndRestore
    <3>3. QED
      BY <1>1, <1>2, <3>2 DEF Waits
  <2>2. CASE Stay(resume, kept)
    <3>1. /\ current' = current /\ pc' = resume /\ ctx' = ctx
          /\ \A j \in Slots \ {current} : state'[j] = state[j]
      BY <1>1, <2>2, RequeuedType DEF Stay
    <3>2. QED
      BY <1>2, <3>1 DEF Waits
  <2>3. QED
    BY <1>2, <2>1, <2>2 DEF sched_switch
<1>3. CASE sched_tick \/ ExitSwitch \/ WaitSwitch
  BY <1>2, <1>3 DEF sched_tick, ExitSwitch, WaitSwitch
<1>4. CASE sched_fork
  <2>1. ASSUME NEW n \in Slots, IsNextPid(n), ForkChild(n)
        PROVE  Waits(i)
    BY <1>1, <2>1 DEF ForkChild, IsNextPid, Waits
  <2>2. CASE ForkError \/ ForkFault
    BY <2>2 DEF ForkError, ForkFault, fields, Waits
  <2>3. QED
    BY <1>4, <2>1, <2>2 DEF sched_fork
<1>5. CASE \E code \in Codes : sched_exit(code)
  <2>1. pc = "user" /\ state[current] \in {"ready", "running"}
    BY <1>5 DEF sched_exit, CurrentPlaced
  <2>2. ASSUME NEW j \in Slots, SleepingParent(j, current), WakeParent(j)
        PROVE  Waits(i)
    BY <1>1, <2>1, <2>2 DEF SleepingParent, WakeParent, Waits
  <2>3. CASE NobodyToWake
    BY <1>1, <2>3 DEF NobodyToWake, Waits
  <2>4. QED
    BY <1>5, <2>2, <2>3 DEF sched_exit
<1>6. ASSUME WaitPass, i # current \/ pc = "woken"
      PROVE  Waits(i)
  <2>1. CASE \E z \in Slots : FirstZombieChild(z) /\ Reap(z)
    BY <1>1, <1>6, <2>1 DEF WaitPass, Reap, Waits
  <2>2. CASE Sleep
    BY <1>1, <1>6, <2>2 DEF WaitPass, Sleep, Waits
  <2>3. QED
    BY <1>6, <2>1, <2>2 DEF WaitPass
<1>7. CASE sched_wait \/ WaitAgain
  <2>1. CASE WaitError
    BY <2>1 DEF WaitError, fields, Waits
  <2>2. QED
    BY <1>6, <1>7, <2>1 DEF sched_wait, WaitAgain
<1>8. CASE (\E v \in NiceArgs : sched_nice(v)) \/ UNCHANGED vars
  BY <1>8 DEF sched_nice, vars, fields, Waits
<1>9. QED
  BY <1>3, <1>4, <1>5, <1>7, <1>8 DEF Next

\* A task other than init sleeps in sched_wait only while a child of it is
\* alive and can wake it (sched.c:180-192, 196-222).
THEOREM SleepersHaveLiveChildren == Spec => []SleeperHasLiveChild
<1>1. Init => FamilyInv
  BY DEF Init, FamilyInv, WaitersHaveChildren, NotOwnParent, SleeperHasLiveChild, Waits, InitPid
<1>2. ASSUME Inv, FamilyInv, [Next]_vars
      PROVE  FamilyInv'
  <2>1. /\ current \in Slots /\ state \in [Slots -> TaskStates \cup {"free"}]
        /\ ppid \in [Slots -> 0 .. NPROC] /\ state[current] # "free"
    BY <1>2 DEF Inv, TypeOK, CurrentPlaced
  <2>2. WaitersHaveChildren'
    <3> SUFFICES ASSUME NEW i \in Slots, Waits(i)'
                 PROVE  HasChild(i)'
      BY DEF WaitersHaveChildren
    <3>1. HasChild(i)
      BY <1>2, WaitersCome DEF FamilyInv, WaitersHaveChildren
    <3>2. \A z \in Slots : Reaped(z) => i # current
      BY DEF Reaped, Waits
    <3>3. QED
      BY <1>2, <3>1, <3>2, ChildrenStay
  <2>3. NotOwnParent'
    BY <1>2, <2>1, FamilyStep
    DEF FamilyInv, NotOwnParent, Kept, SameKinds, Born, Died, Reaped, Slept, SleepingParent
  <2>4. SleeperHasLiveChild'
    <3> SUFFICES ASSUME NEW i \in Slots \ {InitPid}, state'[i] = "sleeping"
                 PROVE  \E c \in Slots \ {i} : IsChild(c, i)' /\ Live(c)'
      BY DEF SleeperHasLiveChild
    <3>1. CASE state[i] = "sleeping" /\ ~(Slept /\ i = current)
      <4>1. PICK c \in Slots \ {i} : state[c] \notin {"free", "zombie"} /\ ppid[c] = i
        BY <1>2, <3>1 DEF FamilyInv, SleeperHasLiveChild, IsChild, Live
      <4>2. state'[c] \notin {"free", "zombie"} /\ ppid'[c] = i
        BY <1>2, <2>1, <3>1, <4>1, FamilyStep
        DEF Kept, SameKinds, Born, Died, SleepingParent, Reaped, Slept
      <4>3. QED
        BY <4>2 DEF IsChild, Live
    <3>2. CASE Slept /\ i = current
      <4>1. HasChild(i)
        BY <1>2, <3>2 DEF Slept, FamilyInv, WaitersHaveChildren, Waits
      <4>2. PICK c \in Slots : state[c] # "free" /\ ppid[c] = i
        BY <4>1 DEF HasChild, IsChild
      <4>3. c # i /\ state[c] # "zombie"
        BY <1>2, <2>1, <3>2, <4>2 DEF FamilyInv, NotOwnParent, Slept, ZombieChild, IsChild
      <4>4. state'[c] = state[c] /\ ppid'[c] = ppid[c]
        BY <2>1, <3>2, <4>3 DEF Slept
      <4>5. QED
        BY <4>2, <4>3, <4>4 DEF IsChild, Live
    <3>3. state[i] = "sleeping" \/ (Slept /\ i = current)
      BY <1>2, <2>1, FamilyStep
      DEF Kept, SameKinds, Born, Died, SleepingParent, Reaped, Slept
    <3>4. QED
      BY <3>1, <3>2, <3>3
  <2>5. QED
    BY <2>2, <2>3, <2>4 DEF FamilyInv
<1>3. QED
  BY Invariance, <1>1, <1>2, PTL DEF Spec, FamilyInv

-----------------------------------------------------------------------------
(***************************************************************************)
(* When tasks reap their children before they exit, a slot that is free or *)
(* about to be freed is nobody's parent, so a pid that comes back has no   *)
(* children left from before.                                              *)
(***************************************************************************)
GoneHaveNoChildren ==
  \A i \in Slots : state[i] \in {"free", "zombie"} => ~ HasChild(i)

\* Tasks that are orderly after a step were so before it.
LEMMA OrderlyBefore == [Next]_vars /\ orderly' => orderly
  BY DEF Next, vars, sched_tick, sched_fork, sched_exit, ExitSwitch, sched_wait, WaitSwitch,
         WaitAgain, sched_nice

\* As long as tasks are orderly, the children of each are those it forked
\* (sched.c:18-26, 184, 200).
THEOREM ChildrenAreOwn == Spec => []OnlyOwnChildren
<1>1. Init => (orderly => GoneHaveNoChildren) /\ OnlyOwnChildren
  BY DEF Init, GoneHaveNoChildren, OnlyOwnChildren, HasChild, IsChild, InitPid
<1>2. ASSUME Inv, orderly, orderly', GoneHaveNoChildren, OnlyOwnChildren, [Next]_vars
      PROVE  GoneHaveNoChildren' /\ OnlyOwnChildren'
  <2>1. /\ current \in Slots /\ state \in [Slots -> TaskStates \cup {"free"}]
        /\ ppid \in [Slots -> 0 .. NPROC] /\ forker \in [Slots -> 0 .. NPROC]
        /\ state[current] # "free"
    BY <1>2 DEF Inv, TypeOK, CurrentPlaced
  <2>2. CASE Kept \/ Slept
    BY <1>2, <2>1, <2>2
    DEF GoneHaveNoChildren, OnlyOwnChildren, HasChild, IsChild, Kept, SameKinds, Slept, Live
  <2>3. CASE \E n \in Slots : Born(n)
    <3>1. PICK n \in Slots : Born(n)
      BY <2>3
    <3>2. QED
      BY <1>2, <2>1, <3>1
      DEF GoneHaveNoChildren, OnlyOwnChildren, HasChild, IsChild, Born, Live
  <2>4. CASE Died
    BY <1>2, <2>1, <2>4
    DEF GoneHaveNoChildren, OnlyOwnChildren, HasChild, IsChild, Died, SleepingParent
  <2>5. CASE \E z \in Slots : Reaped(z)
    <3>1. PICK z \in Slots : Reaped(z)
      BY <2>5
    <3>2. \A i \in Slots : state[i] # "free" => ppid[i] # z
      BY <1>2, <3>1 DEF GoneHaveNoChildren, HasChild, IsChild, Reaped
    <3>3. OnlyOwnChildren'
      BY <1>2, <2>1, <3>1, <3>2 DEF OnlyOwnChildren, Reaped
    <3>4. GoneHaveNoChildren'
      BY <1>2, <2>1, <3>1 DEF GoneHaveNoChildren, HasChild, IsChild, Reaped
    <3>5. QED
      BY <3>3, <3>4
  <2>6. QED
    BY <1>2, <2>2, <2>3, <2>4, <2>5, FamilyStep
<1>3. Inv /\ (orderly => GoneHaveNoChildren) /\ OnlyOwnChildren /\ [Next]_vars
      => (orderly => GoneHaveNoChildren)' /\ OnlyOwnChildren'
  BY <1>2, OrderlyBefore DEF OnlyOwnChildren
<1>4. QED
  BY Invariance, <1>1, <1>3, PTL DEF Spec

-----------------------------------------------------------------------------
(***************************************************************************)
(* Orderly tasks never all sleep on one another.  From a task that sleeps  *)
(* one gets to a live child of it, from there to a child of the child if   *)
(* that one sleeps too; this ends, as a task comes after its children in   *)
(* some order of all tasks.                                                *)
(***************************************************************************)
\* The least-number principle, from the library's order on finite sets.
LEMMA LeastNumber ==
  ASSUME NEW S \in SUBSET Nat, S # {}
  PROVE  \E n \in S : \A m \in S : n <= m
<1> DEFINE T == {1 .. n : n \in S}
<1>1. T \subseteq FiniteSubsetsOf(Nat)
  <2>1. \A n \in S : IsFiniteSet(1 .. n) /\ 1 .. n \in SUBSET Nat
    BY FS_Interval
  <2>2. QED
    BY <2>1 DEF FiniteSubsetsOf
<1>2. T # {}
  OBVIOUS
<1>3. PICK x \in T : \A y \in T : <<y, x>> \notin StrictSubsetOrdering(Nat)
  <2>1. IsWellFoundedOn(StrictSubsetOrdering(Nat), FiniteSubsetsOf(Nat))
    BY FS_StrictSubsetOrderingWellFounded
  <2> HIDE DEF T
  <2>2. QED
    BY <1>1, <1>2, <2>1, WFMin
<1>4. PICK n \in S : x = 1 .. n
  OBVIOUS
<1>5. ASSUME NEW m \in S, m < n
      PROVE  FALSE
  <2>1. /\ 1 .. m \in SUBSET Nat /\ 1 .. n \in SUBSET Nat
        /\ 1 .. m \subseteq 1 .. n
    BY <1>5
  <2>2. n \in 1 .. n /\ n \notin 1 .. m
    BY <1>5
  <2>3. <<1 .. m, x>> \in StrictSubsetOrdering(Nat)
    BY <2>1, <2>2, <1>4 DEF StrictSubsetOrdering
  <2>4. QED
    BY <2>3, <1>3
<1>6. QED
  BY <1>5

InitStays == Live(InitPid) /\ ppid[InitPid] = InitPid

\* rank puts every task but init below its parent.
Ranks(rank) ==
  \A i \in Slots \ {InitPid} :
    state[i] # "free" => ppid[i] \in Slots /\ rank[i] < rank[ppid[i]]

Ranked == \E rank \in [Slots -> Nat] : Ranks(rank)

HasOtherChild(i) == \E j \in Slots \ {i} : IsChild(j, i)

WaitersHaveOthers == \A i \in Slots : Waits(i) => HasOtherChild(i)

SleepersHaveLive ==
  \A i \in Slots : state[i] = "sleeping" => \E j \in Slots \ {i} : IsChild(j, i) /\ Live(j)

OrderlyInv ==
  /\ GoneHaveNoChildren
  /\ InitStays
  /\ Ranked
  /\ NotOwnParent
  /\ WaitersHaveOthers
  /\ SleepersHaveLive

\* At first init is alone.
LEMMA InitOrderly == Init => OrderlyInv
<1> SUFFICES ASSUME Init PROVE OrderlyInv
  OBVIOUS
<1>1. InitPid \in Slots
  BY SchedAssumption DEF InitPid, Slots
<1>2. GoneHaveNoChildren /\ InitStays /\ NotOwnParent
  BY <1>1 DEF Init, GoneHaveNoChildren, InitStays, NotOwnParent, HasChild, IsChild, Live
<1>3. Ranked
  <2>1. Ranks([i \in Slots |-> 0]) /\ [i \in Slots |-> 0] \in [Slots -> Nat]
    BY DEF Init, Ranks
  <2>2. QED
    BY <2>1 DEF Ranked
<1>4. WaitersHaveOthers /\ SleepersHaveLive
  BY DEF Init, WaitersHaveOthers, SleepersHaveLive, Waits
<1>5. QED
  BY <1>2, <1>3, <1>4 DEF OrderlyInv

\* A new task goes below all others; the slots of tasks that are gone are
\* nobody's parents.
LEMMA RankedStep ==
  ASSUME Inv, OrderlyInv, [Next]_vars
  PROVE  Ranked'
<1> USE DEF OrderlyInv
<1>1. /\ current \in Slots /\ state \in [Slots -> TaskStates \cup {"free"}]
      /\ ppid \in [Slots -> 0 .. NPROC] /\ state[current] # "free"
  BY DEF Inv, TypeOK, CurrentPlaced
<1>2. PICK rank \in [Slots -> Nat] : Ranks(rank)
  BY DEF Ranked
<1>3. CASE Kept \/ Slept \/ Died
  <2>1. \A i \in Slots : ppid'[i] = ppid[i] /\ (state'[i] # "free" => state[i] # "free")
    BY <1>1, <1>3 DEF Kept, SameKinds, Slept, Died, SleepingParent
  <2>2. Ranks(rank)'
    BY <1>2, <2>1 DEF Ranks
  <2>3. QED
    BY <2>2 DEF Ranked
<1>4. CASE \E n \in Slots : Born(n)
  <2>1. PICK n \in Slots : Born(n)
    BY <1>4
  <2> DEFINE rk == [i \in Slots |-> IF i = n THEN 0 ELSE rank[i] + 1]
  <2>2. \A i \in Slots : state[i] # "free" => ppid[i] # n
    BY <2>1 DEF Born, GoneHaveNoChildren, HasChild, IsChild
  <2>3. /\ n # current /\ ppid'[n] = current
        /\ \A i \in Slots \ {n} : ppid'[i] = ppid[i] /\ state'[i] = state[i]
    BY <1>1, <2>1 DEF Born
  <2>4. ASSUME NEW i \in Slots \ {InitPid}, state'[i] # "free"
        PROVE  ppid'[i] \in Slots /\ rk[i] < rk[ppid'[i]]
    <3>1. CASE i = n
      BY <1>1, <2>3, <3>1
    <3>2. CASE i # n
      <4>1. ppid[i] \in Slots /\ rank[i] < rank[ppid[i]] /\ ppid[i] # n
        BY <1>2, <2>2, <2>3, <2>4, <3>2 DEF Ranks
      <4>2. QED
        BY <2>3, <3>2, <4>1
    <3>3. QED
      BY <3>1, <3>2
  <2>5. rk \in [Slots -> Nat]
    OBVIOUS
  <2>6. Ranks(rk)'
    BY <2>4 DEF Ranks
  <2>7. QED
    BY <2>5, <2>6 DEF Ranked
<1>5. CASE \E z \in Slots : Reaped(z)
  <2>1. PICK z \in Slots : Reaped(z)
    BY <1>5
  <2>2. \A i \in Slots : state'[i] # "free" => i # z /\ state[i] # "free" /\ ppid'[i] = ppid[i]
    BY <1>1, <2>1 DEF Reaped
  <2>3. Ranks(rank)'
    BY <1>2, <2>2 DEF Ranks
  <2>4. QED
    BY <2>3 DEF Ranked
<1>6. QED
  BY <1>3, <1>4, <1>5, FamilyStep

\* Every step of orderly tasks preserves OrderlyInv.
LEMMA OrderlyStep ==
  ASSUME orderly, orderly', Inv, OrderlyInv, [Next]_vars
  PROVE  OrderlyInv'
<1> USE DEF OrderlyInv
<1>1. /\ current \in Slots /\ state \in [Slots -> TaskStates \cup {"free"}]
      /\ ppid \in [Slots -> 0 .. NPROC] /\ state[current] # "free"
      /\ InitPid \in Slots
  BY SchedAssumption DEF Inv, TypeOK, CurrentPlaced, InitPid, Slots
<1>2. GoneHaveNoChildren'
  <2>1. CASE \E z \in Slots : Reaped(z)
    BY <1>1, <2>1 DEF GoneHaveNoChildren, HasChild, IsChild, Reaped
  <2>2. CASE \E n \in Slots : Born(n)
    BY <1>1, <2>2 DEF GoneHaveNoChildren, HasChild, IsChild, Born, Live
  <2>3. CASE Kept \/ Slept \/ Died
    BY <1>1, <2>3
    DEF GoneHaveNoChildren, HasChild, IsChild, Kept, SameKinds, Slept, Died, SleepingParent, Live
  <2>4. QED
    BY <2>1, <2>2, <2>3, FamilyStep
<1>3. InitStays'
  BY <1>1, FamilyStep
  DEF InitStays, Live, Kept, SameKinds, Slept, Died, SleepingParent, Born, Reaped
<1>4. NotOwnParent'
  BY <1>1, FamilyStep
  DEF NotOwnParent, Kept, SameKinds, Born, Died, Reaped, Slept, SleepingParent
<1>5. WaitersHaveOthers'
  <2> SUFFICES ASSUME NEW i \in Slots, Waits(i)'
               PROVE  HasOtherChild(i)'
    BY DEF WaitersHaveOthers
  <2>1. HasOtherChild(i)
    <3>1. CASE Waits(i)
      BY <3>1 DEF WaitersHaveOthers
    <3>2. CASE i = current /\ sched_wait /\ HasChild(i)
      <4>1. CASE i = InitPid
        BY <3>2, <4>1 DEF sched_wait, HasOtherChild
      <4>2. CASE i # InitPid
        BY <3>2, <4>2 DEF HasChild, IsChild, NotOwnParent, HasOtherChild
      <4>3. QED
        BY <4>1, <4>2
    <3>3. QED
      BY <3>1, <3>2, WaitersCome
  <2>2. PICK c \in Slots \ {i} : state[c] # "free" /\ ppid[c] = i
    BY <2>1 DEF HasOtherChild, IsChild
  <2>3. \A z \in Slots : Reaped(z) => i # current
    BY DEF Reaped, Waits
  <2>4. state'[c] # "free" /\ ppid'[c] = i
    BY <1>1, <2>2, <2>3, FamilyStep
    DEF Kept, SameKinds, Born, Died, SleepingParent, Reaped, Slept
  <2>5. QED
    BY <2>4 DEF HasOtherChild, IsChild
<1>6. SleepersHaveLive'
  <2> SUFFICES ASSUME NEW i \in Slots, state'[i] = "sleeping"
               PROVE  \E c \in Slots \ {i} : IsChild(c, i)' /\ Live(c)'
    BY DEF SleepersHaveLive
  <2>1. CASE state[i] = "sleeping" /\ ~(Slept /\ i = current)
    <3>1. PICK c \in Slots \ {i} : state[c] \notin {"free", "zombie"} /\ ppid[c] = i
      BY <2>1 DEF SleepersHaveLive, IsChild, Live
    <3>2. state'[c] \notin {"free", "zombie"} /\ ppid'[c] = i
      BY <1>1, <2>1, <3>1, FamilyStep
      DEF Kept, SameKinds, Born, Died, SleepingParent, Reaped, Slept
    <3>3. QED
      BY <3>2 DEF IsChild, Live
  <2>2. CASE Slept /\ i = current
    <3>1. Waits(i)'
      BY <2>2 DEF Slept, Waits
    <3>2. PICK c \in Slots \ {i} : state'[c] # "free" /\ ppid'[c] = i
      BY <1>5, <3>1 DEF WaitersHaveOthers, HasOtherChild, IsChild
    <3>3. state'[c] = state[c] /\ ppid'[c] = ppid[c]
      BY <1>1, <2>2, <3>2 DEF Slept
    <3>4. state[c] # "zombie"
      BY <2>2, <3>2, <3>3 DEF Slept, ZombieChild, IsChild
    <3>5. QED
      BY <3>2, <3>3, <3>4 DEF IsChild, Live
  <2>3. state[i] = "sleeping" \/ (Slept /\ i = current)
    BY <1>1, FamilyStep
    DEF Kept, SameKinds, Born, Died, SleepingParent, Reaped, Slept
  <2>4. QED
    BY <2>1, <2>2, <2>3
<1>7. QED
  BY <1>2, <1>3, <1>4, <1>5, <1>6, RankedStep

\* When all tasks slept, the one that comes first would sleep on a child that
\* comes before it.
LEMMA SomebodyIsAwake ==
  ASSUME Inv, OrderlyInv
  PROVE  SomebodyCanRun
<1> USE DEF OrderlyInv
<1> SUFFICES ASSUME ~SomebodyCanRun
             PROVE  FALSE
  OBVIOUS
<1>1. /\ current \in Slots /\ state \in [Slots -> TaskStates \cup {"free"}]
      /\ InitPid \in Slots
  BY SchedAssumption DEF Inv, TypeOK, InitPid, Slots
<1>2. \A i \in Slots : Live(i) => state[i] = "sleeping"
  <2>1. \A i \in Slots : state[i] = "running" => i = current
    BY DEF Inv, OthersPlaced
  <2>2. QED
    BY <1>1, <2>1 DEF SomebodyCanRun, Live, TaskStates
<1>3. PICK rank \in [Slots -> Nat] : Ranks(rank)
  BY DEF Ranked
<1>4. PICK i \in Slots : Live(i) /\ \A j \in Slots : Live(j) => rank[i] <= rank[j]
  <2> DEFINE S == {rank[j] : j \in {k \in Slots : Live(k)}}
  <2>1. S \in SUBSET Nat /\ S # {}
    BY <1>1 DEF InitStays
  <2>2. PICK r \in S : \A m \in S : r <= m
    <3> HIDE DEF S
    <3>1. QED
      BY <2>1, LeastNumber
  <2>3. QED
    BY <2>2
<1>5. PICK c \in Slots \ {i} : ppid[c] = i /\ Live(c)
  BY <1>2, <1>4 DEF SleepersHaveLive, IsChild
<1>6. CASE c = InitPid
  BY <1>5, <1>6 DEF InitStays
<1>7. CASE c # InitPid
  BY <1>3, <1>4, <1>5, <1>7 DEF Ranks, Live
<1>8. QED
  BY <1>6, <1>7

\* A call of sched_switch by a task that exits finds somebody to go on when
\* not all tasks sleep.
LEMMA ExitStep ==
  ASSUME Inv, SomebodyCanRun, pc # "returned", [Next]_vars
  PROVE  pc' # "returned"
<1> USE DEF Inv
<1>1. /\ current \in Slots /\ state \in [Slots -> TaskStates \cup {"free"}]
  BY DEF TypeOK
<1>2. ASSUME NEW ticks, NEW resume, NEW kept, sched_switch(ticks, resume, kept),
             ticks \in [Slots -> Nat], pc' = "returned"
      PROVE  /\ resume = "returned"
             /\ state[current] = "zombie" => \A i \in Slots : state[i] # "ready"
  <2>1. CASE \E b \in Slots \ {current} : IsBest(b, Requeued, ticks) /\ SwitchTo(b, resume)
    <3>1. PICK b \in Slots \ {current} : IsBest(b, Requeued, ticks) /\ SwitchTo(b, resume)
      BY <2>1
    <3>2. state[b] = "ready" /\ pc' = ctx[b]
      BY <3>1, RequeuedType DEF IsBest, Eligible, SwitchTo
    <3>3. QED
      BY <1>2, <3>2 DEF OthersPlaced
  <2>2. CASE IsBest(current, Requeued, ticks) /\ Stay(resume, kept)
    BY <1>1, <1>2, <2>2, RequeuedType DEF IsBest, Eligible, Stay
  <2>3. CASE (\A i \in Slots : ~ Eligible(i, Requeued, ticks)) /\ Stay(resume, kept)
    <3>1. \A i \in Slots : DynamicPriority(niceval[i], ticks[i]) > 0
      BY <1>2, PriorityPositive DEF TypeOK
    <3>2. \A i \in Slots : Requeued[i] # "ready"
      BY <2>3, <3>1 DEF Eligible
    <3>3. \A i \in Slots : state[i] # "ready"
      BY <1>1, <3>2, RequeuedType
    <3>4. QED
      BY <1>2, <2>3, <3>3 DEF Stay
  <2>4. QED
    BY <1>2, <2>1, <2>2, <2>3 DEF sched_switch
<1>3. SUFFICES ASSUME pc' = "returned"
               PROVE  FALSE
  OBVIOUS
<1>4. total_ticks \in [Slots -> Nat]
  BY DEF TypeOK
<1>5. CASE sched_tick
  <2>1. total_ticks' \in [Slots -> Nat]
    BY <1>1, <1>4, <1>5 DEF sched_tick
  <2>2. sched_switch(total_ticks', pc, FALSE)
    BY <1>5 DEF sched_tick
  <2>3. QED
    BY <1>2, <1>3, <2>1, <2>2
<1>6. CASE ExitSwitch
  <2>1. sched_switch(total_ticks, "returned", TRUE) /\ state[current] = "zombie"
    BY <1>6 DEF ExitSwitch, CurrentPlaced
  <2>2. \A i \in Slots : state[i] # "ready"
    BY <1>2, <1>3, <1>4, <2>1
  <2>3. QED
    BY <2>1, <2>2 DEF SomebodyCanRun, Live
<1>7. CASE WaitSwitch
  <2>1. sched_switch(total_ticks, "woken", TRUE)
    BY <1>7 DEF WaitSwitch
  <2>2. "woken" = "returned"
    BY <1>2, <1>3, <1>4, <2>1
  <2>3. QED
    BY <2>2
<1>8. CASE \E code \in Codes : sched_exit(code)
  <2>1. CASE NobodyToWake
    BY <1>3, <2>1 DEF NobodyToWake
  <2>2. ASSUME NEW j \in Slots, SleepingParent(j, current), WakeParent(j)
        PROVE  FALSE
    <3>1. state[current] # "sleeping"
      BY <1>8 DEF sched_exit, CurrentPlaced
    <3>2. QED
      BY <1>3, <2>2, <3>1 DEF SleepingParent, WakeParent, OthersPlaced
  <2>3. QED
    BY <1>8, <2>1, <2>2 DEF sched_exit
<1>9. CASE UNCHANGED pc \/ pc' \in {"user", "sleep", "crashed"}
  BY <1>3, <1>9
<1>10. CASE sched_fork \/ (\E v \in NiceArgs : sched_nice(v)) \/ UNCHANGED vars
  BY <1>9, <1>10 DEF sched_fork, ForkChild, ForkError, ForkFault, sched_nice, vars
<1>11. CASE sched_wait \/ WaitAgain
  <2>1. CASE WaitError
    BY <1>9, <2>1 DEF WaitError
  <2>2. CASE WaitPass
    BY <1>9, <2>2 DEF WaitPass, Reap, Sleep
  <2>3. QED
    BY <1>11, <2>1, <2>2 DEF sched_wait, WaitAgain
<1>12. QED
  BY <1>5, <1>6, <1>7, <1>8, <1>10, <1>11 DEF Next

\* What orderly tasks keep.
LEMMA OrderlyInvariance == Spec => [](Inv /\ (orderly => OrderlyInv))
<1>1. Inv /\ (orderly => OrderlyInv) /\ [Next]_vars => (orderly => OrderlyInv)'
  BY OrderlyStep, OrderlyBefore
<1>2. QED
  BY Invariance, InitOrderly, <1>1, PTL DEF Spec

\* Orderly tasks never all sleep on one another (sched.c:162, 196-222).
THEOREM NoAllAsleep == Spec => []NoSleepDeadlock
<1>1. Inv /\ (orderly => OrderlyInv) => NoSleepDeadlock
  BY SomebodyIsAwake DEF NoSleepDeadlock
<1>2. QED
  BY OrderlyInvariance, <1>1, PTL

\* The exit of an orderly task does not return (sched.h:76-77, sched.c:173).
THEOREM ExitDoesNotReturn == Spec => []ExitNeverReturns
<1>1. Init => ExitNeverReturns
  BY DEF Init, ExitNeverReturns
<1>2. Inv /\ (orderly => OrderlyInv) /\ ExitNeverReturns /\ [Next]_vars => ExitNeverReturns'
  BY ExitStep, SomebodyIsAwake, OrderlyBefore DEF ExitNeverReturns
<1>3. QED
  BY OrderlyInvariance, <1>1, <1>2, PTL DEF Spec

-----------------------------------------------------------------------------
(***************************************************************************)
(* The program of SchedMain, for every number of children and of slots and *)
(* whatever the timer does: it is an orderly run of the scheduler, its     *)
(* children get different nice values, and init reports each of them once. *)
(*                                                                         *)
(* The inductive invariant: where init and its children are, on whose      *)
(* stacks, and who was forked and reported.                                *)
(***************************************************************************)
Others == Slots \ {InitPid}

Children == {t \in Others : state[t] # "free"}

\* Where a task is, or goes on when it gets the processor.
Place(t) == IF t = current THEN pc ELSE ctx[t]

ProgTypeOK ==
  /\ at \in [Slots -> Statements]
  /\ loop_i \in [Slots -> Nat]
  /\ frames \in [Slots -> Slots \X Slots]
  /\ reported \in Seq(Codes)

InWait == state[InitPid] = "sleeping" \/ Place(InitPid) \in {"sleep", "woken"}

InitAt ==
  /\ state[InitPid] \notin {"free", "zombie"}
  /\ ppid[InitPid] = InitPid
  /\ at[InitPid] \in {"fork", "wait", "ended", "failed"}
  /\ frames[InitPid] = <<InitPid, InitPid>>
  /\ InWait => at[InitPid] = "wait"

ChildrenAt ==
  \A t \in Others :
    IF state[t] = "free" THEN at[t] = "none"
    ELSE /\ at[t] \in {"nice", "loop", "exit"}
         /\ frames[t] = <<t, t>> /\ ppid[t] = InitPid
         /\ IF state[t] = "zombie" THEN at[t] = "exit" /\ exit_code[t] = t
            ELSE Place(t) = "user"

NiceFromI ==
  \A t \in Children :
    /\ loop_i[t] = t - 2
    /\ at[t] \in {"loop", "exit"} => niceval[t] = ClampNice((t - 2) * 4)

\* Before the first wait the children are in the first slots after init.
WhileForking ==
  at[InitPid] \in {"fork", "failed"} =>
    /\ reported = <<>> /\ loop_i[InitPid] < NumChildren
    /\ Children = 2 .. loop_i[InitPid] + 1

Reported == {reported[k] : k \in DOMAIN reported}

\* Then each child that was forked is there or has been reported.
WhileCollecting ==
  at[InitPid] \in {"wait", "ended"} =>
    /\ loop_i[InitPid] = Len(reported)
    /\ IsInjective(reported)
    /\ Reported \cap Children = {} /\ Reported \cup Children = 2 .. NumChildren + 1
    /\ IF at[InitPid] = "wait" THEN Len(reported) < NumChildren ELSE Len(reported) = NumChildren

ProgInv ==
  /\ ProgTypeOK /\ InitAt /\ ChildrenAt
  /\ NiceFromI /\ WhileForking /\ WhileCollecting

MainInv == Inv /\ ProgInv

-----------------------------------------------------------------------------
\* What the invariant says of the types and of init.
LEMMA Basics ==
  ASSUME MainInv
  PROVE  /\ InitPid \in Slots /\ current \in Slots
         /\ state \in [Slots -> TaskStates \cup {"free"}] /\ state[current] # "free"
         /\ ppid \in [Slots -> 0 .. NPROC] /\ ctx \in [Slots -> ResumePoints \cup {"stale"}]
         /\ niceval \in [Slots -> -20 .. 19] /\ exit_code \in [Slots -> Codes \cup {NoCode}]
         /\ at \in [Slots -> Statements] /\ loop_i \in [Slots -> Nat]
         /\ frames \in [Slots -> Slots \X Slots] /\ reported \in Seq(Codes)
<1>1. InitPid \in Slots
  BY SchedAssumption DEF InitPid, Slots
<1>2. /\ current \in Slots
      /\ state \in [Slots -> TaskStates \cup {"free"}]
      /\ ppid \in [Slots -> 0 .. NPROC] /\ ctx \in [Slots -> ResumePoints \cup {"stale"}]
      /\ niceval \in [Slots -> -20 .. 19] /\ exit_code \in [Slots -> Codes \cup {NoCode}]
  BY DEF MainInv, Inv, TypeOK
<1>3. QED
  BY <1>1, <1>2 DEF MainInv, Inv, CurrentPlaced, ProgInv, ProgTypeOK

\* The children are tasks init forked, and no more than it should fork.
LEMMA ChildrenInRange ==
  ASSUME MainInv
  PROVE  Children \subseteq 2 .. NumChildren + 1
<1> USE SchedMainAssumption, Basics DEF MainInv, ProgInv
<1>1. CASE at[InitPid] \in {"fork", "failed"}
  <2>1. loop_i[InitPid] \in Nat /\ loop_i[InitPid] < NumChildren
    BY <1>1 DEF WhileForking
  <2>2. Children = 2 .. loop_i[InitPid] + 1
    BY <1>1 DEF WhileForking
  <2>3. QED
    BY <2>1, <2>2
<1>2. CASE at[InitPid] \in {"wait", "ended"}
  BY <1>2 DEF WhileCollecting
<1>3. QED
  BY <1>1, <1>2 DEF InitAt

\* Only init is at a fork or a wait, and only a child is at the other
\* statements.
LEMMA WhoIsWhere ==
  ASSUME MainInv
  PROVE  /\ at[current] \in {"fork", "wait"} => current = InitPid
         /\ at[current] \in {"nice", "loop", "exit"} => current \in Children
  BY Basics DEF MainInv, ProgInv, InitAt, ChildrenAt, Others, Children

\* A switch moves only the task that calls it.
LEMMA SwitchMoves ==
  ASSUME MainInv, NEW ticks, NEW resume, NEW kept, sched_switch(ticks, resume, kept)
  PROVE  \A t \in Slots : Place(t)' = IF t = current THEN resume ELSE Place(t)
<1> USE Basics
<1>1. CASE \E b \in Slots \ {current} : SwitchTo(b, resume)
  <2>1. PICK b \in Slots \ {current} :
          /\ current' = b /\ pc' = ctx[b]
          /\ ctx' = [ctx EXCEPT ![current] = resume, ![b] = "stale"]
    BY <1>1 DEF SwitchTo, SaveAndRestore
  <2>2. QED
    BY <2>1 DEF Place
<1>2. CASE Stay(resume, kept)
  BY <1>2 DEF Stay, Place
<1>3. QED
  BY <1>1, <1>2 DEF sched_switch

\* A step that forks and reaps nobody keeps the invariant when each child is
\* where it may be and init is not put to sleep outside its wait.
LEMMA QuietKeeps ==
  ASSUME MainInv,
         UNCHANGED <<ppid, loop_i, frames, reported>>,
         \A t \in Slots : state'[t] = "free" <=> state[t] = "free",
         state'[InitPid] # "zombie",
         at' \in [Slots -> Statements],
         at'[InitPid] = at[InitPid] \/ (at[InitPid] = "fork" /\ at'[InitPid] = "failed"),
         InWait' => at'[InitPid] = "wait",
         \A t \in Others : state[t] = "free" => at'[t] = "none",
         \A t \in Children :
           /\ at'[t] \in {"nice", "loop", "exit"}
           /\ state'[t] = "zombie" => at'[t] = "exit" /\ exit_code'[t] = t
           /\ state'[t] # "zombie" => Place(t)' = "user"
           /\ at'[t] \in {"loop", "exit"} => niceval'[t] = ClampNice((t - 2) * 4)
  PROVE  ProgInv'
<1> USE Basics
<1>1. ProgInv
  BY DEF MainInv
<1>2. Children' = Children
  BY DEF Children, Others
<1>3. ProgTypeOK'
  BY DEF ProgTypeOK
<1>4. InitAt'
  <2>1. /\ state'[InitPid] \notin {"free", "zombie"}
        /\ ppid'[InitPid] = InitPid
        /\ at'[InitPid] \in {"fork", "wait", "ended", "failed"}
        /\ frames'[InitPid] = <<InitPid, InitPid>>
    BY <1>1 DEF ProgInv, InitAt
  <2>2. QED
    BY <2>1 DEF InitAt
<1>5. ChildrenAt'
  <2> SUFFICES ASSUME NEW t \in Others
               PROVE  /\ state'[t] = "free" => at'[t] = "none"
                      /\ state'[t] # "free" =>
                           /\ at'[t] \in {"nice", "loop", "exit"}
                           /\ frames'[t] = <<t, t>> /\ ppid'[t] = InitPid
                           /\ state'[t] = "zombie" => at'[t] = "exit" /\ exit_code'[t] = t
                           /\ state'[t] # "zombie" => Place(t)' = "user"
    BY DEF ChildrenAt
  <2>1. CASE state[t] = "free"
    BY <2>1 DEF Others
  <2>2. CASE state[t] # "free"
    <3>1. t \in Children /\ frames[t] = <<t, t>> /\ ppid[t] = InitPid
      BY <1>1, <2>2 DEF ProgInv, ChildrenAt, Children
    <3>2. QED
      BY <3>1, <2>2 DEF Others
  <2>3. QED
    BY <2>1, <2>2
<1>6. NiceFromI'
  BY <1>1, <1>2 DEF ProgInv, NiceFromI
<1>7. WhileForking'
  BY <1>1, <1>2 DEF ProgInv, WhileForking
<1>8. WhileCollecting'
  <2>1. Reported' = Reported
    BY DEF Reported
  <2>2. QED
    BY <1>1, <1>2, <2>1 DEF ProgInv, WhileCollecting
<1>9. QED
  BY <1>3, <1>4, <1>5, <1>6, <1>7, <1>8 DEF ProgInv

-----------------------------------------------------------------------------
\* At first init is alone and has forked nobody.
LEMMA MainStart == MainInit => MainInv
<1> SUFFICES ASSUME MainInit PROVE MainInv
  OBVIOUS
<1>1. Inv
  BY InitInv DEF MainInit
<1>2. InitPid \in Slots /\ InitPid = 1
  BY SchedAssumption DEF InitPid, Slots
<1>3. /\ state = [i \in Slots |-> IF i = InitPid THEN "running" ELSE "free"]
      /\ ppid = [i \in Slots |-> IF i = InitPid THEN InitPid ELSE 0]
      /\ current = InitPid /\ pc = "user"
  BY DEF MainInit, Init
<1>4. ProgTypeOK
  BY <1>2 DEF MainInit, ProgTypeOK, Statements
<1>5. InitAt
  BY <1>2, <1>3 DEF MainInit, InitAt, Place, InWait
<1>6. Children = {}
  BY <1>3 DEF Children, Others
<1>7. ChildrenAt
  BY <1>3 DEF MainInit, ChildrenAt, Others
<1>8. NiceFromI
  BY <1>6 DEF NiceFromI
<1>9. WhileForking
  BY <1>2, <1>6, SchedMainAssumption DEF MainInit, WhileForking
<1>10. WhileCollecting
  BY <1>2 DEF MainInit, WhileCollecting
<1>11. QED
  BY <1>1, <1>4, <1>5, <1>7, <1>8, <1>9, <1>10 DEF MainInv, ProgInv

\* A tick or a call of sched_switch by sched_exit or sched_wait moves the
\* task it interrupts, and nobody else.
LEMMA SwitchingKeeps ==
  ASSUME MainInv, MainTick \/ InScheduler
  PROVE  ProgInv'
<1> USE Basics
<1>1. /\ UNCHANGED <<at, loop_i, frames, reported, ppid, niceval, exit_code>>
      /\ \E ticks, kept, resume :
           /\ sched_switch(ticks, resume, kept)
           /\ \/ resume = pc
              \/ state[current] = "zombie"
              \/ pc = "sleep" /\ resume = "woken"
  BY DEF MainTick, InScheduler, progvars, sched_tick, ExitSwitch, WaitSwitch, MainInv, Inv,
         CurrentPlaced
<1>2. PICK ticks, kept, resume :
        /\ sched_switch(ticks, resume, kept)
        /\ \/ resume = pc
           \/ state[current] = "zombie"
           \/ pc = "sleep" /\ resume = "woken"
  BY <1>1
<1>3. \A t \in Slots : \A s \in {"sleeping", "zombie", "free"} : state'[t] = s <=> state[t] = s
  BY <1>2, SwitchKeeps DEF MainInv, Inv
<1>4. \A t \in Slots : Place(t)' = IF t = current THEN resume ELSE Place(t)
  BY <1>2, SwitchMoves
<1>5. ProgInv
  BY DEF MainInv
<1>6. state'[InitPid] # "zombie" /\ (InWait' => at'[InitPid] = "wait")
  <2>1. state[InitPid] # "zombie" /\ (InWait => at[InitPid] = "wait")
    BY <1>5 DEF ProgInv, InitAt
  <2>2. QED
    BY <1>1, <1>2, <1>3, <1>4, <2>1 DEF Place, InWait
<1>7. \A t \in Others : state[t] = "free" => at'[t] = "none"
  BY <1>1, <1>5 DEF ProgInv, ChildrenAt
<1>8. ASSUME NEW t \in Children
      PROVE  /\ at'[t] \in {"nice", "loop", "exit"}
             /\ state'[t] = "zombie" => at'[t] = "exit" /\ exit_code'[t] = t
             /\ state'[t] # "zombie" => Place(t)' = "user"
             /\ at'[t] \in {"loop", "exit"} => niceval'[t] = ClampNice((t - 2) * 4)
  <2>1. t \in Others /\ state[t] # "free"
    BY DEF Children
  <2>2. /\ at[t] \in {"nice", "loop", "exit"}
        /\ state[t] = "zombie" => at[t] = "exit" /\ exit_code[t] = t
        /\ state[t] # "zombie" => Place(t) = "user"
    BY <1>5, <2>1 DEF ProgInv, ChildrenAt
  <2>3. at[t] \in {"loop", "exit"} => niceval[t] = ClampNice((t - 2) * 4)
    BY <1>5 DEF ProgInv, NiceFromI
  <2>4. state'[t] # "zombie" => Place(t)' = "user"
    BY <1>2, <1>3, <1>4, <2>1, <2>2 DEF Place, Others
  <2>5. QED
    BY <1>1, <1>3, <2>1, <2>2, <2>3, <2>4 DEF Others
<1>9. QED
  BY <1>1, <1>3, <1>6, <1>7, <1>8, QuietKeeps

\* The slot sched_fork takes is the one after those of the earlier children.
LEMMA NextSlot ==
  ASSUME MainInv, at[InitPid] = "fork", NEW n \in Slots, IsNextPid(n)
  PROVE  n = loop_i[InitPid] + 2
<1>1. PICK i \in Nat : i = loop_i[InitPid]
  BY Basics
<1>2. /\ InitPid = 1 /\ state[InitPid] # "free"
      /\ Children = 2 .. i + 1
  BY <1>1 DEF MainInv, ProgInv, InitAt, WhileForking, InitPid
<1>3. n \in 1 .. NPROC /\ Slots = 1 .. NPROC /\ NPROC \in Nat
  BY SchedAssumption DEF Slots
<1>4. n # 1 /\ n \notin Children
  BY <1>2 DEF IsNextPid, Children
<1>5. ASSUME n > i + 2
      PROVE  FALSE
  <2> DEFINE m == i + 2
  <2>1. m \in 1 .. n - 1 /\ m \in 1 .. NPROC /\ m \notin 2 .. i + 1 /\ m # 1
    BY <1>3, <1>5
  <2> HIDE DEF m
  <2>2. m \in Others /\ state[m] # "free"
    BY <1>2, <1>3, <2>1 DEF IsNextPid, Others
  <2>3. QED
    BY <1>2, <2>1, <2>2 DEF Children
<1>6. n \notin 2 .. i + 1
  BY <1>2, <1>4
<1>7. n = i + 2
  BY <1>3, <1>4, <1>5, <1>6
<1>8. QED
  BY <1>1, <1>7

\* The walk moves both frame pointers of a stack of the parent's own.
LEMMA BothLinksMove ==
  ASSUME NEW from, NEW to
  PROVE  adjstack(<<from, from>>, from, to) = <<to, to>>
<1>1. DOMAIN <<from, from>> = 1 .. 2 /\ \A k \in 1 .. 2 : <<from, from>>[k] = from
  OBVIOUS
<1>2. \A k \in 1 .. 2 : 1 .. k \subseteq 1 .. 2
  OBVIOUS
<1>3. adjstack(<<from, from>>, from, to) = [k \in 1 .. 2 |-> to]
  BY <1>1, <1>2 DEF adjstack
<1>4. QED
  BY <1>3

\* A fork makes a child in the next slot, which goes on with a copy of init's
\* stack; or it fails and init ends; or the process faults.
LEMMA ForkKeeps ==
  ASSUME MainInv, MainFork
  PROVE  ProgInv'
<1> USE Basics
<1>1. /\ current = InitPid /\ pc = "user" /\ at[InitPid] = "fork"
      /\ sched_fork /\ reported' = reported
  BY WhoIsWhere DEF MainFork, At
<1>2. ProgInv
  BY DEF MainInv
<1>3. /\ frames[InitPid] = <<InitPid, InitPid>> /\ Stack(InitPid) = InitPid
      /\ state[InitPid] \in {"ready", "running"} /\ ppid[InitPid] = InitPid
  BY <1>1, <1>2 DEF ProgInv, InitAt, Stack, MainInv, Inv, CurrentPlaced
<1>4. ASSUME NEW n \in Slots, IsNextPid(n), ForkChild(n), ForkReturns(n)
      PROVE  ProgInv'
  <2>1. PICK i \in Nat : i = loop_i[InitPid] /\ i < NumChildren
    BY <1>1, <1>2 DEF ProgInv, WhileForking
  <2>2. n = i + 2 /\ state[n] = "free" /\ n # InitPid /\ n \in Others
    BY <1>1, <1>3, <1>4, <2>1, NextSlot DEF IsNextPid, Others
  <2>3. /\ state' = [state EXCEPT ![n] = "ready"]
        /\ ppid' = [ppid EXCEPT ![n] = InitPid]
        /\ ctx' = [ctx EXCEPT ![n] = "user"]
        /\ niceval' = [niceval EXCEPT ![n] = 0]
        /\ current' = InitPid /\ pc' = "user" /\ exit_code' = exit_code
    BY <1>1, <1>4 DEF ForkChild
  <2>4. /\ at' = [at EXCEPT ![n] = "nice",
                    ![InitPid] = IF i + 1 < NumChildren THEN "fork" ELSE "wait"]
        /\ loop_i' = [loop_i EXCEPT ![n] = i,
                        ![InitPid] = IF @ + 1 < NumChildren THEN @ + 1 ELSE 0]
        /\ frames' = [frames EXCEPT ![n] = adjstack(frames[InitPid], InitPid, n)]
    BY <1>1, <1>3, <1>4, <2>1 DEF ForkReturns
  <2>5. frames' = [frames EXCEPT ![n] = <<n, n>>]
    BY <1>3, <2>4, BothLinksMove
  <2>6. loop_i' = [loop_i EXCEPT ![n] = i,
                     ![InitPid] = IF i + 1 < NumChildren THEN i + 1 ELSE 0]
    BY <2>1, <2>2, <2>4
  <2>7. /\ Children = 2 .. i + 1
        /\ reported = <<>>
    BY <1>1, <1>2, <2>1 DEF ProgInv, WhileForking
  <2>8. Children' = 2 .. i + 2
    <3>1. Children' = Children \cup {n}
      BY <2>2, <2>3 DEF Children, Others
    <3>2. 2 .. i + 2 = (2 .. i + 1) \cup {i + 2}
      BY <2>1
    <3>3. QED
      BY <2>2, <2>7, <3>1, <3>2
  <2>9. ProgTypeOK'
    <3>1. at' \in [Slots -> Statements]
      BY <2>4 DEF Statements
    <3>2. loop_i' \in [Slots -> Nat]
      <4>1. i \in Nat /\ (IF i + 1 < NumChildren THEN i + 1 ELSE 0) \in Nat
        BY <2>1
      <4>2. QED
        BY <2>6, <4>1
    <3>3. frames' \in [Slots -> Slots \X Slots]
      BY <2>5
    <3>4. QED
      BY <1>1, <3>1, <3>2, <3>3 DEF ProgTypeOK
  <2>10. InitAt'
    <3>1. Place(InitPid)' = "user"
      BY <2>3 DEF Place
    <3>2. QED
      BY <1>3, <2>2, <2>3, <2>4, <2>5, <3>1 DEF InitAt, InWait
  <2>11. ChildrenAt'
    <3> SUFFICES ASSUME NEW t \in Others
                 PROVE  /\ state'[t] = "free" => at'[t] = "none"
                        /\ state'[t] # "free" =>
                             /\ at'[t] \in {"nice", "loop", "exit"}
                             /\ frames'[t] = <<t, t>> /\ ppid'[t] = InitPid
                             /\ state'[t] = "zombie" => at'[t] = "exit" /\ exit_code'[t] = t
                             /\ state'[t] # "zombie" => Place(t)' = "user"
      BY DEF ChildrenAt
    <3>1. t \in Slots /\ t # InitPid
      BY DEF Others
    <3>2. CASE t = n
      BY <2>2, <2>3, <2>4, <2>5, <3>1, <3>2 DEF Place
    <3>3. CASE t # n
      <4>1. /\ state'[t] = state[t] /\ at'[t] = at[t] /\ frames'[t] = frames[t]
            /\ ppid'[t] = ppid[t] /\ exit_code'[t] = exit_code[t]
            /\ Place(t)' = Place(t)
        BY <1>1, <2>3, <2>4, <2>5, <3>1, <3>3 DEF Place
      <4>2. QED
        BY <1>2, <4>1 DEF ProgInv, ChildrenAt
    <3>4. QED
      BY <3>2, <3>3
  <2>12. NiceFromI'
    <3> SUFFICES ASSUME NEW t \in Children'
                 PROVE  /\ loop_i'[t] = t - 2
                        /\ at'[t] \in {"loop", "exit"} => niceval'[t] = ClampNice((t - 2) * 4)
      BY DEF NiceFromI
    <3>1. t \in Slots /\ t # InitPid
      BY DEF Children, Others
    <3>2. CASE t = n
      BY <2>1, <2>2, <2>4, <2>6, <3>1, <3>2
    <3>3. CASE t # n
      <4>1. t \in Children
        BY <2>3, <3>1, <3>3 DEF Children, Others
      <4>2. loop_i'[t] = loop_i[t] /\ at'[t] = at[t] /\ niceval'[t] = niceval[t]
        BY <2>3, <2>4, <2>6, <3>1, <3>3
      <4>3. QED
        BY <1>2, <4>1, <4>2 DEF ProgInv, NiceFromI
    <3>4. QED
      BY <3>2, <3>3
  <2>13. CASE i + 1 < NumChildren
    <3>1. at'[InitPid] = "fork" /\ loop_i'[InitPid] = i + 1
      BY <2>2, <2>4, <2>6, <2>13
    <3>2. WhileForking'
      BY <1>1, <2>1, <2>7, <2>8, <2>13, <3>1 DEF WhileForking
    <3>3. WhileCollecting'
      BY <3>1 DEF WhileCollecting
    <3>4. QED
      BY <2>9, <2>10, <2>11, <2>12, <3>2, <3>3 DEF ProgInv
  <2>14. CASE ~(i + 1 < NumChildren)
    <3>1. at'[InitPid] = "wait" /\ loop_i'[InitPid] = 0 /\ i + 1 = NumChildren
      BY <2>1, <2>2, <2>4, <2>6, <2>14, SchedMainAssumption
    <3>2. WhileForking'
      BY <3>1 DEF WhileForking
    <3>3. reported' = <<>> /\ Len(reported') = 0 /\ IsInjective(reported') /\ Reported' = {}
      BY <1>1, <2>7 DEF Reported, IsInjective
    <3>4. WhileCollecting'
      BY <2>1, <2>8, <3>1, <3>3, SchedMainAssumption DEF WhileCollecting
    <3>5. QED
      BY <2>9, <2>10, <2>11, <2>12, <3>2, <3>4 DEF ProgInv
  <2>15. QED
    BY <2>13, <2>14
<1>5. ASSUME state' = state, ppid' = ppid, ctx' = ctx, exit_code' = exit_code,
             niceval' = niceval, current' = current, pc' \in {"user", "crashed"},
             at' = [at EXCEPT ![InitPid] = "failed"] \/ at' = at,
             UNCHANGED <<loop_i, frames>>
      PROVE  ProgInv'
  <2>1. /\ \A t \in Others : at'[t] = at[t] /\ Place(t)' = Place(t)
        /\ at'[InitPid] = at[InitPid] \/ at'[InitPid] = "failed"
        /\ Place(InitPid)' \notin {"sleep", "woken"}
        /\ at' \in [Slots -> Statements]
    <3>1. at' \in [Slots -> Statements]
      BY <1>5 DEF Statements
    <3>2. \A t \in Others : at'[t] = at[t]
      BY <1>5 DEF Others
    <3>3. at'[InitPid] = at[InitPid] \/ at'[InitPid] = "failed"
      BY <1>5
    <3>4. \A t \in Others : Place(t)' = Place(t)
      BY <1>1, <1>5 DEF Others, Place
    <3>5. Place(InitPid)' \notin {"sleep", "woken"}
      BY <1>1, <1>5 DEF Place
    <3>6. QED
      BY <3>1, <3>2, <3>3, <3>4, <3>5
  <2>2. \A t \in Others : state[t] = "free" => at'[t] = "none"
    BY <1>2, <2>1 DEF ProgInv, ChildrenAt
  <2>3. ASSUME NEW t \in Children
        PROVE  /\ at'[t] \in {"nice", "loop", "exit"}
               /\ state'[t] = "zombie" => at'[t] = "exit" /\ exit_code'[t] = t
               /\ state'[t] # "zombie" => Place(t)' = "user"
               /\ at'[t] \in {"loop", "exit"} => niceval'[t] = ClampNice((t - 2) * 4)
    BY <1>2, <1>5, <2>1 DEF ProgInv, ChildrenAt, NiceFromI, Children
  <2>4. QED
    BY <1>1, <1>3, <1>5, <2>1, <2>2, <2>3, QuietKeeps DEF InWait
<1>6. CASE ForkError \/ ForkFault
  <2>1. UNCHANGED <<state, ppid, ctx, exit_code, niceval, current>> /\ pc' \in {"user", "crashed"}
    BY <1>1, <1>6 DEF ForkError, ForkFault, fields
  <2>2. ~(\E n \in Slots : state[n] = "free" /\ state'[n] = "ready")
    BY <2>1
  <2>3. QED
    BY <1>1, <1>5, <2>1, <2>2 DEF MainFork
<1>7. CASE \E n \in Slots : IsNextPid(n) /\ ForkChild(n)
  <2>1. PICK n \in Slots : IsNextPid(n) /\ ForkChild(n)
    BY <1>7
  <2>2. /\ state[n] = "free" /\ state' = [state EXCEPT ![n] = "ready"] /\ pc' = pc
    BY <2>1 DEF IsNextPid, ForkChild
  <2>3. state' # state /\ pc' # "crashed"
    BY <1>1, <2>2
  <2>4. \A m \in Slots : state[m] = "free" /\ state'[m] = "ready" => m = n
    BY <2>2
  <2>5. ForkReturns(n)
    BY <2>3, <2>4 DEF MainFork
  <2>6. QED
    BY <1>4, <2>1, <2>5
<1>8. QED
  BY <1>1, <1>6, <1>7 DEF sched_fork

\* A child at its own code.
LEMMA ChildRuns ==
  ASSUME MainInv, pc = "user", at[current] \in {"nice", "loop", "exit"}
  PROVE  /\ current \in Children /\ current \in Others /\ state[current] \notin {"free", "zombie"}
         /\ Stack(current) = current /\ ppid[current] = InitPid
         /\ loop_i[current] = current - 2 /\ current - 2 \in 0 .. NumChildren
         /\ at[current] \in {"loop", "exit"} => niceval[current] = ClampNice((current - 2) * 4)
<1> USE Basics
<1>1. current \in Children /\ current \in Others
  BY WhoIsWhere DEF Children
<1>2. state[current] \notin {"free", "zombie"}
  BY DEF MainInv, Inv, CurrentPlaced
<1>3. Stack(current) = current /\ ppid[current] = InitPid
  BY <1>1, <1>2 DEF MainInv, ProgInv, ChildrenAt, Stack
<1>4. /\ loop_i[current] = current - 2
      /\ at[current] \in {"loop", "exit"} => niceval[current] = ClampNice((current - 2) * 4)
  BY <1>1 DEF MainInv, ProgInv, NiceFromI
<1>5. current \in 2 .. NumChildren + 1
  BY <1>1, ChildrenInRange
<1>6. current - 2 \in 0 .. NumChildren
  BY <1>5, SchedMainAssumption
<1>7. QED
  BY <1>1, <1>2, <1>3, <1>4, <1>6

\* A step of a child's own, which leaves all the others as they are.
LEMMA ChildKeeps ==
  ASSUME MainInv, pc = "user", at[current] \in {"nice", "loop", "exit"},
         UNCHANGED <<current, state, ppid, exit_code, ctx, pc, loop_i, frames, reported>>,
         \A t \in Slots \ {current} : niceval'[t] = niceval[t],
         niceval'[current] = ClampNice((current - 2) * 4),
         at' = [at EXCEPT ![current] = "loop"] \/ at' = [at EXCEPT ![current] = "exit"]
  PROVE  ProgInv'
<1> USE Basics, ChildRuns
<1>1. ProgInv
  BY DEF MainInv
<1>2. at' \in [Slots -> Statements]
  BY DEF Statements
<1>3. \A t \in Slots : Place(t)' = Place(t)
  BY DEF Place
<1>4. at'[InitPid] = at[InitPid] /\ state'[InitPid] # "zombie"
  BY <1>1 DEF ProgInv, InitAt, Others
<1>5. InWait' => at'[InitPid] = "wait"
  BY <1>1, <1>3, <1>4 DEF ProgInv, InitAt, InWait
<1>6. \A t \in Others : state[t] = "free" => at'[t] = "none"
  BY <1>1 DEF ProgInv, ChildrenAt, Others
<1>7. ASSUME NEW t \in Children
      PROVE  /\ at'[t] \in {"nice", "loop", "exit"}
             /\ state'[t] = "zombie" => at'[t] = "exit" /\ exit_code'[t] = t
             /\ state'[t] # "zombie" => Place(t)' = "user"
             /\ at'[t] \in {"loop", "exit"} => niceval'[t] = ClampNice((t - 2) * 4)
  <2>1. t \in Others /\ t \in Slots /\ state[t] # "free"
    BY DEF Children, Others
  <2>2. CASE t = current
    BY <1>3, <2>2 DEF Place
  <2>3. CASE t # current
    <3>1. at'[t] = at[t] /\ niceval'[t] = niceval[t]
      BY <2>1, <2>3
    <3>2. /\ at[t] \in {"nice", "loop", "exit"}
          /\ state[t] = "zombie" => at[t] = "exit" /\ exit_code[t] = t
          /\ state[t] # "zombie" => Place(t) = "user"
      BY <1>1, <2>1 DEF ProgInv, ChildrenAt
    <3>3. QED
      BY <1>1, <1>3, <2>1, <3>1, <3>2 DEF ProgInv, NiceFromI
  <2>4. QED
    BY <2>2, <2>3
<1>8. QED
  BY <1>2, <1>4, <1>5, <1>6, <1>7, QuietKeeps

\* A child computes its nice value from the i on its own stack.
LEMMA NiceKeeps ==
  ASSUME MainInv, ChildNice
  PROVE  ProgInv'
<1>1. /\ pc = "user" /\ at[current] = "nice"
      /\ sched_nice(loop_i[Stack(current)] * 4)
      /\ at' = [at EXCEPT ![current] = "loop"]
      /\ UNCHANGED <<loop_i, frames, reported>>
  BY DEF ChildNice, At
<1>2. Stack(current) = current /\ loop_i[current] = current - 2
  BY <1>1, ChildRuns
<1>3. niceval' = [niceval EXCEPT ![current] = ClampNice((current - 2) * 4)]
  BY <1>1, <1>2 DEF sched_nice
<1>4. UNCHANGED <<current, state, ppid, exit_code, ctx, pc>>
  BY <1>1 DEF sched_nice
<1>5. QED
  BY <1>1, <1>3, <1>4, Basics, ChildKeeps

\* The loop of a child changes nothing else.
LEMMA LoopKeeps ==
  ASSUME MainInv, ChildLoop
  PROVE  ProgInv'
<1>1. /\ pc = "user" /\ at[current] = "loop"
      /\ at' = [at EXCEPT ![current] = "loop"] \/ at' = [at EXCEPT ![current] = "exit"]
      /\ UNCHANGED <<loop_i, frames, reported>> /\ UNCHANGED vars
  BY DEF ChildLoop, At
<1>2. niceval[current] = ClampNice((current - 2) * 4)
  BY <1>1, ChildRuns
<1>3. QED
  BY <1>1, <1>2, ChildKeeps DEF vars, fields

\* A child exits with its pid, and wakes init if that sleeps in its wait.
LEMMA ExitKeeps ==
  ASSUME MainInv, ChildExit
  PROVE  ProgInv'
<1> USE Basics
<1>1. /\ pc = "user" /\ at[current] = "exit" /\ sched_exit(current)
      /\ UNCHANGED <<at, loop_i, frames, reported>>
  BY DEF ChildExit, At, progvars
<1>2. ProgInv
  BY DEF MainInv
<1>3. current \in Others /\ ppid[current] = InitPid /\ state[current] \notin {"free", "zombie"}
  BY <1>1, ChildRuns
<1>4. UNCHANGED <<ppid, niceval>> /\ exit_code' = [exit_code EXCEPT ![current] = current]
  BY <1>1 DEF sched_exit
<1>5. /\ state'[current] = "zombie"
      /\ \A t \in Slots \ {current} : state'[t] = state[t] \/ (state[t] = "sleeping" /\ state'[t] = "running")
      /\ \A t \in Slots \ {current} : Place(t)' = Place(t)
  <2>1. CASE NobodyToWake
    BY <2>1 DEF NobodyToWake, Place
  <2>2. ASSUME NEW j \in Slots, SleepingParent(j, current), WakeParent(j)
        PROVE  /\ state'[current] = "zombie"
               /\ \A t \in Slots \ {current} :
                    state'[t] = state[t] \/ (state[t] = "sleeping" /\ state'[t] = "running")
               /\ \A t \in Slots \ {current} : Place(t)' = Place(t)
    <3>1. state[j] = "sleeping" /\ j # current
      BY <1>3, <2>2 DEF SleepingParent, Others
    <3>2. /\ state' = [state EXCEPT ![current] = "zombie", ![j] = "running"]
          /\ current' = j /\ pc' = ctx[j] /\ ctx' = [ctx EXCEPT ![j] = "stale"]
      BY <2>2 DEF WakeParent
    <3>3. QED
      BY <3>1, <3>2 DEF Place
  <2>3. QED
    BY <1>1, <2>1, <2>2 DEF sched_exit
<1>6. \A t \in Slots : state'[t] = "free" <=> state[t] = "free"
  BY <1>3, <1>5
<1>7. state'[InitPid] # "zombie" /\ (InWait' => at'[InitPid] = "wait")
  BY <1>1, <1>2, <1>3, <1>5 DEF ProgInv, InitAt, Others, InWait
<1>8. \A t \in Others : state[t] = "free" => at'[t] = "none"
  BY <1>1, <1>2 DEF ProgInv, ChildrenAt
<1>9. ASSUME NEW t \in Children
      PROVE  /\ at'[t] \in {"nice", "loop", "exit"}
             /\ state'[t] = "zombie" => at'[t] = "exit" /\ exit_code'[t] = t
             /\ state'[t] # "zombie" => Place(t)' = "user"
             /\ at'[t] \in {"loop", "exit"} => niceval'[t] = ClampNice((t - 2) * 4)
  <2>1. t \in Others /\ t \in Slots /\ state[t] # "free"
    BY DEF Children, Others
  <2>2. at[t] \in {"loop", "exit"} => niceval[t] = ClampNice((t - 2) * 4)
    BY <1>2 DEF ProgInv, NiceFromI
  <2>3. CASE t = current
    BY <1>1, <1>4, <1>5, <2>2, <2>3
  <2>4. CASE t # current
    <3>1. /\ at[t] \in {"nice", "loop", "exit"}
          /\ state[t] = "zombie" => at[t] = "exit" /\ exit_code[t] = t
          /\ state[t] # "zombie" => Place(t) = "user"
      BY <1>2, <2>1 DEF ProgInv, ChildrenAt
    <3>2. QED
      BY <1>1, <1>4, <1>5, <2>1, <2>2, <2>4, <3>1
  <2>5. QED
    BY <2>3, <2>4
<1>10. QED
  BY <1>1, <1>4, <1>6, <1>7, <1>8, <1>9, QuietKeeps

\* Init collects the child whose code it reports.
LEMMA ReapKeeps ==
  ASSUME MainInv, current = InitPid, at[InitPid] = "wait",
         NEW z \in Slots, FirstZombieChild(z), Reap(z), current' = current,
         reported' = Append(reported, exit_code[z]),
         loop_i' = [loop_i EXCEPT ![Stack(current)] = @ + 1],
         at' = [at EXCEPT ![z] = "none",
                  ![current] = IF loop_i'[Stack(current)] = NumChildren THEN "ended" ELSE "wait"],
         frames' = frames
  PROVE  ProgInv'
<1> USE Basics
<1>1. ProgInv
  BY DEF MainInv
<1>2. /\ Stack(InitPid) = InitPid /\ ppid[InitPid] = InitPid
      /\ state[InitPid] \notin {"free", "zombie"} /\ frames[InitPid] = <<InitPid, InitPid>>
  BY <1>1 DEF ProgInv, InitAt, Stack
<1>3. state[z] = "zombie" /\ z # InitPid /\ z \in Others /\ z \in Children
  BY <1>2 DEF FirstZombieChild, ZombieChild, Others, Children
<1>4. exit_code[z] = z
  BY <1>1, <1>3 DEF ProgInv, ChildrenAt
<1>5. /\ loop_i[InitPid] = Len(reported) /\ IsInjective(reported)
      /\ Reported \cap Children = {} /\ Reported \cup Children = 2 .. NumChildren + 1
      /\ Len(reported) < NumChildren
  BY <1>1 DEF ProgInv, WhileCollecting
<1>6. PICK i \in Nat : i = Len(reported) /\ i = loop_i[InitPid] /\ i < NumChildren
  BY <1>5
<1>7. /\ state' = [state EXCEPT ![z] = "free"]
      /\ ppid' = [ppid EXCEPT ![z] = 0]
      /\ niceval' = [niceval EXCEPT ![z] = 0]
      /\ exit_code' = [exit_code EXCEPT ![z] = NoCode]
      /\ ctx' = [ctx EXCEPT ![z] = "stale"]
      /\ pc' = "user"
  BY DEF Reap
<1>8. loop_i' = [loop_i EXCEPT ![InitPid] = i + 1] /\ loop_i'[InitPid] = i + 1
  BY <1>2, <1>6
<1>9. /\ at' = [at EXCEPT ![z] = "none", ![InitPid] = IF i + 1 = NumChildren THEN "ended" ELSE "wait"]
      /\ at'[InitPid] = IF i + 1 = NumChildren THEN "ended" ELSE "wait"
      /\ at'[z] = "none"
  BY <1>2, <1>3, <1>8
<1>10. z \in Codes /\ reported' = Append(reported, z)
  BY <1>4, SchedMainAssumption
<1>11. ProgTypeOK'
  <2>1. at' \in [Slots -> Statements]
    BY <1>9 DEF Statements
  <2>2. i + 1 \in Nat
    BY <1>6
  <2>3. loop_i' \in [Slots -> Nat]
    BY <1>8, <2>2
  <2>4. reported' \in Seq(Codes)
    BY <1>10
  <2>5. QED
    BY <2>1, <2>3, <2>4 DEF ProgTypeOK
<1>12. InitAt'
  <2>1. Place(InitPid)' = "user"
    BY <1>7 DEF Place
  <2>2. state[InitPid] # "sleeping"
    BY DEF FirstZombieChild, MainInv, Inv, NoLostWakeup
  <2>3. QED
    BY <1>2, <1>3, <1>7, <1>9, <2>1, <2>2 DEF InitAt, InWait
<1>13. \A t \in Others \ {z} :
         /\ state'[t] = state[t] /\ at'[t] = at[t] /\ ppid'[t] = ppid[t]
         /\ niceval'[t] = niceval[t] /\ exit_code'[t] = exit_code[t]
         /\ loop_i'[t] = loop_i[t] /\ Place(t)' = Place(t)
  BY <1>7, <1>8, <1>9 DEF Others, Place
<1>14. ChildrenAt'
  <2> SUFFICES ASSUME NEW t \in Others
               PROVE  /\ state'[t] = "free" => at'[t] = "none"
                      /\ state'[t] # "free" =>
                           /\ at'[t] \in {"nice", "loop", "exit"}
                           /\ frames'[t] = <<t, t>> /\ ppid'[t] = InitPid
                           /\ state'[t] = "zombie" => at'[t] = "exit" /\ exit_code'[t] = t
                           /\ state'[t] # "zombie" => Place(t)' = "user"
    BY DEF ChildrenAt
  <2>1. CASE t = z
    BY <1>7, <1>9, <2>1
  <2>2. CASE t # z
    BY <1>1, <1>13, <2>2 DEF ProgInv, ChildrenAt
  <2>3. QED
    BY <2>1, <2>2
<1>15. Children' = Children \ {z}
  BY <1>7, <1>13 DEF Children, Others
<1>16. NiceFromI'
  <2> SUFFICES ASSUME NEW t \in Children'
               PROVE  /\ loop_i'[t] = t - 2
                      /\ at'[t] \in {"loop", "exit"} => niceval'[t] = ClampNice((t - 2) * 4)
    BY DEF NiceFromI
  <2>1. t \in Children /\ t \in Others \ {z}
    BY <1>15 DEF Children
  <2>2. loop_i'[t] = loop_i[t] /\ at'[t] = at[t] /\ niceval'[t] = niceval[t]
    BY <1>13, <2>1
  <2>3. QED
    BY <1>1, <2>1, <2>2 DEF ProgInv, NiceFromI
<1>17. WhileForking'
  BY <1>9 DEF WhileForking
<1>18. WhileCollecting'
  <2>1. /\ DOMAIN reported = 1 .. i /\ DOMAIN reported' = 1 .. i + 1
        /\ reported'[i + 1] = z /\ \A k \in 1 .. i : reported'[k] = reported[k]
        /\ Len(reported') = i + 1
    <3>1. reported \in Seq(Codes) /\ i = Len(reported) /\ i \in Nat
      BY <1>6
    <3>2. reported' = Append(reported, z)
      BY <1>10
    <3>3. Len(reported') = i + 1 /\ reported'[i + 1] = z
      BY <3>1, <3>2
    <3>4. \A k \in 1 .. i : reported'[k] = reported[k]
      BY <3>1, <3>2
    <3>5. DOMAIN reported = 1 .. i
      BY <3>1
    <3>6. DOMAIN reported' = 1 .. i + 1
      BY <3>1, <3>2
    <3>7. QED
      BY <3>3, <3>4, <3>5, <3>6
  <2>2. 1 .. i + 1 = (1 .. i) \cup {i + 1}
    BY <1>6
  <2>3. Reported' = Reported \cup {z}
    BY <2>1, <2>2 DEF Reported
  <2>4. z \notin Reported
    BY <1>3, <1>5
  <2>5. \A k \in 1 .. i : reported[k] # z
    BY <2>1, <2>4 DEF Reported
  <2>6. IsInjective(reported')
    <3> SUFFICES ASSUME NEW a \in 1 .. i + 1, NEW b \in 1 .. i + 1, reported'[a] = reported'[b]
                 PROVE  a = b
      BY <2>1 DEF IsInjective
    <3>1. CASE a \in 1 .. i /\ b \in 1 .. i
      BY <1>5, <2>1, <3>1 DEF IsInjective
    <3>2. CASE a = i + 1 \/ b = i + 1
      BY <2>1, <2>2, <2>5, <3>2
    <3>3. QED
      BY <2>2, <3>1, <3>2
  <2>7. /\ Reported' \cap Children' = {}
        /\ Reported' \cup Children' = 2 .. NumChildren + 1
    BY <1>3, <1>5, <1>15, <2>3
  <2>8. IF at'[InitPid] = "wait" THEN Len(reported') < NumChildren ELSE Len(reported') = NumChildren
    BY <1>6, <1>9, <2>1, SchedMainAssumption
  <2>9. QED
    BY <1>8, <2>1, <2>6, <2>7, <2>8 DEF WhileCollecting
<1>19. QED
  BY <1>11, <1>12, <1>14, <1>16, <1>17, <1>18 DEF ProgInv

\* A wait of init collects a child or goes to sleep: the scan by ppid always
\* finds init itself, so it never returns an error.
LEMMA WaitKeeps ==
  ASSUME MainInv, MainWait \/ MainWaitAgain
  PROVE  ProgInv'
<1> USE Basics
<1>1. ProgInv
  BY DEF MainInv
<1>2. current = InitPid /\ at[InitPid] = "wait" /\ WaitReturns
  <2>1. CASE MainWait
    BY <2>1, WhoIsWhere DEF MainWait, At
  <2>2. CASE MainWaitAgain
    <3>1. pc = "woken" /\ Place(current) = "woken" /\ state[current] # "zombie"
      BY <2>2 DEF MainWaitAgain, WaitAgain, Place, MainInv, Inv, CurrentPlaced
    <3>2. current = InitPid
      BY <1>1, <3>1 DEF ProgInv, ChildrenAt, Others
    <3>3. QED
      BY <1>1, <2>2, <3>1, <3>2 DEF ProgInv, InitAt, MainWaitAgain, InWait
  <2>3. QED
    BY <2>1, <2>2
<1>3. /\ ppid[InitPid] = InitPid /\ state[InitPid] \notin {"free", "zombie"}
  BY <1>1 DEF ProgInv, InitAt
<1>4. HasChild(current)
  BY <1>2, <1>3 DEF HasChild, IsChild
<1>5. WaitPass
  BY <1>4 DEF MainWait, MainWaitAgain, WaitAgain, sched_wait, WaitError
<1>6. current' = current
  BY <1>5 DEF WaitPass
<1>7. ASSUME NEW z \in Slots, FirstZombieChild(z), Reap(z)
      PROVE  ProgInv'
  <2>1. pc' = "user" /\ state' = [state EXCEPT ![z] = "free"]
    BY <1>7 DEF Reap
  <2>2. PICK y \in Slots :
          /\ state[y] = "zombie" /\ state'[y] = "free"
          /\ reported' = Append(reported, exit_code[y])
          /\ loop_i' = [loop_i EXCEPT ![Stack(current)] = @ + 1]
          /\ at' = [at EXCEPT ![y] = "none",
                      ![current] = IF loop_i'[Stack(current)] = NumChildren THEN "ended" ELSE "wait"]
          /\ frames' = frames
    BY <1>2, <2>1 DEF WaitReturns
  <2>3. y = z
    BY <2>1, <2>2
  <2>4. QED
    BY <1>2, <1>6, <1>7, <2>2, <2>3, ReapKeeps
<1>8. CASE Sleep
  <2>1. /\ state' = [state EXCEPT ![current] = "sleeping"] /\ pc' = "sleep"
        /\ UNCHANGED <<ppid, niceval, exit_code, ctx>>
    BY <1>8 DEF Sleep
  <2>2. UNCHANGED <<at, loop_i, frames, reported>>
    BY <1>2, <1>3, <2>1 DEF WaitReturns, progvars
  <2>3. \A t \in Others : state'[t] = state[t] /\ Place(t)' = Place(t)
    BY <1>2, <1>6, <2>1 DEF Others, Place
  <2>4. \A t \in Slots : state'[t] = "free" <=> state[t] = "free"
    BY <1>2, <1>3, <2>1
  <2>5. state'[InitPid] # "zombie" /\ at'[InitPid] = "wait"
    BY <1>2, <2>1, <2>2
  <2>6. \A t \in Others : state[t] = "free" => at'[t] = "none"
    BY <1>1, <2>2 DEF ProgInv, ChildrenAt
  <2>7. ASSUME NEW t \in Children
        PROVE  /\ at'[t] \in {"nice", "loop", "exit"}
               /\ state'[t] = "zombie" => at'[t] = "exit" /\ exit_code'[t] = t
               /\ state'[t] # "zombie" => Place(t)' = "user"
               /\ at'[t] \in {"loop", "exit"} => niceval'[t] = ClampNice((t - 2) * 4)
    BY <1>1, <2>1, <2>2, <2>3 DEF ProgInv, ChildrenAt, NiceFromI, Children
  <2>8. QED
    BY <2>1, <2>2, <2>4, <2>5, <2>6, <2>7, QuietKeeps
<1>9. QED
  BY <1>5, <1>7, <1>8 DEF WaitPass

-----------------------------------------------------------------------------
\* A child gives sched_nice an argument the scheduler's model allows.
LEMMA NiceArgument ==
  ASSUME MainInv, ChildNice
  PROVE  \E v \in NiceArgs : sched_nice(v)
<1>1. pc = "user" /\ at[current] = "nice"
  BY DEF ChildNice, At
<1>2. Stack(current) = current /\ loop_i[current] \in 0 .. NumChildren
  BY <1>1, ChildRuns
<1>3. loop_i[Stack(current)] * 4 \in NiceArgs
  BY <1>2, SchedMainAssumption
<1>4. QED
  BY <1>3 DEF ChildNice

\* Every step of the program is a step of the scheduler.
LEMMA StepOfScheduler ==
  ASSUME MainInv, [MainNext]_mvars
  PROVE  [Next]_vars
<1>1. CASE MainFork
  BY <1>1 DEF MainFork, Next
<1>2. CASE ChildNice
  BY <1>2, NiceArgument DEF Next
<1>3. CASE ChildLoop
  BY <1>3 DEF ChildLoop
<1>4. CASE ChildExit
  <2>1. current \in Codes
    BY Basics, SchedMainAssumption
  <2>2. QED
    BY <1>4, <2>1 DEF ChildExit, Next
<1>5. CASE MainWait \/ MainWaitAgain \/ InScheduler \/ MainTick
  BY <1>5 DEF MainWait, MainWaitAgain, InScheduler, MainTick, Next
<1>6. CASE UNCHANGED mvars
  BY <1>6 DEF mvars
<1>7. QED
  BY <1>1, <1>2, <1>3, <1>4, <1>5, <1>6 DEF MainNext, TaskStep

\* A step that changes nothing keeps the invariant.
LEMMA StandsStill ==
  ASSUME MainInv, UNCHANGED mvars
  PROVE  ProgInv'
<1>1. UNCHANGED <<current, state, ppid, niceval, exit_code, ctx, pc>>
      /\ UNCHANGED <<at, loop_i, frames, reported>>
  BY DEF mvars, vars, fields, progvars
<1>2. Children' = Children /\ Reported' = Reported /\ \A t : Place(t)' = Place(t)
  BY <1>1 DEF Children, Others, Reported, Place
<1>3. ProgInv
  BY DEF MainInv
<1>4. ProgTypeOK' /\ InitAt' /\ ChildrenAt'
  BY <1>1, <1>2, <1>3 DEF ProgInv, ProgTypeOK, InitAt, ChildrenAt, InWait
<1>5. NiceFromI' /\ WhileForking' /\ WhileCollecting'
  BY <1>1, <1>2, <1>3 DEF ProgInv, NiceFromI, WhileForking, WhileCollecting
<1>6. QED
  BY <1>4, <1>5 DEF ProgInv

\* Every step of the program keeps its invariant.
LEMMA MainStep ==
  ASSUME MainInv, [MainNext]_mvars
  PROVE  MainInv'
<1>1. Inv'
  BY StepOfScheduler, StepInv DEF MainInv
<1>2. ProgInv'
  BY ForkKeeps, NiceKeeps, LoopKeeps, ExitKeeps, WaitKeeps, SwitchingKeeps, StandsStill
  DEF MainNext, TaskStep
<1>3. QED
  BY <1>1, <1>2 DEF MainInv

\* The program and the scheduler under it keep their invariants.
THEOREM MainInvariance == MainSpec => []MainInv
<1>1. MainInv /\ [MainNext]_mvars => MainInv'
  BY MainStep
<1>2. QED
  BY MainStart, <1>1, PTL DEF MainSpec

-----------------------------------------------------------------------------
\* When init ends its wait for the last child, as many codes are reported as
\* there are children, each the pid of a child of its own (main.c:43-49, 59).
THEOREM EachReportedOnce == MainSpec => []EachChildReportedOnce
<1>1. ASSUME MainInv, at[InitPid] = "ended"
      PROVE  Len(reported) = NumChildren /\ Reported = 2 .. NumChildren + 1
  <2>1. NumChildren \in Nat
    BY SchedMainAssumption
  <2>2. /\ Len(reported) = NumChildren /\ IsInjective(reported)
        /\ Reported \subseteq 2 .. NumChildren + 1
    BY <1>1 DEF MainInv, ProgInv, WhileCollecting
  <2> DEFINE S == 1 .. NumChildren
             T == 2 .. NumChildren + 1
  <2>3. DOMAIN reported = S
    BY <1>1, <2>2, Basics
  <2>4. reported \in Injection(S, T)
    <3>1. \A k \in S : reported[k] \in T
      BY <2>2, <2>3 DEF Reported
    <3>2. reported \in [S -> T]
      BY <1>1, <2>1, <2>2, <3>1, Basics
    <3>3. QED
      BY <2>2, <2>3, <3>2 DEF Injection, IsInjective
  <2>5. IsFiniteSet(T) /\ Cardinality(S) = NumChildren /\ Cardinality(T) = NumChildren
    <3>1. Cardinality(S) = IF 1 > NumChildren THEN 0 ELSE NumChildren - 1 + 1
      BY <2>1, FS_Interval
    <3>2. /\ IsFiniteSet(T)
          /\ Cardinality(T) = IF 2 > NumChildren + 1 THEN 0 ELSE NumChildren + 1 - 2 + 1
      BY <2>1, FS_Interval
    <3>3. QED
      BY <2>1, <3>1, <3>2
  <2> HIDE DEF S, T
  <2>6. reported \in Surjection(S, T)
    BY <2>4, <2>5, FS_Injection
  <2>7. T \subseteq Reported
    BY <2>3, <2>6 DEF Surjection, Reported
  <2>8. QED
    BY <2>2, <2>7 DEF T
<1>2. MainInv => EachChildReportedOnce
  BY <1>1 DEF EachChildReportedOnce, Reported
<1>3. QED
  BY MainInvariance, <1>2, PTL

\* Up to six children find different nice values in the i of their forks; main.c
\* forks four (main.c:15, 29-37; adjstack.c:16-50; sched.c:122-128).
THEOREM NiceValuesAreDifferent ==
  ASSUME NumChildren <= 6
  PROVE  MainSpec => []NiceValuesDiffer
<1>1. ASSUME MainInv, NEW t \in Slots \ {InitPid}, at[t] \in {"loop", "exit"}
      PROVE  t \in 2 .. 7 /\ niceval[t] = ClampNice((t - 2) * 4)
  <2>1. t \in Children
    BY <1>1 DEF MainInv, ProgInv, ChildrenAt, Children, Others
  <2>2. niceval[t] = ClampNice((t - 2) * 4)
    BY <1>1, <2>1 DEF MainInv, ProgInv, NiceFromI
  <2>3. t \in 2 .. NumChildren + 1
    BY <1>1, <2>1, ChildrenInRange
  <2>4. QED
    BY <2>2, <2>3, SchedMainAssumption
<1>2. \A s, t \in 2 .. 7 : ClampNice((s - 2) * 4) = ClampNice((t - 2) * 4) => s = t
  BY DEF ClampNice
<1>3. MainInv => NiceValuesDiffer
  BY <1>1, <1>2 DEF NiceValuesDiffer
<1>4. QED
  BY MainInvariance, <1>3, PTL

-----------------------------------------------------------------------------
\* While init waits there is a child to wait for.
LEMMA SomeoneToWaitFor ==
  ASSUME MainInv, at[InitPid] = "wait"
  PROVE  Children # {}
<1>1. /\ IsInjective(reported) /\ Reported \cup Children = 2 .. NumChildren + 1
      /\ Len(reported) < NumChildren
  BY DEF MainInv, ProgInv, WhileCollecting
<1>2. SUFFICES ASSUME Children = {} PROVE FALSE
  OBVIOUS
<1>3. PICK i \in Nat : i = Len(reported) /\ DOMAIN reported = 1 .. i /\ i < NumChildren
  BY <1>1, Basics
<1>4. Reported = 2 .. NumChildren + 1
  BY <1>1, <1>2
<1> DEFINE S == 1 .. i
           T == 2 .. NumChildren + 1
<1>5. reported \in Surjection(S, T)
  <2>1. reported \in [S -> T]
    <3>1. \A k \in S : reported[k] \in T
      BY <1>3, <1>4 DEF Reported
    <3>2. QED
      BY <1>3, <3>1, Basics
  <2>2. \A y \in T : \E k \in S : reported[k] = y
    BY <1>3, <1>4 DEF Reported
  <2>3. QED
    BY <2>1, <2>2 DEF Surjection
<1>6. /\ IsFiniteSet(S)
      /\ Cardinality(S) = IF 1 > i THEN 0 ELSE i - 1 + 1
  <2>1. 1 \in Int /\ i \in Int
    OBVIOUS
  <2>2. QED
    BY <2>1, FS_Interval
<1>7. Cardinality(T) = IF 2 > NumChildren + 1 THEN 0 ELSE NumChildren + 1 - 2 + 1
  BY SchedMainAssumption, FS_Interval
<1> HIDE DEF S, T
<1>8. Cardinality(T) <= Cardinality(S)
  BY <1>5, <1>6, FS_Surjection
<1>9. QED
  BY <1>3, <1>6, <1>7, <1>8, SchedMainAssumption

\* What the discipline asks of a task that exits and of init's wait.
LEMMA KeepsDiscipline ==
  ASSUME MainInv
  PROVE  /\ ChildExit => current # InitPid /\ ~ HasChild(current)
         /\ MainWait => \E j \in Slots \ {InitPid} : IsChild(j, InitPid)
<1> USE Basics
<1>1. ProgInv
  BY DEF MainInv
<1>2. ASSUME ChildExit
      PROVE  current # InitPid /\ ~ HasChild(current)
  <2>1. current \in Others
    BY <1>2, ChildRuns DEF ChildExit, At
  <2>2. \A t \in Slots : state[t] # "free" => ppid[t] = InitPid
    BY <1>1 DEF ProgInv, InitAt, ChildrenAt, Others
  <2>3. QED
    BY <2>1, <2>2 DEF HasChild, IsChild, Others
<1>3. ASSUME MainWait
      PROVE  \E j \in Slots \ {InitPid} : IsChild(j, InitPid)
  <2>1. at[InitPid] = "wait"
    BY <1>3, WhoIsWhere DEF MainWait, At
  <2>2. Children # {}
    BY <2>1, SomeoneToWaitFor
  <2>3. QED
    BY <1>1, <2>2 DEF ProgInv, ChildrenAt, Children, Others, IsChild
<1>4. QED
  BY <1>2, <1>3

\* Every step of the program leaves the tasks orderly.
LEMMA StepKeepsOrder ==
  ASSUME MainInv, orderly, [MainNext]_mvars
  PROVE  orderly'
<1>1. CASE ChildExit
  BY <1>1, KeepsDiscipline DEF ChildExit, sched_exit
<1>2. CASE MainWait
  BY <1>2, KeepsDiscipline DEF MainWait, sched_wait
<1>3. CASE MainFork \/ ChildNice \/ ChildLoop
  BY <1>3 DEF MainFork, ChildNice, ChildLoop, sched_fork, sched_nice, vars
<1>4. CASE MainWaitAgain \/ InScheduler \/ MainTick
  BY <1>4 DEF MainWaitAgain, InScheduler, MainTick, WaitAgain, ExitSwitch, WaitSwitch, sched_tick
<1>5. CASE UNCHANGED mvars
  BY <1>5 DEF mvars, vars
<1>6. QED
  BY <1>1, <1>2, <1>3, <1>4, <1>5 DEF MainNext, TaskStep

\* The tasks of main.c are orderly: none exits with children left, init never
\* exits by sched_exit, and its wait always has a child to wait for
\* (main.c:22-49; sched.c:150-231).
THEOREM ProgramKeepsOrder == MainSpec => KeepsOrder
<1>1. MainInit => Init /\ orderly
  BY DEF MainInit, Init
<1>2. MainInv /\ [MainNext]_mvars => [Next]_vars
  BY StepOfScheduler
<1>3. MainInv /\ orderly /\ [MainNext]_mvars => orderly'
  BY StepKeepsOrder
<1>4. [Next]_vars /\ orderly' => [Next /\ orderly']_vars
  OBVIOUS
<1>5. QED
  BY MainInvariance, <1>1, <1>2, <1>3, <1>4, PTL DEF MainSpec, KeepsOrder

\* A behaviour that keeps the order is one of the scheduler, and orderly in
\* every state.
LEMMA OrderKept == KeepsOrder => Spec /\ []orderly
<1>1. Init => orderly
  BY DEF Init
<1>2. [Next /\ orderly']_vars => [Next]_vars
  OBVIOUS
<1>3. orderly /\ [Next /\ orderly']_vars => orderly'
  BY DEF vars
<1>4. QED
  BY <1>1, <1>2, <1>3, PTL DEF KeepsOrder, Spec

\* In the program, tasks never all sleep on one another: what is said of
\* orderly tasks is true of it, and they are orderly (sched.c:162, 196-222;
\* main.c:43-49).
THEOREM ProgramNeverAllAsleep == MainSpec => [](orderly /\ NoSleepDeadlock)
  BY ProgramKeepsOrder, OrderKept, NoAllAsleep, PTL

\* No child of the program comes back from its sched_exit (sched.h:76-77,
\* sched.c:173, main.c:29-37).
THEOREM ChildrenDoNotReturn == MainSpec => [](orderly /\ ExitNeverReturns)
  BY ProgramKeepsOrder, OrderKept, ExitDoesNotReturn, PTL

=============================================================================
