----------------------------- MODULE SchedMain -----------------------------
(***************************************************************************)
(* The program of ps9/main.c on the scheduler of Sched: init forks its     *)
(* children, each child sets its nice value, loops and exits with its pid, *)
(* and init waits once per child and ends the process.                     *)
(*                                                                         *)
(* The scheduler's own handlers are those of Sched, whatever tasks do;     *)
(* that the tasks of this program are orderly is a property (KeepsOrder).  *)
(***************************************************************************)
EXTENDS Sched, Sequences

CONSTANTS
  NumChildren,  \* numChildren
  LoopSteps     \* bound: the steps that stand for the loop of child()

ASSUME SchedMainAssumption ==
  /\ NumChildren \in Nat \ {0}
  /\ LoopSteps \in Nat \ {0}
  /\ Slots \subseteq Codes
  /\ \A i \in 0 .. NumChildren : i * 4 \in NiceArgs

VARIABLES
  at,           \* at[t]: the statement of main.c the task t is at
  loop_i,       \* loop_i[s]: the local i of init() on the stack of task s
  frames,       \* frames[t]: whose stacks the frame pointers saved on the stack
                \*   of t lead to, first to the frame of init(), then to the top
  steps,        \* steps[t]: how much of child()'s loop t has run
  reported      \* the codes init has printed, in order

progvars == <<at, loop_i, frames, steps, reported>>
mvars == <<vars, progvars>>

Statements == {"fork", "nice", "loop", "exit", "wait", "ended", "failed", "none"}

MainTypeOK ==
  /\ TypeOK
  /\ at \in [Slots -> Statements]
  /\ loop_i \in [Slots -> 0 .. NumChildren]
  /\ frames \in [Slots -> Slots \X Slots]
  /\ steps \in [Slots -> 0 .. LoopSteps]
  /\ reported \in Seq(Codes)

MainInit ==
  /\ Init
  /\ at = [t \in Slots |-> IF t = InitPid THEN "fork" ELSE "none"]
  /\ loop_i = [t \in Slots |-> 0]
  /\ frames = [t \in Slots |-> <<InitPid, InitPid>>]
  /\ steps = [t \in Slots |-> 0]
  /\ reported = <<>>

-----------------------------------------------------------------------------
\* The process is over: init called exit(0) or exit(1), or it faulted.
Ended == at[InitPid] \in {"ended", "failed"} \/ pc = "crashed"

At(statement) == ~Ended /\ pc = "user" /\ at[current] = statement

\* The stack with the frame of init() that the task runs on.
Stack(t) == frames[t][1]

\* Mutant: the limits are swapped, and the walk ends at the first link.
adjstack_SwappedLimits(links, from, to) == links

\* The walk over a copied chain of saved frame pointers: each is moved from
\* one stack to the other, up to the first that does not lie in it.
adjstack(links, from, to) ==
  [k \in DOMAIN links |-> IF \A m \in 1 .. k : links[m] = from THEN to ELSE links[k]]

\* The child starts with a copy of its parent's stack, whose frame pointers are
\* relocated; in the parent the for loop goes on, and after the last fork i
\* starts anew.
ForkReturns(n) ==
  LET s == Stack(current)
  IN  /\ at' = [at EXCEPT ![n] = "nice",
                  ![current] = IF loop_i[s] + 1 < NumChildren THEN "fork" ELSE "wait"]
      /\ loop_i' = [loop_i EXCEPT ![n] = loop_i[current],
                      ![s] = IF @ + 1 < NumChildren THEN @ + 1 ELSE 0]
      /\ frames' = [frames EXCEPT ![n] = adjstack(frames[current], current, n)]

MainFork ==
  /\ At("fork")
  /\ sched_fork
  /\ \/ \E n \in Slots : state[n] = "free" /\ state'[n] = "ready" /\ ForkReturns(n)
     \/ /\ state' = state /\ pc' = "user"
        /\ at' = [at EXCEPT ![current] = "failed"]
        /\ UNCHANGED <<loop_i, frames>>
     \/ pc' = "crashed" /\ UNCHANGED <<at, loop_i, frames>>
  /\ UNCHANGED <<steps, reported>>

ChildNice ==
  /\ At("nice")
  /\ sched_nice(loop_i[Stack(current)] * 4)
  /\ at' = [at EXCEPT ![current] = "loop"]
  /\ UNCHANGED <<loop_i, frames, steps, reported>>

ChildLoop ==
  /\ At("loop")
  /\ steps' = [steps EXCEPT ![current] = @ + 1]
  /\ at' = [at EXCEPT ![current] = IF steps'[current] = LoopSteps THEN "exit" ELSE "loop"]
  /\ UNCHANGED <<vars, loop_i, frames, reported>>

ChildExit ==
  /\ At("exit")
  /\ sched_exit(current)
  /\ UNCHANGED progvars

\* Mutant: init ends one wait early.
WaitReturns_OneLess ==
  \/ /\ pc' = "sleep"
     /\ UNCHANGED progvars
  \/ \E z \in Slots :
       /\ state[z] = "zombie" /\ state'[z] = "free"
       /\ reported' = Append(reported, exit_code[z])
       /\ loop_i' = [loop_i EXCEPT ![Stack(current)] = @ + 1]
       /\ at' = [at EXCEPT ![z] = "none",
                   ![current] = IF loop_i'[Stack(current)] = NumChildren - 1 THEN "ended" ELSE "wait"]
       /\ steps' = [steps EXCEPT ![z] = 0]
       /\ UNCHANGED frames

\* Mutant: init waits once more than it forked.
WaitReturns_OneMore ==
  \/ /\ pc' = "sleep"
     /\ UNCHANGED progvars
  \/ \E z \in Slots :
       /\ state[z] = "zombie" /\ state'[z] = "free"
       /\ reported' = Append(reported, exit_code[z])
       /\ loop_i' = [loop_i EXCEPT ![Stack(current)] = @ + 1]
       /\ at' = [at EXCEPT ![z] = "none",
                   ![current] = IF loop_i'[Stack(current)] > NumChildren THEN "ended" ELSE "wait"]
       /\ steps' = [steps EXCEPT ![z] = 0]
       /\ UNCHANGED frames

\* A wait that collects a child prints its code and counts; the last one is
\* followed by exit(0).
WaitReturns ==
  \/ /\ pc' = "sleep"
     /\ UNCHANGED progvars
  \/ \E z \in Slots :
       /\ state[z] = "zombie" /\ state'[z] = "free"
       /\ reported' = Append(reported, exit_code[z])
       /\ loop_i' = [loop_i EXCEPT ![Stack(current)] = @ + 1]
       /\ at' = [at EXCEPT ![z] = "none",
                   ![current] = IF loop_i'[Stack(current)] = NumChildren THEN "ended" ELSE "wait"]
       /\ steps' = [steps EXCEPT ![z] = 0]
       /\ UNCHANGED frames

MainWait ==
  /\ At("wait")
  /\ sched_wait
  /\ WaitReturns

MainWaitAgain ==
  /\ ~Ended
  /\ WaitAgain
  /\ WaitReturns

InScheduler ==
  /\ ~Ended
  /\ ExitSwitch \/ WaitSwitch
  /\ UNCHANGED progvars

MainTick ==
  /\ ~Ended
  /\ sched_tick
  /\ UNCHANGED progvars

-----------------------------------------------------------------------------
TaskStep ==
  \/ MainFork \/ ChildNice \/ ChildLoop \/ ChildExit
  \/ MainWait \/ MainWaitAgain \/ InScheduler

MainNext == TaskStep \/ MainTick

(***************************************************************************)
(* The processor always executes the current task; nothing is assumed of   *)
(* the timer.                                                              *)
(***************************************************************************)
MainSpec == MainInit /\ [][MainNext]_mvars /\ WF_mvars(TaskStep)

-----------------------------------------------------------------------------
\* When the program ends normally init has printed the pid of each child it
\* forked, each once (main.c:43-49, 59; sched.c:206-224).
EachChildReportedOnce ==
  at[InitPid] = "ended" =>
    /\ Len(reported) = NumChildren
    /\ {reported[k] : k \in DOMAIN reported} = 2 .. NumChildren + 1

\* The program ends: whatever the ticks do, every child gets to its exit and
\* init collects them all (main.c:44-49).
ProgramEnds == <>Ended

\* A child finds the i of the iteration that forked it, on a stack of its own,
\* though init goes on with its i: the children's nice values are all different
\* (adjstack.c:16-50, sched.c:122-128, main.c:29-37).
NiceValuesDiffer ==
  \A s, t \in Slots \ {InitPid} :
    /\ at[s] \in {"loop", "exit"} /\ at[t] \in {"loop", "exit"}
    /\ niceval[s] = niceval[t]
    => s = t

\* main.c is an orderly user of the scheduler, from the first step to the last:
\* its children have no children when they exit, init does not exit by
\* sched_exit, and init waits only for children it has (main.c:22-49).
KeepsOrder == Init /\ [][Next /\ orderly']_vars

=============================================================================
