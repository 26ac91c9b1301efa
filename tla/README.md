# A verification development for ECE357

The repository holds eight problem sets of an operating systems course: small C
programs for Linux that copy, list and filter files, run commands, share memory
between processes, and, as the last and largest, schedule simulated tasks in one
process. This directory models the ones with logic of their own in TLA+, checks
the models with TLC on small instances and proves the central properties with
TLAPS for every instance.

All line numbers below are of the files in `src/`.

## 1. Inventory

### 1.1 Task scheduler: `ps9/sched.c`, `ps9/sched.h`

Simulated tasks share one process. `sched_init` makes the task init (pid 1, its
own parent); `sched_fork` copies the caller's stack into a new task;
`sched_exit` makes the caller a zombie and gives the processor to a parent that
sleeps; `sched_wait` collects a zombie child or sleeps; `sched_nice` sets the
nice value; `sched_switch` picks the READY task of the highest dynamic priority;
`sched_tick` is the handler of a timer signal and calls `sched_switch`.

- **State**: the table `running->procs` (pid, ppid, state, nice value, ticks,
  exit code, stack, saved context per task), `current`, `proc_count`,
  `tick_count`, and the signal mask of the process.
- **Hard**: the timer strikes wherever signals are not blocked, also between an
  unblock and the `sched_switch` after it (171-173, 219-220, 220-221). A task
  switched out there is resumed there. The wakeup of a sleeping parent goes round
  `sched_switch`. Pids are slots and are reused.
- **Correct when**: a task resumes where it left off and nowhere else; a wakeup is
  never lost; a sleeper has somebody to wake it; the counts are right; a READY
  task is never passed over for nobody; every child is collected by its parent.

### 1.2 Context switch: `ps9/savectx64.S`, `ps9/adjstack.c`, `ps9/jmpbuf-offsets64.h`

`savectx` and `restorectx` save and restore the registers; `adjstack` relocates
the chain of saved frame pointers of a copied stack. State: the saved registers
and the copied stack. Correct when a child's frame chain lies in its own stack.
**Hard**: the walk must move every link up to the first that leaves the stack,
whose end is itself the target of the last link (39).

### 1.3 Scheduler test program: `ps9/main.c`

`init` forks children, each of which sets a nice value, loops and exits with its
pid; `init` collects as many and ends the process. Correct when each child gets
its own nice value and is reported once, and the program ends.

### 1.4 Semaphore: `ps7/sem.c`, `ps7/sem.h`; test-and-set lock: `ps7/tas64.S`

A counting semaphore in memory that processes share: a spin lock (`xchgb`), the
count, and a list of the processes that wait. `sem_wait` takes a permit or
sleeps in `sigsuspend`; `sem_inc` adds one and sends SIGUSR1 to every listed
process; `sem_try` gives up where `sem_wait` would sleep.

- **Hard**: every interleaving of three processes and of the signals between
  them; signals that arrive before the handler is there, or before the sleep.
- **Correct when**: permits are neither lost nor made, the lock excludes, and a
  sleeper is woken when a permit comes.

### 1.5 Spin lock test: `ps7/tasTest.c`

A parent forks 64 children that each increment a shared int 100000 times under
the lock. Correct when the int ends as the number of increments, and all end.

### 1.6 FIFO and its tests: `ps7/fifo.h`, `ps7/fifo.c`, `ps7/fifoTest.c`

`fifo.c` is empty: there is a header, and two tests for an implementation that
is not there. test1 has one writer and one reader. test2 has 56 writers, forked
by a process that is the last writer itself, and a reader that checks that the
words of each writer come in order. Correct when the ids are distinct and the
reader accepts exactly what a right FIFO delivers.

### 1.7 catgrepmore: `ps4/main.c`

For each file, main makes two pipes and forks grep (between them) and less
(behind the second), writes the file into the first and waits for one child.
State: who holds which end of which pipe, what is in the pipes, what each
process is about. Hard: end of input and SIGPIPE depend on every close of three
processes; a `wait3` can return for a child of an earlier file; a child whose
exec fails goes on in the code of its parent; SIGINT jumps out of anything.
Correct when less shows the matches in order and nobody waits for
ever.

### 1.8 Shell: `ps3/main.c`

Reads a script line by line, splits a line into arguments and redirections,
forks, opens the redirections, execs and waits.

- **State**: what is read of the script and the offset of its file, which parent
  and children share; the standard descriptors; the heap, which the code corrupts
  when it writes its argument arrays one past their end (52-54, 66-69).
- **Hard**: a child whose exec failed reads on as a second shell; a child that
  leaves by `exit` moves the offset under its parent; prefixes among `>`, `>>`,
  `2>`, `2>>`.
- **Correct when** lines run one at a time and not more often than they should,
  each on the descriptors it asks for, and no second shell or aborted process keeps
  the shell from the end of its script.

### 1.9 Directory walker: `ps2/main.c`

Recursive listing with a filter on the owner and one on the age. State: the open
directories on the way down, the filters, what was printed. Hard: the tree
changes under the walk; entries vanish between readdir, opendir and lstat; a
readdir that fails looks like the end of its directory. Correct when each entry
that passes the filters is listed once, what is below it first, a walk that ends
well has missed none but what such a failure cut off, and the walk ends.

### 1.10 copycat: `ps1/main.c`

Concatenates its inputs to an output with a buffer of a given size. State: the
options found, the two descriptors, the buffer. Hard: short reads and writes,
calls that fail, arguments in an order the code does not expect, the output among
the inputs. Correct when the output is the inputs in order, and the copy ends.

### 1.11 Not programs with a state of their own

`ps5/main.c` makes five one-shot experiments with mappings and signals, which
show what the kernel does. `ps8` times empty loops and system calls and holds
three assembly files of a single system call each. They are not modelled.

### 1.12 How the parts interact

The problem sets are separate programs. `ps9/main.c` calls the scheduler, which
calls `savectx`/`restorectx` and `adjstack`; the timer calls `sched_tick` at any
point where signals are unblocked. `sem.c` and `tasTest.c` call `tas`; the FIFO
of `fifo.h` holds three semaphores. Processes of `ps7` interact through mapped
memory and SIGUSR1, those of `ps4` and `ps3` through pipes, files and `wait3`.

## 2. Modules

| module | models | state and actions |
|---|---|---|
| `Sched` | `sched.c` | one variable per field of the table, `current`, the counts, the mask, and `pc`, where the current task is; one action per call, and one per stretch of a call between two places where the timer can strike |
| `MCSched` | | small sets of arguments for TLC |
| `SchedMain` | `ps9/main.c` | EXTENDS `Sched`: adds the statement each task is at, its own `i`, the frame pointers on its stack (`adjstack.c`), and what was printed; each action of the program conjoins the handler of `Sched` it calls |
| `MCSchedMain` | | instance for TLC |
| `SemAbs` | `sem.h` | the abstract semaphore: P, V and try in one step each, and what they return |
| `Sem` | `sem.c`, `tas64.S` | one step per access of a shared field, with the signals under way; `Abs` is `SemAbs` with a refinement mapping |
| `MCSem` | | instance for TLC |
| `TasTest`, `MCTasTest` | `tasTest.c` | the parent's forks, and the tas, load, store and unlock of each child |
| `FifoTest`, `MCFifoTest` | `fifoTest.c` | both tests, on an external FIFO |
| `CatGrepMore`, `MCCatGrepMore` | `ps4/main.c` | main, the closes of the children, those whose exec fails, and external grep, less and user |
| `Mysh`, `MCMysh` | `ps3/main.c` | the shell, its children and the shells failed execs leave behind: one action per stretch between two calls that another process can observe |
| `Walker`, `MCWalker` | `ps2/main.c` | `listDir` as a stack of calls, `printData` and the filters, beside processes that remove entries |
| `CopyCat`, `MCCopyCat` | `ps1/main.c` | the options as operators on the arguments, the copy loop one read or write at a time |
| `SchedProofs` | | proofs: types, contexts, wakeups, ticks, selection; counts, parents and children; what holds while the tasks are orderly; then the program of `ps9/main.c` on the invariant of the scheduler: it is orderly always |
| `SemProofs` | | proofs: types, lock, list, refinement |
| `TasTestProofs` | | proofs: types, lock, final value |
| `FifoTestProofs` | | proofs: ids, the order of the words in the FIFO |
| `CatGrepMoreProofs` | | proofs: the flow of the matches, who is killed |
| `MyshProofs` | | proofs: the stack of shells, redirections, how often a line is run |
| `WalkerProofs` | | proofs: trees and paths, the stack of calls, what is printed and what is to come |
| `CopyCatProofs` | | proofs: what the options come to, the copy |

Definitions named `X_Something` beside a definition `X` are deliberate bugs of
the kind the code could have had (a dropped check, a close left out, an index off
by one). Nothing uses them; each shows that some property notices the bug. The
list is in `PROJECT.json`.

### 2.1 How `Sched` corresponds to the code

The task in slot `i` of the table has pid `i`; the code keeps pid `i` in
`procs[i - 1]`. A region that runs with all signals blocked is one action. The
gaps are values of `pc`: `sleep` (between 219 and 220: marked SLEEPING, not yet
in `sched_switch`), `woken` (between `sched_switch` and 221), `dying` (between
171 and 173), `returned` (past 173, where the code does not expect to be), `user`
(the task's own code), `crashed` (after the copy to `MAP_FAILED`, 116-123).

`ctx[i]` is the resume point in the saved context of task `i`; restoring it makes
it `"stale"`. A task resumed at a stale context would run code it had left; that
this never happens is `ContextFresh`, and not built in: a stale `pc` is outside
`TypeOK`.

`sched_switch` takes the ticks as an argument, since `sched_tick` increments
before it calls it, and the mask its caller goes on with when nobody better is
found: `sched_switch` then returns with signals blocked (304-314), which a return
from the handler undoes and a return to `sched_wait` or `sched_exit` does not.

`forker` and `orderly` are history variables, which no step of the code reads.
`forker` says who forked a task. `orderly` is true as long as no task has exited
with children it has not reaped, and init has neither exited nor called
`sched_wait` without a child: what `OnlyOwnChildren`, `NoSleepDeadlock` and
`ExitNeverReturns` need, and what tasks in general do not keep (section 6). These
three say what holds in every state up to the first such call. `KeepsOrder` shows
that the program of `ps9/main.c` never makes one.

Left out: the field `priority`, which `sched_switch` recomputes before it reads
it (277-303); the getters and `sched_ps`, which only read; `stack`, which is
never unmapped although `sched.h:83` asks for it. The records of tasks come from
`malloc` and the table is not cleared; the model starts with an empty table, as
fresh pages are zero. The exit code of a zombie is read after `free` (224); the
model reads it before. The timer is armed before its handler and `current` are
set (43-77), far longer before its first tick than `sched_init` takes; the model
starts at the call of `init_fn`.

### 2.2 How `SchedMain` corresponds to the code

`loop_i[s]` is the `i` of `init()` on stack `s` (a stack is named by its task),
and `frames[t]` says into whose stacks the frame pointers saved on the stack of
`t` lead: that of `sched_fork` to the frame of `init`, that of `init` to the top.
A fork copies both; `adjstack` then moves the links of the copy, up to the first
outside the parent's stack, and the task reads the `i` its first link leads to. In
`main.c` only init forks, so no longer chain is copied. `MainWait` and
`MainWaitAgain` are the two passes of `sched_wait` that can return to `init`. The
loop of `child()` is `LoopSteps` steps. `Ended` is the end of the process:
`exit(0)` after the last wait, `exit(1)` after a failed fork, or the fault.

### 2.3 How `Sem` corresponds to the code

`pc[p]` names the statement a process is at; every access of a field of the
shared struct is a step, `count++` and `count--` are two, also behind a test that
has just read the count. A tas on a held lock changes nothing and is a stuttering
step. `Deliver` is the arrival of SIGUSR1: it ends a process that has no handler
yet, runs the empty handler otherwise, and lets go a process in `sigsuspend`.
`signal()` has the BSD semantics of Linux (the handler stays). Signals other than
SIGUSR1, and what `sem_wait` leaves in the mask for them, are not modelled.
`MaxCount` bounds the calls of `sem_inc`. `result[p]` is what the last `sem_try`
of a process returned: `count + 1 > 0`, read after the unlock. `took` is a history
variable: whether the `sem_try` under way has taken a permit.

The refinement maps `permits` to `count` and each statement to the phase of a
call: P takes effect at the store of `count` in `sem_wait`, V at the one in
`sem_inc`, a try at its store or where it finds no permit. A process that SIGUSR1
ended maps to one that waits for ever, which safety allows. `SemAbs` comes in two
parts. `PermitsSpec` says what becomes of the permits and of the calls, and
`sem.c` implements it (`KeepsPermits`). `AbsSpec` adds what the calls return, 1
where a try took a permit and 0 where it found none, and `sem.c` does not
implement it (`ImplementsSemaphore`, run `sem_try`).

### 2.4 How `TasTest`, `FifoTest` and `CatGrepMore` correspond to the code

`TasTest`: `map[0] += 1` is a load and a store. The Makefile compiles without
optimisation, so the store of the counter comes before the one of the unlock.

`FifoTest`: `fifo_wr` and `fifo_rd` are external: a bounded queue that blocks as
`fifo.h` says. Processes are numbered as they are born; their ids are the
`my_procnum` they take. `WriterUnit` is the `1 << 24` of the encoding; decoding
is the division and the subtraction of the code. The reader's array starts at 0
in the code and at 1 in the model.

`CatGrepMore`: `holders[f][e]` is who has end `e` of the pipes of file `f` open.
Forks copy what the parent holds at that point, closes take away, exits take all
away; an end of input and a SIGPIPE follow from who is left. Blocks of the file
stand for the reads of `bufferSize` bytes. A write of a block is whole, since
`bufferSize` is 4096, no more than `PIPE_BUF`; the branch for partial writes
(176-180) is never taken. grep, less and the user are external: grep buffers its
output, less blocks until it has something to show and its user can quit only
then. SIGINT reaches all processes of the group at once.

A child of `catgrepmore` whose exec fails falls out of its `switch`. grep's
(`GrepFallsThrough`) forks a child, which has nothing left to dup and ends, and
ends itself at its first write; until then it holds its ends of the pipes. This is
so for files that are not empty (`Blocks` is not 0); for an empty one it would go
on like the next. less's returns from `pipeFile` to the loop of `main` and
processes the remaining files as a second main, with pipes of its own, while it
and its children hold the write end of the first pipe. The model keeps what it
holds (`SecondMainEnds`, `SecondMainGone`) and not what it does, which is what
the module says of fewer files.

### 2.5 How `Mysh` corresponds to the code

`at[p]` is what a process is about; the first shell is process 1, a child takes
the lowest part of the table that is free, and is forgotten when it is waited for.
A line is a sequence of arguments, an argument a word or a redirection; splitting
and counting (192-244) make the words of the line the command and as many
arguments from there on the redirections, also when words and redirections are
mixed. A word where a redirection is expected leaves `fd` and `fileNum` unset
(110, 150): `DupGarbage` has every outcome, and after a redirection before it only
`OpenFails` is left, as the old `fd` is closed.

The script is read through a FILE. `upto[p]` is how far the buffer of `p` reaches
and `offset` the offset of the file, which all processes share. glibc synchronizes
input streams in `exit`: it seeks back over what is left in the buffer. `Exits` is
such an exit, at every place the code has one; that it may leave the offset alone
stands for libraries that do not do so. The offset moves back any number of times.
`rewinds` and `forks` are history variables, which count the moves and how often
each line was forked for, and stop counting after `MaxRewinds` moves: a run that
goes on for ever has finitely many states, and `RunsAtMost` is about what was
counted. Lines have one length in the model; where they differ, the offset can
land inside a line, and what is left of the line is run as a command.

The shell is called with the name of a script. Called without (25-26) it reads
the script from descriptor 0, which the commands share and `<` replaces in a
child: that is not modelled.

`malloc` hands out room in multiples that hide one pointer too many, except for an
odd number above 2: `WritesPastEnd`. After it, each later call of the allocator
may abort. The second `free` of the same array, after a failed exec, may abort the
child or not. Left out: the times, the messages, and the copies of unflushed
output a fork makes.

### 2.6 How `Walker` corresponds to the code

`dirs` is the stack of calls of `listDir`, each with the entries its stream has
still to return; a tree gives each node the directory it is in. Entries removed
after the opendir may be returned or not. Readdir returns null at the end of a
directory and also when it fails, and the loop (61) takes the two for the same:
`CloseDir` may come at any time, and `cut` remembers the directories it came too
early in. `typed` says of a node whether readdir tells its kind: some file systems
leave `d_type` unknown, and the code then prints a directory and does not enter it
(67). `Complete` asks for nothing below the directories of these two sorts.

`userFilter` has no initial value (25): without `-u` it is null, or bytes that are
read as an argument, or no address. The argument is a number if `atoi` makes one
other than 0 of it, whether or not that is a user's, and else a name for
`getpwnam` (256-258): so `-u 0` looks for a user named 0, and a name nobody has is
read through a null pointer (`NoSuchUser`). A name that begins with a number is
taken for that number. The clock moves at any point, as `toDisplay` reads it for
each entry. Removing an entry modifies the directory it is in, which can then
pass the filter on the age, or cease to: `once` and `always` remember which nodes
passed at some time of the walk and which at all times, and the properties are
about those. Paths longer than the 512 bytes of `tempPath` end the model
(`MaxDepth`). Left out: the starting path, to which a `/` is appended in place
(52), and the layout of what is printed.

### 2.7 How `CopyCat` corresponds to the code

The arguments are a sequence of names; `IsOption` is the loop of 26-38, which takes
options anywhere and skips what follows one, and `inputFiles` drops as many
arguments from the front as options and values were found (41-48). `Contents` has
every name, empty where there is no such file. Reads return any number of bytes up
to the buffer, writes write any number, opens fail; the failed open of the output
goes unnoticed until the first write. A buffer of negative size has no meaning, and
one the stack has no room for (`StackRoom`; it is an array of the function, 76) lies
outside it: the model reads what there is, or crashes. `content["stdout"]` is what
was copied there, without the messages. The standard streams go by the names "stdin"
and "stdout", which no argument has.

## 3. Runs

| run | instance | shows |
|---|---|---|
| `sched` | 3 slots, 3 ticks, nice arguments beyond both ends, memory that may run out | `ContextFresh`, `NoLostWakeup`, `SleeperHasLiveChild`, `ProcCountExact`, `NoIdleWithReady`, `TicksDelivered` for tasks that do anything; `OnlyOwnChildren`, `NoSleepDeadlock`, `ExitNeverReturns` while they are orderly |
| `sched_main` | 4 slots, 3 children, 8 ticks, memory that may run out | the program of `ps9/main.c`: `EachChildReportedOnce`, `NiceValuesDiffer`, `ProgramEnds`, `KeepsOrder` |
| `sem` | 3 processes, initial count 1, count up to 2 | `LockExclusive`, `SleeperIsListed`, `KeepsPermits`, `SleepersAreWoken` |
| `tas_test` | 3 children, 3 increments each, forks that may fail | `LockExclusive`, `FinalValue`, `ChildrenEnd` |
| `fifo_test` | both tests, 4 writers, 3 words each, a FIFO of 3, a unit of 3, forks that may fail | `ReaderNeverFails`, `ProcNumsDiffer`, `ReaderSucceeds` |
| `catgrepmore` | 2 files of 7 blocks, pipes of 1, grep buffer of 2, every failure, execs that fail and an interrupt | `ShownInOrder`, `KilledOnlyAfterQuit`, `MainEnds`, `GrepEnds` |
| `mysh` | every script of 3 lines out of 8, 4 processes, 2 moves of the offset, every failure | `OneAtATime`, `RunsAtMost`, `RedirectsAsAsked`, `ScriptEnds` |
| `walker` | 3 trees of 6 nodes, a number, a name, a number nobody has and a name nobody has, ages on both sides of the filter, removals and failures of readdir at any point, a directory not told to be one | `ListedAsAsked`, `Complete`, `WalkEnds` |
| `copycat` | every command line of up to 4 out of 7 arguments and 7 longer ones, every failure | `CopiedInOrder`, `CopyEnds` |

The rest show where the code departs from what a header or comment says. TLC
finds each of them violated.

| run | property | what the run shows |
|---|---|---|
| `sem_try` | `ImplementsSemaphore` | `sem_try` finds no permit and returns 1 (`sem.c:31`): the count it returns `count + 1 > 0` of is never negative. `sem.h:20-22` says "If this operation would block, return 0, otherwise return 1." |
| `sem_lost_wakeup` | `NoSleeperForgotten` | SIGUSR1 between the unlock (`sem.c:58`) and `sigsuspend` (59) is lost; the process sleeps beside a permit. `sem.h:45-47` says `sem_inc` wakes it. |
| `catgrepmore_standstill` | `NoStandstill` | less closes `pipe1fds[0]`, which it does not hold, and keeps `pipe1fds[1]` (`ps4/main.c:144-145`): with few matches main, grep and less wait for one another. |

### 3.1 The bounds

- **Three slots** give init, a parent and a child, with a pid reused while an
  orphan is left; four make no new relation between tasks, and `sched_main` has
  them. **Three ticks** let the timer strike in each gap of a call that has two,
  and once more in another task; with a nice value of 19 one tick takes a priority
  from 1 to below 0, so the floor of 281 matters within the bound. A bound on the
  ticks bounds the counters and nothing else: a state without ticks left goes on.
- **Three processes** on the semaphore are one in a critical section, one whose
  call crosses it and one asleep. A count up to 2 is past 0 and 1, where the
  guards differ. `sem_try` needs no more than two processes and no permit.
- **Three increments** bring a child back to a lock that another waits for.
- The **FIFO** is smaller than what is written, so it fills and empties, and as
  large as a writer's words, so they can all be in it. The unit equals the words
  of a writer, the tightest encoding there is.
- **Two files** are enough for a `wait3` that returns for a child of the file
  before. **Seven blocks** are more than the pipes and buffers between main and
  less hold, so every process of the pipeline blocks somewhere.

- **Three lines** are a line that fails, one after it, and one that a process left
  behind or a moved offset runs again; the eight lines are one for each way through
  `executeCommand`. **Four processes** are a shell, a second one and their
  children; a fifth is a fork that fails. **Two moves of the offset** that
  are counted take it below a line that moved it; it moves on, uncounted, for ever.
- The **trees** have a directory that becomes empty, an entry of each kind, and one
  tree deeper than `MaxDepth`. Ages are such that with the one tick of the
  clock an entry can pass, cease to pass or begin to while the walk runs, and what
  is removed makes its directory as young as the tick.
- **Four arguments** place two options, or one and two inputs, in every order. The
  inputs are longer and shorter than the buffers, and empty. `MaxLen` exceeds every
  finite copy.

`CHECK_DEADLOCK FALSE` is said where the programs may stop: they end, they crash,
all processes have made their last call or sleep, or the bounds are used up. That
orderly tasks can always go on is an invariant of its own, `NoSleepDeadlock`.

### 3.2 Fairness

`MainSpec` (`sched_main`): weak fairness of the step of the current task. The
processor always executes some instruction; nothing is assumed of the timer.

`FairSpec` of `Sem`: weak fairness of the steps of each process and of the
delivery of a signal that was sent. The kernel schedules each process and
delivers signals. No fairness among those that spin on the lock, and none of the
calls a process makes. `SleepersAreWoken` is therefore only about sleepers that a
`sem_inc` finds: the one that was not yet asleep is `sem_lost_wakeup`.

`FairSpec` of `TasTest` and `FifoTest`: weak fairness of each process. A child
may lose any number of races; that it gets the lock in the end follows from the
others ending.

`FairSpec` of `CatGrepMore`: weak fairness of each process, and of the user of a
less that shows something, who reads on or quits. A second main ends because the
first one does, by induction on the files: the last one has none left. No SIGINT is
assumed. `MainEnds` is checked with matches enough to fill a buffer of grep for each
file; without them it is false, which is `catgrepmore_standstill`.

`FairSpec` of `Mysh`: weak fairness of each process; commands end. `ScriptEnds`
leaves out the runs in which the offset moves back for ever. TLC finds one when
asked for the plain `<>(at[FirstShell] = "ended")`: a script of three lines of
which the first two redirect from and to files that cannot be opened. `FairSpec` of
`Walker`: weak fairness of the walk, none of the processes beside it. `FairSpec` of
`CopyCat`: its calls return (the standard input comes to an end).

## 4. Proofs

TLAPS checks every theorem for all values of the constants under the assumptions
named in the modules (`SchedAssumption` and the like: the sizes are natural
numbers, codes differ from `NoCode`). TLC evaluates those in every run.

### 4.1 `SchedProofs`: the scheduler

`Inv == TypeOK /\ CurrentPlaced /\ OthersPlaced /\ NoLostWakeup` is inductive.
`TypeOK` alone is not: a switch takes `pc` from the context of the task it picks,
so that `pc` is a place at all rests on which contexts are fresh, and that on
where a task can be in each state. `CurrentPlaced` says which states go with
which `pc` of the current task, `OthersPlaced` at which points the others can
resume. `NoLostWakeup` needs both: when a child exits its parent is in no gap
where it has looked for zombies and not yet marked itself.

`SwitchKeeps` states what a call of `sched_switch` does to the states, and is
used for each of its three callers. Theorems: `TypeCorrect`, `ContextsAreFresh`,
`WakeupsAreNotLost`, `TicksAreDelivered` (with the ticks of a child bounded by
those of its parent) and `NoReadyTaskIsPassedOver` (from `PriorityPositive`: the
floor keeps each priority above the 0 the scan starts from).

`FamilyStep` shows that every step keeps the families of tasks or does one of
four things to them: a task is born, dies, is reaped or falls asleep. The
theorems about families have one case each. `ProcCountIsExact` counts the live
tasks; `SleepersHaveLiveChildren` needs `NoLostWakeup` (a child of a sleeper that
is no zombie is alive); `ChildrenAreOwn` is about orderly tasks, and false of
others (section 6).

`NoAllAsleep` and `ExitDoesNotReturn`, also for orderly tasks, say that not all
tasks sleep, so that the last call of `sched_exit` finds somebody to switch to.
From a sleeper one gets to a live child of it, and from a sleeping child further
down; that this ends is `Ranked`: the tasks can be numbered so that each has a
smaller number than its parent. A live task of the least number (`LeastNumber`,
from the library's order on finite sets) does not sleep. `OrderlyInv` keeps the
numbering for as long as `orderly` is true: a task that is born gets 0 and all others
move up, and a task that leaves the table has no child by then. Whether the tasks
are orderly is a variable of the scheduler, so the theorems are about every
behaviour of it, and assume of the constants what the others do.

The module EXTENDS `SchedMain` for its second part. What `SchedMainAssumption`
adds is about the codes and nice values of the program (they are among `Codes` and
`NiceArgs`); no theorem of the first part uses it.

### 4.2 `SchedProofs`: its test program

The second part of the module. `MainInv` adds to `Inv` what the program does with
the scheduler. `InitAt` and `ChildrenAt` say at which statement of the program a
task is in each state of the scheduler; a child is never in a gap of a call.
`NiceFromI` follows the `i` of `init` through the copy of the stack: the child in
slot `t` was forked at `i = t - 2` and reads that value, since both its frame
pointers lead into its own stack (`BothLinksMove`). `WhileForking` and
`WhileCollecting` say which children there are: those of the first slots while init
forks, and afterwards what is not there was reported.

- `EachReportedOnce`: from the two.
- `NiceValuesAreDifferent` assumes `NumChildren <= 6`. The sixth value is 20 and is
  clamped to 19, that of a seventh would be, too. `main.c:15` says four.
- `ProgramKeepsOrder` says that the program is an orderly user of the scheduler
  (`OrderKept`: `Spec` and `[]orderly` hold of it). Its first state is one of the
  scheduler, and each step one of the scheduler or none of it (`StepOfScheduler`).
  No step makes it disorderly (`StepKeepsOrder`, from `KeepsDiscipline`): a child
  has no children when it exits; and while init waits there is a child, as more
  were forked than reported (`SomeoneToWaitFor`, by counting).
- `ProgramNeverAllAsleep` and `ChildrenDoNotReturn` then follow from the theorems on
  orderly tasks: the program has neither the standstill nor the return from
  `sched_exit` that tasks in general can come to.

### 4.3 `SemProofs`

The lock invariant does not carry the refinement: the register of a process
between its read and its write of `count` must still equal it (`RegisterFresh`,
from the lock), who is listed must be in `sem_wait` (`Listed`), and a signal finds
no handler only at the start of a first `sem_wait` (`Handlers`). `Implementation`
is `Spec => KeepsPermits`: the initial state maps to the initial one, and
each step to the abstract call, effect or return, or to a stutter (`TookInTry`
says where in a try a permit can have been taken). What a `sem_try`
returns is not part of it, as `sem_try` returns the wrong thing.

### 4.4 `TasTestProofs`

`CounterExact` says that the shared int is the number of increments made, each
named by its child and round: a finite set that a store adds one element to, and
an unlock leaves as it is. With `LoadFresh` (what a child has loaded is still the
value, from the lock) it is inductive, and at the end the set is the product of
the children and the rounds: `NoIncrementIsLost`.

### 4.5 `FifoTestProofs`

`FifoInv` relates what is in the FIFO to the two ends. In test 1 it holds the
numbers between the place of the reader and that of the writer (`Queue1`). In test 2
(`Queue2`) the words of each writer in it are, in order (`InOrder`) and with none
missing (`NoneMissing`), those from the reader's tracker of that writer up to where the
writer is. So a word at the front has the number its tracker expects (`HeadIsNext`):
`ReaderFindsOrder`. It rests on `IdsDiffer`, as two writers of one id would
share a tracker, on the process a writer's id belongs to (`Owner`), and on `Decode`: a
word comes apart into writer and number because the number is below `WriterUnit`.

### 4.6 `CatGrepMoreProofs`

`Flow` follows one file: the blocks up to some `r` were read by grep, and the matches
among them are in three places, each with smaller numbers than the next: shown,
in the second pipe, in grep's buffer; the first pipe holds the blocks after `r`,
and `Written` relates its end to how far main is. Each step moves
something from one of these to the next (`FlowSend`, `FlowRead`, `FlowWrite`,
`FlowShow`). `MatchesShownInOrder`: what less has shown is in order, and all
matches up to the last it has shown are among it (`FlowShown`).

`KilledByQuitOnly` needs who holds which end. The other half of the invariant says
which of the processes are there at each statement of main (`Children`) and that they
have not closed the ends they use (`MainHolds`, `GrepHolds`, `LessHolds`); so when
nobody holds the end main writes to, grep has gone, and grep has gone only after less.

### 4.7 `MyshProofs`

`MyshInv` says that the processes form a stack (`Stacked`: they have different ranks,
each has the one after that of its parent, which waits, and only the one of the highest
rank goes on). `OneLineAtATime` is what is said of the top of it. A fork puts
a process on top, a wait takes one off, a failed exec changes what the top one is.

`Redirected` says of a process on its way through its arguments that each descriptor
is as the arguments so far ask, and otherwise as its parent has it:
`CommandsRunRedirected`.

`Budget` counts how often a line can still be executed. A shell comes to a line once,
and each set of lines before it that cannot be executed stands for one more shell, the
one failed execs leave behind at the lines of the set: `Ways`. What is still to
come for all processes of the stack (`ToCome`, summed up along it) and what was executed
are together no more than the readings of the script allow (`Room`). The number of sets
is a power of two, taken as the cardinality of a `SUBSET`, since one more element
doubles it (`Doubles`) by a bijection and the solvers know nothing of exponents.
`LinesRunAtMost`: a line is executed at most twice as often for each line before it
that cannot be executed, and that once for each time the script is read.

### 4.8 `WalkerProofs`

`Path(n)` is the smallest set with `n` and, of each node, the one above it. What is
needed of trees follows from that without induction: one gives a set and shows that
it is closed. `NoCycle`: if `n` were above itself, the nodes below it would be
closed and have "top" among them, of which nothing else is above. `ChildOnPath`:
what is below `d` is below an entry of `d`. What is assumed of a tree is that all is
below "top" and that only directories have entries.

`Stacked` is the shape of the recursion: each call is for the entry the one before
it has read, so the path of the innermost directory is what the calls read
(`StackPath`), and no directory is read twice at a time (`DirsDiffer`). `Pending(n)`
says that a call on the stack is to print `n`: it has read it, or has still to read
it or a directory it is in. Two invariants say what the walk does with these:
`NoneTwice`, what was printed is not pending, and `NoneMissed`, what is due was
printed or is pending: `Due` are the visible entries that passed all along and are
in no directory that was cut short or not told to be one. Each step hands what is
pending from one reason to the next; only a print (`PrintKeeps`), a failed readdir
(`CloseKeeps`) and what was removed take something off. What is removed changes
ages; `Kept` says that `once` has at least, and `always` at most, what passes now.
An entry printed was pending for one reason only (`ReadIsPendingOnce`), and what it
is in is pending still (`ReadPath`), so that it was not printed before:
`ListsWhatWasAsked`. At the end no call is left and nothing is pending:
`NothingIsMissed`.

### 4.9 `CopyCatProofs`

Two arguments, about the options and about the copy.

With the options first, `OptionsAlternate`: up to the first input each option is followed
by its value, so that what is an option is told by the parity of its place.
It is by induction (`Upwards`, from `LeastNumber`). The count of the options that
`copycat` drops from the front is then a bijection with the pairs before the first
input, and what is left are the inputs asked for: `InputsAsAsked`.

`CopySoFar` is the invariant of the copy: the output, what is in the buffer and the rest of
the open input are together the content of the inputs up to this one (`Upto`); the
standard input is read by the first `-` and empty for those after it (`StdinAfter`); the
files that are inputs stay as they are (`InputsStay`, as the output is none of
them). A write of a part of the buffer moves bytes from one to the next. With a buffer of
size 0 nothing is ever copied. What the output is to be compared with, the
flattened contents, is defined by recursion: `JoinExists` shows that there is a function
with the equations, `FlattenIsJoin` that it is the library's, and `PartsStart` that the
first parts are a prefix of the whole. `CopiesWhatWasAsked`: the output is a prefix of
what was asked for, and all of it when success is reported.

### 4.10 Only model-checked

- Every liveness property: `ProgramEnds`, `SleepersAreWoken`, `ChildrenEnd`,
  `ReaderSucceeds`, `MainEnds`, `GrepEnds`, `ScriptEnds`, `WalkEnds`, `CopyEnds`.
  The prover has no rules for `WF` and `ENABLED`.

Induction over numbers is made with `LeastNumber` where a proof needs it; the library's
induction theorems have operators as parameters, which the backends cannot instantiate.

## 5. Plan

Built, in this order: `Sched` (the largest program and the one where the order of
events matters most), `SchedMain` on it, `SemAbs` and `Sem`, the proofs of the two,
`TasTest` and its proof, `FifoTest`, `CatGrepMore`, `Mysh`, `Walker`, `CopyCat`,
`adjstack` in `SchedMain`, the failed execs in `CatGrepMore`, the proofs of orderly
tasks, of `FifoTest`, `CatGrepMore`, `Mysh`, `SchedMain`, `CopyCat` and `Walker`.
Every component with logic of its own is modelled. Every invariant that a passing
run checks is proved as that run states it, and so are `KeepsOrder` and
`KeepsPermits`; the rest, the liveness properties, are model-checked (4.10).

## 6. Known departures that no run shows

- A parent that exits and is reaped while it has a child leaves an orphan with its
  pid; a new task gets that pid, and `sched_wait` takes the orphan for its child
  (`sched.c:18-26`, 184). `sched.h:88-89` says a caller without children gets -1.
- The error returns of `sched_fork` (99, 106) and `sched_wait` (191) leave all
  signals blocked, and the task is no longer preempted; the other ways out unblock
  them (145, 226).
- A SIGUSR1 between the listing of a process (`sem.c:37`) and its first `signal()`
  (44) ends the process, maybe in its critical section.
- init is its own parent (`sched.c:66`): a `sched_wait` of init without children
  sleeps for ever where `sched.h:88-89` promises -1. It ends what `orderly`
  stands for.
- `mmap` reports failure as `MAP_FAILED`, which is not below 0 (`sched.c:67`,
  116): the model has the fault that follows (`ForkFault`).
- `sched_exit` makes the context switch to a sleeping parent itself
  (`sched.c:162-166`), whatever the priorities; `sched.h:134-139` calls
  `sched_switch` the sole place for it.
- When the last task exits, `sched_exit` returns (`sched.c:304-306`, 173) where
  `sched.h:76-77` says it will not. The model lets such a task do nothing but
  take ticks.
- `sched.h:126` names SIGABRT as the signal for `sched_ps`; no handler is
  installed.
- Once several priorities have fallen to 1 the first slot wins every scan, and
  later ones starve until it exits or sleeps.
- In `catgrepmore`, when the user quits less before main has written the file,
  SIGPIPE ends main and the files after it are not processed; `wait3` reaps one of
  the two children of a file, so that main can be at the next file, or at its end,
  while less still shows.
- In the shell, a child that cannot open a redirection leaves by `exit`, which moves
  the offset of the script it shares with its parent (section 2.5): the parent runs
  the lines behind that one again. With two such lines the seeks add up, and where
  the sum reaches back before one of them the script is run for ever. `RunsAtMost`
  counts the moves, and `ScriptEnds` leaves this case out; the comments of `main.c`
  promise nothing of the end of a script. A process the overwritten heap aborts
  (52-54) just ends, also the first shell.
- `2>>f` truncates a file named `>f`: the test for `2>` (`ps3/main.c:125`) comes
  before the one for `2>>` (137-138). `RedirectsAsAsked` is about lines without it.
- The command line of the shell is what comes first, whatever the order of words and
  redirections (61-70). A line of blanks is printed through a null pointer (73).
- copycat drops arguments from the front (`ps1/main.c:42-44`): with options behind
  the inputs it drops inputs and copies options and values, or nothing. `-o` without
  a value copies nothing, `-b` without one crashes. `-b 0` copies nothing and is
  reported as done, and so is an output that could not be opened when nothing is
  written to it. With the output among the inputs, and something before it, the copy
  grows for ever (`CopyEnds` excludes it).
- The walker reads from a null stream when a directory cannot be opened (57, 61),
  ends when an entry is gone before its `lstat` (86), uses a filter that was never
  set (25), takes a readdir that failed for the end of the directory (61) and does not
  enter directories whose kind readdir does not tell (67).
