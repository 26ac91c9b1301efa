-------------------------------- MODULE Mysh --------------------------------
(***************************************************************************)
(* The shell of ps3/main.c: it reads a script, and for each line forks a   *)
(* child that opens the redirections of the line and execs its command,    *)
(* and waits for it.                                                       *)
(*                                                                         *)
(* An argument is a word or one of the five forms of a redirection with    *)
(* the file it names.  The script is a file shorter than the buffer of its *)
(* FILE, with lines of one length: a read takes all the lines to come, and *)
(* a forked process has them too.  The processes share the offset of the   *)
(* file, and an exit() moves it back over the lines its process has in its *)
(* buffer, in a C library that synchronizes its input streams then.        *)
(* Commands are external: they run and end.                                *)
(*                                                                         *)
(* The script is the file of argv[1].  The shell without an argument reads *)
(* its script from descriptor 0, which its commands read as well and a     *)
(* redirection replaces: that case is not modelled.                        *)
(***************************************************************************)
EXTENDS Integers, Sequences, FiniteSets

CONSTANTS
  Scripts,      \* the scripts the shell may be given
  Programs,     \* the words that an exec finds
  MaxProcs,     \* bound: the processes there can be at a time
  MaxRewinds    \* bound: how often a move of the offset is counted

RedirectForms == {"<", ">", ">>", "2>", "2>>"}

Arguments == [form : RedirectForms \cup {"word", "#"}, name : STRING]

ASSUME MyshAssumption ==
  /\ \A s \in Scripts : s \in Seq(Seq(Arguments))
  /\ MaxProcs \in Nat \ {0} /\ MaxRewinds \in Nat

Procs == 1 .. MaxProcs
FirstShell == 1
Descriptors == 0 .. 2

\* What a descriptor is open on: one of these, or an argument of which the
\* first `skip' characters are left out, opened in some mode.
Target(mode, skip, arg) == [mode |-> mode, skip |-> skip, arg |-> arg]
NoArg == [form |-> "word", name |-> ""]
Terminal == Target("terminal", 0, NoArg)
ScriptFile == Target("script", 0, NoArg)
Closed == Target("closed", 0, NoArg)

VARIABLES
  script,       \* the lines of the script, each a sequence of arguments
  at,           \* at[p]: what process p is about
  offset,       \* the lines of the script before the offset of its file
  line,         \* line[p]: the line p has read last
  upto,         \* upto[p]: the last line in the buffer of p
  redi,         \* redi[p]: the redirection of its line p opens next
  fds,          \* fds[p]: what the standard descriptors of p are open on
  parent,       \* parent[p]: who forked p
  corrupt,      \* corrupt[p]: whether the heap of p was written past an array
  forks,        \* history: how often a child was forked for each line
  rewinds       \* history: how often the offset was moved back; the two stop
                \* counting once it has been more than MaxRewinds times

input == <<offset, line, upto, rewinds>>
vars == <<script, at, input, redi, fds, parent, corrupt, forks>>

Init ==
  /\ script \in Scripts
  /\ at = [p \in Procs |-> IF p = FirstShell THEN "opening" ELSE "none"]
  /\ offset = 0
  /\ line = [p \in Procs |-> 0]
  /\ upto = [p \in Procs |-> 0]
  /\ redi = [p \in Procs |-> 1]
  /\ fds = [p \in Procs |-> [d \in Descriptors |-> Terminal]]
  /\ parent = [p \in Procs |-> 0]
  /\ corrupt = [p \in Procs |-> FALSE]
  /\ forks = [n \in DOMAIN script |-> 0]
  /\ rewinds = 0

-----------------------------------------------------------------------------
Args(p) == script[line[p]]

IsWord(arg) == arg.form \notin RedirectForms

IsComment(args) == args # <<>> /\ args[1].form = "#"

getCommandArgCount(args) == Cardinality({k \in DOMAIN args : IsWord(args[k])})

getRedirectArgCount(args) == Len(args) - getCommandArgCount(args)

\* redirectArgs[k - 1]; the code takes for granted that the words come first.
redirectArg(args, k) == args[getCommandArgCount(args) + k]

\* The loops write n + 1 pointers to an array allocated for n, which is more
\* than malloc hands out when n is odd and above 2.
WritesPastEnd(n) == n > 2 /\ n % 2 = 1

Goes(p, from, to) == at[p] = from /\ at' = [at EXCEPT ![p] = to]

Counting == rewinds <= MaxRewinds

\* exit(1).  The seek is relative to the offset as the others left it.  Nothing
\* moves when no line is ahead, where the seek fails, as it does nearer to the
\* start or on a descriptor that is closed, and in a C library that leaves its
\* input streams alone.
Exits(p, from) ==
  /\ Goes(p, from, "ended")
  /\ \/ LET ahead == upto[p] - line[p]
        IN  /\ ahead > 0 /\ ahead <= offset
            /\ offset' = offset - ahead
            /\ rewinds' = IF Counting THEN rewinds + 1 ELSE rewinds
     \/ UNCHANGED <<offset, rewinds>>
  /\ UNCHANGED <<line, upto>>

(***************************************************************************)
(* main                                                                    *)
(***************************************************************************)
\* A script that cannot be opened is read through a null pointer.
OpenScript(p) ==
  /\ Goes(p, "opening", "reading") \/ Goes(p, "opening", "ended")
  /\ UNCHANGED <<script, input, redi, fds, parent, corrupt, forks>>

\* getline: the next line of the buffer, or of what a read returns.
NextLine(p) == IF line[p] < upto[p] THEN line[p] + 1 ELSE offset + 1

\* Mutant: a comment is not passed over, but looked at again.
ReadLine_CommentAgain(p) ==
  LET n == NextLine(p)
  IN  /\ at[p] = "reading"
      /\ IF n \in DOMAIN script
         THEN /\ line' = [line EXCEPT ![p] = IF IsComment(script[n]) THEN @ ELSE n]
              /\ upto' = IF line[p] < upto[p] THEN upto ELSE [upto EXCEPT ![p] = Len(script)]
              /\ offset' = IF line[p] < upto[p] THEN offset ELSE Len(script)
              /\ Goes(p, "reading", IF IsComment(script[n]) THEN "reading" ELSE "building")
         ELSE Goes(p, "reading", "ended") /\ UNCHANGED <<offset, line, upto>>
      /\ UNCHANGED <<script, rewinds, redi, fds, parent, corrupt, forks>>

ReadLine(p) ==
  LET n == NextLine(p)
  IN  /\ at[p] = "reading"
      /\ IF n \in DOMAIN script
         THEN /\ line' = [line EXCEPT ![p] = n]
              /\ upto' = IF line[p] < upto[p] THEN upto ELSE [upto EXCEPT ![p] = Len(script)]
              /\ offset' = IF line[p] < upto[p] THEN offset ELSE Len(script)
              /\ Goes(p, "reading", IF IsComment(script[n]) THEN "reading" ELSE "building")
         ELSE Goes(p, "reading", "ended") /\ UNCHANGED <<offset, line, upto>>
      /\ UNCHANGED <<script, rewinds, redi, fds, parent, corrupt, forks>>

(***************************************************************************)
(* executeCommand, up to the fork.  A line without arguments makes it read *)
(* through a null pointer; a realloc for the arguments may fail; malloc    *)
(* aborts, at some call, a process whose heap is corrupt.                  *)
(***************************************************************************)
Build(p) ==
  /\ at[p] = "building"
  /\ corrupt' = [corrupt EXCEPT ![p] = @ \/ WritesPastEnd(getCommandArgCount(Args(p)))
                                         \/ WritesPastEnd(getRedirectArgCount(Args(p)))]
  /\ \/ Goes(p, "building", "forking") /\ Args(p) # <<>>
     \/ Goes(p, "building", "ended") /\ (Args(p) = <<>> \/ corrupt'[p])
  /\ UNCHANGED <<script, input, redi, fds, parent, forks>>

ReallocFails(p) ==
  /\ at[p] = "building" /\ Args(p) # <<>>
  /\ Exits(p, "building")
  /\ UNCHANGED <<script, redi, fds, parent, corrupt, forks>>

\* Mutant: the parent does not wait.
ParentGoesTo_Reading == "reading"

ParentGoesTo == "waiting"

\* The child has copies of what its parent has.
Fork(p) ==
  /\ at[p] = "forking"
  /\ \/ \E child \in Procs :
          /\ at[child] = "none"
          /\ at' = [at EXCEPT ![p] = ParentGoesTo, ![child] = "redirecting"]
          /\ line' = [line EXCEPT ![child] = line[p]]
          /\ upto' = [upto EXCEPT ![child] = upto[p]]
          /\ redi' = [redi EXCEPT ![child] = 1]
          /\ fds' = [fds EXCEPT ![child] = fds[p]]
          /\ parent' = [parent EXCEPT ![child] = p]
          /\ corrupt' = [corrupt EXCEPT ![child] = corrupt[p]]
          /\ forks' = IF Counting THEN [forks EXCEPT ![line[p]] = @ + 1] ELSE forks
          /\ UNCHANGED <<offset, rewinds>>
     \/ Exits(p, "forking") /\ UNCHANGED <<redi, fds, parent, corrupt, forks>>
  /\ UNCHANGED script

(***************************************************************************)
(* executeCommand in the child                                             *)
(***************************************************************************)
\* Mutant: the second character of > is not looked at.
Redirection_OneCharacter(form) ==
  CASE form = "<" -> [fileNum |-> 0, mode |-> "read", skip |-> 1]
    [] form \in {">", ">>"} -> [fileNum |-> 1, mode |-> "truncate", skip |-> 1]
    [] form \in {"2>", "2>>"} -> [fileNum |-> 2, mode |-> "truncate", skip |-> 2]

\* The tests in their order: 2>> is taken for 2> with a name that starts
\* with a >.
Redirection(form) ==
  CASE form = "<" -> [fileNum |-> 0, mode |-> "read", skip |-> 1]
    [] form = ">" -> [fileNum |-> 1, mode |-> "truncate", skip |-> 1]
    [] form \in {"2>", "2>>"} -> [fileNum |-> 2, mode |-> "truncate", skip |-> 2]
    [] form = ">>" -> [fileNum |-> 1, mode |-> "append", skip |-> 2]

\* open takes the lowest free descriptor; if that is the one to dup to, the
\* close that follows closes it again.
OpenedOn(was, num, target) ==
  [was EXCEPT ![num] =
     IF was[num] = Closed /\ \A d \in Descriptors : d < num => was[d] # Closed THEN Closed ELSE target]

\* A word after a redirection: fd and fileNum were never set, and whatever
\* descriptors they name one is dupped to the other and closed.
DupGarbage(was) ==
  LET open == {d \in Descriptors : was[d] # Closed} \cup {3}
  IN  { [d \in Descriptors |->
           IF d = fd THEN Closed
           ELSE IF d = fileNum THEN (IF fd = 3 THEN ScriptFile ELSE was[fd]) ELSE was[d]] :
        fd \in open, fileNum \in Descriptors \cup {3} }

Redirecting(p) == at[p] = "redirecting" /\ redi[p] <= getRedirectArgCount(Args(p))

Redirect(p) ==
  /\ Redirecting(p)
  /\ redi' = [redi EXCEPT ![p] = @ + 1]
  /\ LET arg == redirectArg(Args(p), redi[p])
     IN  IF IsWord(arg)
         THEN redi[p] = 1 /\ \E got \in DupGarbage(fds[p]) : fds' = [fds EXCEPT ![p] = got]
         ELSE LET r == Redirection(arg.form)
              IN  fds' = [fds EXCEPT ![p] = OpenedOn(@, r.fileNum, Target(r.mode, r.skip, arg))]
  /\ UNCHANGED <<script, at, input, parent, corrupt, forks>>

\* Mutant: a child that cannot open a file goes on reading the script.
OpenFails_GoesOn(p) ==
  /\ Redirecting(p)
  /\ Goes(p, "redirecting", "reading")
  /\ UNCHANGED <<script, input, redi, fds, parent, corrupt, forks>>

OpenFails(p) ==
  /\ Redirecting(p)
  /\ Exits(p, "redirecting")
  /\ UNCHANGED <<script, redi, fds, parent, corrupt, forks>>

Executable(args) == args[1].form = "word" /\ args[1].name \in Programs

\* A child whose exec fails frees args twice.  Where malloc does not abort it
\* for that it goes on to the next line, a shell of its own.
Exec(p) ==
  /\ at[p] = "redirecting" /\ redi[p] > getRedirectArgCount(Args(p))
  /\ IF Executable(Args(p))
     THEN Goes(p, "redirecting", "running")
     ELSE Goes(p, "redirecting", "ended") \/ Goes(p, "redirecting", "reading")
  /\ UNCHANGED <<script, input, redi, fds, parent, corrupt, forks>>

RunCommand(p) ==
  /\ Goes(p, "running", "ended")
  /\ UNCHANGED <<script, input, redi, fds, parent, corrupt, forks>>

(***************************************************************************)
(* executeCommand in the parent                                            *)
(***************************************************************************)
Wait(p) ==
  /\ at[p] = "waiting"
  /\ \E child \in Procs :
       /\ at[child] = "ended" /\ parent[child] = p
       /\ \/ at' = [at EXCEPT ![child] = "none", ![p] = "reading"]
          \/ corrupt[p] /\ at' = [at EXCEPT ![child] = "none", ![p] = "ended"]
       /\ line' = [line EXCEPT ![child] = 0]
       /\ upto' = [upto EXCEPT ![child] = 0]
       /\ redi' = [redi EXCEPT ![child] = 1]
       /\ fds' = [fds EXCEPT ![child] = [d \in Descriptors |-> Terminal]]
       /\ parent' = [parent EXCEPT ![child] = 0]
       /\ corrupt' = [corrupt EXCEPT ![child] = FALSE]
  /\ UNCHANGED <<script, offset, rewinds, forks>>

-----------------------------------------------------------------------------
Step(p) ==
  \/ OpenScript(p) \/ ReadLine(p) \/ Build(p) \/ ReallocFails(p) \/ Fork(p)
  \/ Redirect(p) \/ OpenFails(p) \/ Exec(p) \/ RunCommand(p) \/ Wait(p)

Next == \E p \in Procs : Step(p)

Spec == Init /\ [][Next]_vars

\* Every process goes on when it can; commands end.
FairSpec == Spec /\ \A p \in Procs : WF_vars(Step(p))

-----------------------------------------------------------------------------
\* One line is executed at a time: of all processes, also those of shells that
\* failed execs left behind, at most one does not wait for a child
\* (main.c:157-166).
OneAtATime ==
  \A p, q \in Procs :
    at[p] \notin {"none", "waiting", "ended"} /\ at[q] \notin {"none", "waiting", "ended"} => p = q

\* The script is executed once, and once more from somewhere for each time the
\* offset was moved back; in each of these runs a line is executed once, and at
\* most twice as often for each line before it that cannot be executed: a child
\* leaves a second shell behind only at such a line, and one shell only
\* (main.c:31, 107, 145-159).  Counted up to the move after the MaxRewinds-th.
RunsAtMost ==
  \A n \in DOMAIN script :
    forks[n] <= (1 + rewinds) *
      2 ^ Cardinality({m \in 1 .. n - 1 :
             script[m] # <<>> /\ ~IsComment(script[m]) /\ ~Executable(script[m])})

\* What the comments of the branches ask for.
Asked(arg) ==
  CASE arg.form = "<" -> [fileNum |-> 0, target |-> Target("read", 1, arg)]
    [] arg.form = ">" -> [fileNum |-> 1, target |-> Target("truncate", 1, arg)]
    [] arg.form = ">>" -> [fileNum |-> 1, target |-> Target("append", 2, arg)]
    [] arg.form = "2>" -> [fileNum |-> 2, target |-> Target("truncate", 2, arg)]

\* A line that starts with a command, has its redirections last and no 2>>.
Plain(args) ==
  \A k \in DOMAIN args :
    /\ args[k].form # "2>>"
    /\ IsWord(args[k]) => \A m \in 1 .. k : IsWord(args[m])

\* A command of such a line, forked by a shell with none of its descriptors
\* closed, runs with each standard descriptor on the last file its line
\* redirects it to, and the others as they are in that shell (main.c:111-155).
RedirectsAsAsked ==
  \A p \in Procs :
    at[p] = "running" /\ Plain(Args(p)) /\ (\A d \in Descriptors : fds[parent[p]][d] # Closed) =>
      \A d \in Descriptors :
        LET asked == {k \in DOMAIN Args(p) : ~IsWord(Args(p)[k]) /\ Asked(Args(p)[k]).fileNum = d}
        IN  IF asked = {}
            THEN fds[p][d] = fds[parent[p]][d]
            ELSE \E k \in asked : /\ \A m \in asked : m <= k
                                  /\ fds[p][d] = Asked(Args(p)[k]).target

\* The shell gets to the end of its script, whatever fails on the way, unless
\* the exits of its children move the offset back for ever: nothing else, no
\* second shell and no aborted process, keeps it (main.c:31-39, 146, 163, 166).
ScriptEnds == <>(at[FirstShell] = "ended") \/ []<><<offset' < offset>>_vars

=============================================================================
