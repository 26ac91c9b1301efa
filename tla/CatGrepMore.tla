---------------------------- MODULE CatGrepMore ----------------------------
(***************************************************************************)
(* The pipeline of ps4/main.c: for each input file main makes two pipes    *)
(* and two children, grep between the pipes and less behind the second,    *)
(* writes the file into the first and waits for one child.                 *)
(*                                                                         *)
(* A process holds the ends of a pipe it has not closed; a reader sees the *)
(* end of its input, and a writer is killed by SIGPIPE, when nobody holds  *)
(* the other end.  A read of main is a block; a block fits a pipe whole or *)
(* not at all, as bufferSize is no more than PIPE_BUF, so there are no     *)
(* partial writes.  grep and less are external: grep gathers matches in a  *)
(* buffer that it writes when it is full or its input ends; less shows     *)
(* what it reads, and its user can quit once it shows something.           *)
(*                                                                         *)
(* A child whose exec fails falls into the code of main behind its fork.   *)
(***************************************************************************)
EXTENDS Integers, Sequences

CONSTANTS
  NumFiles,     \* numInputFiles
  Blocks,       \* the reads it takes to read each file
  Matching,     \* the blocks with a line that matches the pattern
  PipeSize,     \* the blocks or buffers a pipe holds
  GrepBuffer    \* the matches grep gathers before it writes

ASSUME CatGrepMoreAssumption ==
  /\ NumFiles \in Nat \ {0} /\ Blocks \in Nat \ {0}
  /\ Matching \subseteq 1 .. Blocks
  /\ PipeSize \in Nat \ {0} /\ GrepBuffer \in Nat \ {0}

Files == 1 .. NumFiles
PipeEnds == {"pipe1fds[0]", "pipe1fds[1]", "pipe2fds[0]", "pipe2fds[1]"}

VARIABLES
  main,         \* the statement main is at, or how it ended
  i,            \* the file main is at, counted from 1
  block,        \* how many blocks of it main has read
  holders,      \* holders[f][e]: who holds end e of the pipes made for file f
  pipe1, pipe2, \* what is in the pipes made for each file
  grep,         \* what the grep of each file is about
  matches,      \* the buffer of each grep
  less,         \* what the less of each file is about
  shown         \* the matches each less has read

vars == <<main, i, block, holders, pipe1, pipe2, grep, matches, less, shown>>

MainOver == main \in {"returned", "failed", "killed", "interrupted", "undefined"}

CgmTypeOK ==
  /\ main \in {"begin", "pipes", "fork_grep", "fork_less", "open", "read", "write", "close", "wait",
               "returned", "failed", "killed", "interrupted", "undefined"}
  /\ i \in Files
  /\ block \in 0 .. Blocks
  /\ holders \in [Files -> [PipeEnds -> SUBSET {"main", "grep", "less"}]]
  /\ pipe1 \in [Files -> Seq(1 .. Blocks)]
  /\ pipe2 \in [Files -> Seq(Seq(Matching))]
  /\ \A f \in Files : Len(pipe1[f]) <= PipeSize /\ Len(pipe2[f]) <= PipeSize
  /\ grep \in [Files -> {"none", "born", "failing", "failed", "reading", "writing", "flushing",
                       "exited", "reaped"}]
  /\ matches \in [Files -> Seq(Matching)]
  /\ less \in [Files -> {"none", "born", "second main", "starting", "showing", "exited", "reaped"}]
  /\ shown \in [Files -> Seq(Matching)]

Init ==
  /\ main = "begin"
  /\ i = 1
  /\ block = 0
  /\ holders = [f \in Files |-> [e \in PipeEnds |-> {}]]
  /\ pipe1 = [f \in Files |-> <<>>]
  /\ pipe2 = [f \in Files |-> <<>>]
  /\ grep = [f \in Files |-> "none"]
  /\ matches = [f \in Files |-> <<>>]
  /\ less = [f \in Files |-> "none"]
  /\ shown = [f \in Files |-> <<>>]

-----------------------------------------------------------------------------
\* The pipe ends left when who closes closed ends of f.
Closed(f, who, ends) ==
  [holders EXCEPT ![f] = [e \in PipeEnds |-> IF e \in ends THEN @[e] \ {who} ELSE @[e]]]

\* main ends, and with it what it holds of any file.
Leave(how) ==
  /\ main' = how
  /\ holders' = [f \in Files |-> [e \in PipeEnds |-> holders[f][e] \ {"main"}]]

Goes(from, to) == main = from /\ main' = to

(***************************************************************************)
(* main and pipeFile                                                       *)
(***************************************************************************)
\* The first setjmp of pipeFile: from here SIGINT finds a frame to jump to.
SetJmp ==
  /\ Goes("begin", "pipes")
  /\ UNCHANGED <<i, block, holders, pipe1, pipe2, grep, matches, less, shown>>

Pipes ==
  /\ main = "pipes"
  /\ \/ /\ main' = "fork_grep"
        /\ holders' = [holders EXCEPT ![i] = [e \in PipeEnds |-> {"main"}]]
     \/ Leave("failed")
  /\ UNCHANGED <<i, block, pipe1, pipe2, grep, matches, less, shown>>

\* Mutant: main keeps the read end of the first pipe.
GrepInherits_ReadEndKept == [e \in PipeEnds |-> {"main", "grep"}]

\* Mutant: main closes the read end before it forks.
GrepInherits_ClosedBefore ==
  [e \in PipeEnds |-> IF e = "pipe1fds[0]" THEN {} ELSE {"main", "grep"}]

\* grep inherits the pipes; main then closes the read end of the first.
GrepInherits == [e \in PipeEnds |-> IF e = "pipe1fds[0]" THEN {"grep"} ELSE {"main", "grep"}]

ForkGrep ==
  /\ main = "fork_grep"
  /\ \/ /\ main' = "fork_less"
        /\ holders' = [holders EXCEPT ![i] = GrepInherits]
        /\ grep' = [grep EXCEPT ![i] = "born"]
     \/ Leave("failed") /\ UNCHANGED grep
  /\ UNCHANGED <<i, block, pipe1, pipe2, matches, less, shown>>

\* less inherits what main holds; main then closes the second pipe.
LessInherits ==
  [e \in PipeEnds |->
     LET held == holders[i][e] \cup (IF "main" \in holders[i][e] THEN {"less"} ELSE {})
     IN  IF e \in {"pipe2fds[0]", "pipe2fds[1]"} THEN held \ {"main"} ELSE held]

ForkLess ==
  /\ main = "fork_less"
  /\ \/ /\ main' = "open"
        /\ holders' = [holders EXCEPT ![i] = LessInherits]
        /\ less' = [less EXCEPT ![i] = "born"]
     \/ Leave("failed") /\ UNCHANGED less
  /\ UNCHANGED <<i, block, pipe1, pipe2, grep, matches, shown>>

Open ==
  /\ \/ Goes("open", "read") /\ block' = 0 /\ UNCHANGED holders
     \/ main = "open" /\ Leave("failed") /\ UNCHANGED block
  /\ UNCHANGED <<i, pipe1, pipe2, grep, matches, less, shown>>

ReadBlock ==
  /\ \/ Goes("read", "write") /\ block < Blocks /\ block' = block + 1 /\ UNCHANGED holders
     \/ Goes("read", "close") /\ block = Blocks /\ UNCHANGED <<block, holders>>
     \/ main = "read" /\ Leave("failed") /\ UNCHANGED block
  /\ UNCHANGED <<i, pipe1, pipe2, grep, matches, less, shown>>

\* Mutant: a block that was written may be written again.
WriteBlock_Again ==
  /\ main = "write"
  /\ \/ /\ holders[i]["pipe1fds[0]"] # {}
        /\ Len(pipe1[i]) < PipeSize
        /\ pipe1' = [pipe1 EXCEPT ![i] = Append(@, block)]
        /\ main' \in {"read", "write"}
        /\ UNCHANGED holders
     \/ /\ holders[i]["pipe1fds[0]"] = {}
        /\ Leave("killed")
        /\ UNCHANGED pipe1
  /\ UNCHANGED <<i, block, pipe2, grep, matches, less, shown>>

WriteBlock ==
  /\ main = "write"
  /\ \/ /\ holders[i]["pipe1fds[0]"] # {}
        /\ Len(pipe1[i]) < PipeSize
        /\ pipe1' = [pipe1 EXCEPT ![i] = Append(@, block)]
        /\ main' = "read"
        /\ UNCHANGED holders
     \/ /\ holders[i]["pipe1fds[0]"] = {}
        /\ Leave("killed")
        /\ UNCHANGED pipe1
  /\ UNCHANGED <<i, block, pipe2, grep, matches, less, shown>>

Close ==
  /\ Goes("close", "wait")
  /\ holders' = Closed(i, "main", {"pipe1fds[1]"})
  /\ UNCHANGED <<i, block, pipe1, pipe2, grep, matches, less, shown>>

\* Mutant: the loop runs one file past the last.
NextFile_PastLast ==
  \/ i <= NumFiles /\ i' = i + 1 /\ main' = "begin" /\ UNCHANGED holders
  \/ i > NumFiles /\ Leave("returned") /\ UNCHANGED i

\* pipeFile returns, and main goes on to the next file or returns.
NextFile ==
  \/ i < NumFiles /\ i' = i + 1 /\ main' = "begin" /\ UNCHANGED holders
  \/ i = NumFiles /\ Leave("returned") /\ UNCHANGED i

\* One child that has exited is reaped, of this file or of one before.
Wait ==
  /\ main = "wait"
  /\ \E f \in Files :
       \/ grep[f] \in {"exited", "failed"} /\ grep' = [grep EXCEPT ![f] = "reaped"] /\ UNCHANGED less
       \/ less[f] = "exited" /\ less' = [less EXCEPT ![f] = "reaped"] /\ UNCHANGED grep
  /\ NextFile
  /\ UNCHANGED <<block, pipe1, pipe2, matches, shown>>

(***************************************************************************)
(* The children, up to their exec.                                         *)
(***************************************************************************)
\* Mutant: grep keeps the write end of the pipe it reads.
GrepCloses_WriteEndKept == {"pipe2fds[0]"}

GrepCloses == {"pipe1fds[1]", "pipe2fds[0]"}

\* An exec that fails, or a pattern grep does not accept, leaves a grep that
\* will read nothing.
GrepExec(f) ==
  /\ grep[f] = "born"
  /\ grep' \in {[grep EXCEPT ![f] = "reading"], [grep EXCEPT ![f] = "failing"]}
  /\ holders' = Closed(f, "grep", GrepCloses)
  /\ UNCHANGED <<main, i, block, pipe1, pipe2, matches, less, shown>>

\* After a failed exec it goes on as main does after its fork of grep: it forks
\* a child, which has nothing to dup and ends, and writes the first block of
\* the file to a descriptor it has closed, which ends it.
GrepFallsThrough(f) ==
  /\ grep[f] = "failing"
  /\ grep' = [grep EXCEPT ![f] = "failed"]
  /\ holders' = Closed(f, "grep", PipeEnds)
  /\ UNCHANGED <<main, i, block, pipe1, pipe2, matches, less, shown>>

\* The close of pipe1fds[0] is of an end less never had.
LessCloses == {"pipe2fds[1]", "pipe1fds[0]"}

\* After a failed exec it returns from pipeFile: a second main, that processes
\* the files which are left.
LessExec(f) ==
  /\ less[f] = "born"
  /\ less' \in {[less EXCEPT ![f] = "starting"], [less EXCEPT ![f] = "second main"]}
  /\ holders' = Closed(f, "less", LessCloses)
  /\ UNCHANGED <<main, i, block, pipe1, pipe2, grep, matches, shown>>

\* How the second main fares is what this module says of fewer files; all that
\* the first one sees is that it ends.
SecondMainEnds(f) ==
  /\ less[f] = "second main"
  /\ less' = [less EXCEPT ![f] = "exited"]
  /\ UNCHANGED <<main, i, block, holders, pipe1, pipe2, grep, matches, shown>>

\* Its children inherited what it held, and may end after it.
SecondMainGone(f) ==
  /\ less[f] \in {"exited", "reaped"} /\ \E e \in PipeEnds : "less" \in holders[f][e]
  /\ holders' = Closed(f, "less", PipeEnds)
  /\ UNCHANGED <<main, i, block, pipe1, pipe2, grep, matches, less, shown>>

(***************************************************************************)
(* grep                                                                    *)
(***************************************************************************)
GrepRead(f) ==
  /\ grep[f] = "reading" /\ pipe1[f] # <<>>
  /\ pipe1' = [pipe1 EXCEPT ![f] = Tail(@)]
  /\ matches' = [matches EXCEPT ![f] = IF Head(pipe1[f]) \in Matching THEN Append(@, Head(pipe1[f])) ELSE @]
  /\ grep' = [grep EXCEPT ![f] = IF Len(matches'[f]) = GrepBuffer THEN "writing" ELSE @]
  /\ UNCHANGED <<main, i, block, holders, pipe2, less, shown>>

GrepExits(f) ==
  /\ grep' = [grep EXCEPT ![f] = "exited"]
  /\ holders' = Closed(f, "grep", PipeEnds)

GrepEnd(f) ==
  /\ grep[f] = "reading" /\ pipe1[f] = <<>> /\ holders[f]["pipe1fds[1]"] = {}
  /\ \/ matches[f] = <<>> /\ GrepExits(f)
     \/ matches[f] # <<>> /\ grep' = [grep EXCEPT ![f] = "flushing"] /\ UNCHANGED holders
  /\ UNCHANGED <<main, i, block, pipe1, pipe2, matches, less, shown>>

GrepWrite(f) ==
  /\ grep[f] \in {"writing", "flushing"}
  /\ holders[f]["pipe2fds[0]"] # {} /\ Len(pipe2[f]) < PipeSize
  /\ pipe2' = [pipe2 EXCEPT ![f] = Append(@, matches[f])]
  /\ matches' = [matches EXCEPT ![f] = <<>>]
  /\ \/ grep[f] = "writing" /\ grep' = [grep EXCEPT ![f] = "reading"] /\ UNCHANGED holders
     \/ grep[f] = "flushing" /\ GrepExits(f)
  /\ UNCHANGED <<main, i, block, pipe1, less, shown>>

GrepKilled(f) ==
  /\ grep[f] \in {"writing", "flushing"} /\ holders[f]["pipe2fds[0]"] = {}
  /\ GrepExits(f)
  /\ UNCHANGED <<main, i, block, pipe1, pipe2, matches, less, shown>>

(***************************************************************************)
(* less and its user                                                       *)
(***************************************************************************)
\* less reads what is there, or finds the end of its input.  (Of the greps
\* nobody interrupts only one whose exec failed ends before its less has let
\* go of pipe 1.)
LessRead(f) ==
  /\ less[f] \in {"starting", "showing"}
  /\ \/ /\ pipe2[f] # <<>>
        /\ shown' = [shown EXCEPT ![f] = @ \o Head(pipe2[f])]
        /\ pipe2' = [pipe2 EXCEPT ![f] = Tail(@)]
     \/ /\ pipe2[f] = <<>> /\ holders[f]["pipe2fds[1]"] = {}
        /\ UNCHANGED <<shown, pipe2>>
  /\ less' = [less EXCEPT ![f] = "showing"]
  /\ UNCHANGED <<main, i, block, holders, pipe1, grep, matches>>

LessQuit(f) ==
  /\ less[f] = "showing"
  /\ less' = [less EXCEPT ![f] = "exited"]
  /\ holders' = Closed(f, "less", PipeEnds)
  /\ UNCHANGED <<main, i, block, pipe1, pipe2, grep, matches, shown>>

(***************************************************************************)
(* SIGINT reaches the whole group: main and children before their exec run *)
(* int_handler, grep dies, less goes back to its user, as do those of a    *)
(* second main.  Before a setjmp of a pipeFile that has not returned the   *)
(* jump is undefined.                                                      *)
(***************************************************************************)
Interrupt ==
  /\ ~MainOver
  /\ main' = IF main = "begin" THEN "undefined" ELSE "interrupted"
  /\ grep' = [f \in Files |-> IF grep[f] \in {"none", "reaped"} THEN grep[f] ELSE "exited"]
  /\ less' = [f \in Files |-> CASE less[f] = "born" -> "exited"
                                [] less[f] = "starting" -> "showing"
                                [] OTHER -> less[f]]
  /\ holders' = [f \in Files |-> [e \in PipeEnds |->
                   {who \in holders[f][e] : who = "less" /\ less[f] # "born"}]]
  /\ UNCHANGED <<i, block, pipe1, pipe2, matches, shown>>

-----------------------------------------------------------------------------
Main == SetJmp \/ Pipes \/ ForkGrep \/ ForkLess \/ Open \/ ReadBlock \/ WriteBlock \/ Close \/ Wait
Grep(f) == GrepExec(f) \/ GrepFallsThrough(f) \/ GrepRead(f) \/ GrepEnd(f) \/ GrepWrite(f) \/ GrepKilled(f)
Less(f) == LessExec(f) \/ SecondMainEnds(f) \/ SecondMainGone(f) \/ LessRead(f) \/ LessQuit(f)

Next == Main \/ Interrupt \/ \E f \in Files : Grep(f) \/ Less(f)

Spec == Init /\ [][Next]_vars

(***************************************************************************)
(* Processes go on when they can, and the user of a less that shows        *)
(* something reads on or quits.  A second main ends as the first one does. *)
(***************************************************************************)
FairSpec == Spec /\ WF_vars(Main) /\ \A f \in Files : WF_vars(Grep(f)) /\ WF_vars(Less(f))

-----------------------------------------------------------------------------
\* What less shows is a beginning of the matches of its file, each once and in
\* order: before each match come the matches before it in the file, and no
\* others (main.c:99-105, 139, 170-182).
ShownInOrder ==
  \A f \in Files : \A k \in 1 .. Len(shown[f]) :
    /\ shown[f][k] \in Matching
    /\ \A n \in Matching : n < shown[f][k] <=> \E l \in 1 .. k - 1 : shown[f][l] = n

\* main is killed by a write only after the user quit the less of that file, or
\* its grep was never run: grep holds the read end from the fork on
\* (main.c:91-130, 171).
KilledOnlyAfterQuit ==
  main = "killed" => less[i] \in {"exited", "reaped"} \/ grep[i] = "failed"

\* With matches enough to fill a buffer of grep main does not wait, or block in
\* a write, for ever, whichever exec fails: nobody but grep holds the read end
\* main writes to (main.c:116, 126, 149, 171, 192).
MainEnds == <>MainOver

\* When main and the less of a file are gone its grep does not linger: it does
\* not wait for a write end of its own (main.c:95-96, 190).
GrepEnds ==
  \A f \in Files :
    (MainOver /\ less[f] \in {"exited", "reaped"}) ~> grep[f] \in {"none", "failed", "exited", "reaped"}

(***************************************************************************)
(* What a comment says and the code does not do.                           *)
(***************************************************************************)
\* main.c:144: the child that becomes less closes its dangling descriptor.  So
\* main in wait3, grep and less do not wait for one another.
NoStandstill ==
  main = "wait" =>
    ~ /\ grep[i] = "reading" /\ pipe1[i] = <<>> /\ holders[i]["pipe1fds[1]"] = {"less"}
      /\ less[i] = "starting" /\ pipe2[i] = <<>>

=============================================================================
