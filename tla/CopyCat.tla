------------------------------ MODULE CopyCat -------------------------------
(***************************************************************************)
(* copycat of ps1/main.c: it looks for the options -o and -b anywhere in   *)
(* its arguments, takes as inputs what is left when as many arguments are  *)
(* dropped from the front, and copies the inputs to the output one after   *)
(* the other, a buffer at a time.                                          *)
(*                                                                         *)
(* Any call can fail, a read can return less than it was asked for and a   *)
(* write can write less.                                                   *)
(***************************************************************************)
EXTENDS Integers, FiniteSets, SequencesExt

CONSTANTS
  CommandLines, \* what copycat may be called with, argv[1] on
  Atoi,         \* what atoi makes of an argument
  Contents,     \* what is in the files of all names, and in "stdin", at first
  StackRoom,    \* the largest buffer the stack has room for
  MaxLen        \* bound: the output grows no longer

Names == DOMAIN Contents

Bytes == 0 .. 255

None == "none"

\* Any argument may name a file; the standard streams go by names of their own.
ASSUME CopyCatAssumption ==
  /\ CommandLines \subseteq Seq(Names \ {"stdin", "stdout", None})
  /\ "stdin" \in Names /\ \A f \in Names : Contents[f] \in Seq(Bytes)
  /\ \A v \in DOMAIN Atoi : Atoi[v] \in Int
  /\ StackRoom \in Nat /\ MaxLen \in Nat

VARIABLES
  argv,         \* the arguments after the name of the command
  content,      \* what is in the files, "stdin" and "stdout"
  outfd,        \* the file outfd is open on; None after an open that failed
  i,            \* the input the loop is at, counted from 1
  infd,         \* the file infd is open on
  inpos,        \* inpos[f]: how much of f was read through its descriptor
  buf,          \* what was read and is not written yet
  pc

vars == <<argv, content, outfd, i, infd, inpos, buf, pc>>

Init ==
  /\ argv \in CommandLines
  /\ content = [f \in Names \cup {"stdout"} |-> IF f = "stdout" THEN <<>> ELSE Contents[f]]
  /\ outfd = None
  /\ i = 1
  /\ infd = None
  /\ inpos = [f \in Names \cup {"stdout"} |-> 0]
  /\ buf = <<>>
  /\ pc = "start"

-----------------------------------------------------------------------------
(***************************************************************************)
(* The options.                                                            *)
(***************************************************************************)
\* Where the loop finds an option; it skips what follows one.
IsOption ==
  LET found[k \in 1 .. Len(argv)] == argv[k] \in {"-o", "-b"} /\ (k > 1 => ~found[k - 1])
  IN  found

Options == {k \in DOMAIN argv : IsOption[k]}

\* The argument of the last such option; nothing follows the last argument.
Given(option, default) ==
  LET at == {k \in Options : argv[k] = option}
  IN  IF at = {} THEN default
      ELSE LET k == CHOOSE n \in at : \A m \in at : m <= n
           IN  IF k = Len(argv) THEN None ELSE argv[k + 1]

outfile == Given("-o", None)

bufferSize == IF Given("-b", "4096") \in DOMAIN Atoi THEN Atoi[Given("-b", "4096")] ELSE 0

numToRemove == 2 * Cardinality(Options)

\* The first numToRemove arguments are dropped, wherever the options are.
inputFiles ==
  IF Len(argv) = numToRemove THEN <<"-">> ELSE SubSeq(argv, numToRemove + 1, Len(argv))

(***************************************************************************)
(* The copy loop.                                                          *)
(***************************************************************************)
Ends(how) == pc' = how /\ UNCHANGED <<content, outfd, i, infd, inpos, buf>>

\* The output is opened.  An open that fails goes unnoticed; -b as the last
\* argument makes atoi read through a null pointer.
Start ==
  /\ pc = "start"
  /\ \/ /\ ~ (\E k \in Options : k = Len(argv) /\ argv[k] = "-b")
        /\ \/ /\ outfd' = IF outfile = None THEN "stdout" ELSE outfile
              /\ content' = IF outfile = None THEN content ELSE [content EXCEPT ![outfile] = <<>>]
           \/ outfile # None /\ UNCHANGED <<outfd, content>>
        /\ pc' = "open"
        /\ UNCHANGED <<i, infd, inpos, buf>>
     \/ (\E k \in Options : k = Len(argv) /\ argv[k] = "-b") /\ Ends("crashed")
  /\ UNCHANGED argv

OpenInput ==
  /\ pc = "open" /\ i <= Len(inputFiles)
  /\ \/ /\ infd' = IF inputFiles[i] = "-" THEN "stdin" ELSE inputFiles[i]
        /\ inpos' = IF inputFiles[i] = "-" THEN inpos ELSE [inpos EXCEPT ![inputFiles[i]] = 0]
        /\ pc' = "read"
        /\ UNCHANGED <<content, outfd, i, buf>>
     \/ inputFiles[i] # "-" /\ Ends("error")
  /\ UNCHANGED argv

\* Mutant: the loop goes on for as long as no read fails.
Read_NoEnd ==
  LET rest == SubSeq(content[infd], inpos[infd] + 1, Len(content[infd]))
  IN  /\ pc = "read"
      /\ \E n \in 0 .. Len(rest) :
           /\ n <= bufferSize
           /\ n = 0 => rest = <<>> \/ bufferSize = 0
           /\ buf' = SubSeq(rest, 1, n)
           /\ inpos' = [inpos EXCEPT ![infd] = @ + n]
           /\ pc' = "write"
      /\ UNCHANGED <<argv, content, outfd, i, infd>>

\* A read of no bytes ends the input; so does a buffer of no bytes.  A buffer
\* of a negative size has no meaning, and one larger than the stack lies beyond
\* it: the memory the read goes to is whatever is there.
Read ==
  LET rest == SubSeq(content[infd], inpos[infd] + 1, Len(content[infd]))
  IN  /\ pc = "read"
      /\ \/ \E n \in 1 .. Len(rest) :
              /\ bufferSize < 0 \/ n <= bufferSize
              /\ buf' = SubSeq(rest, 1, n)
              /\ inpos' = [inpos EXCEPT ![infd] = @ + n]
              /\ pc' = "write"
              /\ UNCHANGED <<content, outfd, i, infd>>
         \/ /\ bufferSize = 0 \/ rest = <<>>
            /\ i' = i + 1
            /\ pc' = "open"
            /\ UNCHANGED <<content, outfd, infd, inpos, buf>>
         \/ Ends("error")
         \/ bufferSize \notin 0 .. StackRoom /\ Ends("crashed")
      /\ UNCHANGED argv

\* Mutant: a write that wrote something is taken for one that wrote it all.
Write_Partial ==
  /\ pc = "write"
  /\ outfd # None => Len(content[outfd]) + Len(buf) <= MaxLen
  /\ \E n \in 0 .. Len(buf) :
       /\ n > 0 => outfd # None
       /\ content' = IF n = 0 THEN content ELSE [content EXCEPT ![outfd] = @ \o SubSeq(buf, 1, n)]
       /\ pc' = IF n > 0 THEN "read" ELSE "error"
  /\ buf' = <<>>
  /\ UNCHANGED <<argv, outfd, i, infd, inpos>>

\* A write that writes less than it was asked for, or nothing, is the end.
\* MaxLen cuts an output that would not stop growing.
Write ==
  /\ pc = "write"
  /\ outfd # None => Len(content[outfd]) + Len(buf) <= MaxLen
  /\ \E n \in 0 .. Len(buf) :
       /\ n > 0 => outfd # None
       /\ content' = IF n = 0 THEN content ELSE [content EXCEPT ![outfd] = @ \o SubSeq(buf, 1, n)]
       /\ pc' = IF n = Len(buf) THEN "read" ELSE "error"
  /\ buf' = <<>>
  /\ UNCHANGED <<argv, outfd, i, infd, inpos>>

\* Whether close succeeds makes no difference to the result.
Close ==
  /\ pc = "open" /\ i > Len(inputFiles)
  /\ Ends("done")
  /\ UNCHANGED argv

-----------------------------------------------------------------------------
Next == Start \/ OpenInput \/ Read \/ Write \/ Close

Spec == Init /\ [][Next]_vars

FairSpec == Spec /\ WF_vars(Next)

-----------------------------------------------------------------------------
(***************************************************************************)
(* Properties.                                                             *)
(***************************************************************************)
\* What a user who gives the options first asks to be copied: the arguments
\* that are neither options nor what an option is given, "-" for none.
IsInput(k) == ~IsOption[k] /\ (k > 1 => ~IsOption[k - 1])

Asked ==
  LET asked == FlattenSeq([k \in DOMAIN argv |-> IF IsInput(k) THEN <<argv[k]>> ELSE <<>>])
  IN  IF asked = <<>> THEN <<"-">> ELSE asked

OptionsFirst ==
  \A k \in Options : k < Len(argv) /\ \A j \in DOMAIN argv : IsInput(j) => k < j

\* What is in them, as it was at first; the standard input is read only once.
ContentOf(k) ==
  IF Asked[k] # "-" THEN Contents[Asked[k]]
  ELSE IF \E j \in 1 .. k - 1 : Asked[j] = "-" THEN <<>> ELSE Contents["stdin"]

AskedContent == FlattenSeq([k \in DOMAIN Asked |-> ContentOf(k)])

\* Whatever the reads and writes return, and however the run ends, the output
\* holds the start of what was asked for, nothing twice and nothing left out
\* (the loop of ps1/main.c:74-82); it holds all of it once copycat has come to
\* its end.  (Of copies with the options and their values first, and onto
\* none of the inputs.)
CopiedInOrder ==
  /\ pc # "start" /\ outfd # None
  /\ OptionsFirst
  /\ \A k \in DOMAIN Asked : Asked[k] # outfd
  =>
  /\ Len(content[outfd]) <= Len(AskedContent)
  /\ content[outfd] = SubSeq(AskedContent, 1, Len(content[outfd]))
  /\ pc = "done" /\ bufferSize # 0 => content[outfd] = AskedContent

\* Copycat reads what it has just written itself: the output is an input, with
\* something to copy before it.
ReadsItself ==
  \E k, j \in DOMAIN inputFiles :
    /\ j < k
    /\ inputFiles[k] = outfile
    /\ inputFiles[j] # outfile

\* Unless it reads what it writes, copycat ends, whatever its arguments and
\* whichever calls fail (ps1/main.c:63-88).
CopyEnds == (pc = "start" /\ ~ReadsItself) ~> pc \in {"done", "error", "crashed"}

=============================================================================
