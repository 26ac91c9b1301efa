------------------------------ MODULE FifoTest ------------------------------
(***************************************************************************)
(* The two tests of ps7/fifoTest.c: one writer and one reader, and many    *)
(* writers whose reader checks that the words of each come in order.       *)
(*                                                                         *)
(* fifo.c is empty in the repository.  The FIFO here is the one fifo.h     *)
(* asks for and the tests count on: a bounded queue whose fifo_wr blocks   *)
(* when it is full and whose fifo_rd blocks when it is empty.              *)
(*                                                                         *)
(* Processes are numbered as they are born: 0 runs main, 1 is its child    *)
(* and the rest are forked by 1.                                           *)
(***************************************************************************)
EXTENDS Integers, Sequences

CONSTANTS
  N_PROC,            \* number of virtual processors of sem.h
  numWriters,        \* the writers of test2, 56 in the code
  longs_per_writer,  \* the words each writer writes
  MYFIFO_BUFSIZ,     \* the words the FIFO holds
  WriterUnit         \* 1 << 24: the unit of the writer id in a word

ASSUME FifoTestAssumption ==
  /\ numWriters \in Nat \ {0} /\ N_PROC \in Nat /\ numWriters < N_PROC
  /\ longs_per_writer \in Nat \ {0}
  /\ MYFIFO_BUFSIZ \in Nat \ {0}
  /\ WriterUnit \in Nat /\ longs_per_writer <= WriterUnit

Processes == 0 .. numWriters
Writers == 1 .. numWriters

VARIABLES
  test,         \* argv[1][0]
  queue,        \* the words in the FIFO, oldest first
  pc,           \* what each process is about
  my_procnum,   \* the id each process takes
  i,            \* the fork loop index of process 1
  j,            \* j[p]: how many words p has written or read
  trackers,     \* trackers[w]: the next word of writer w, counted from 1 here
  success,      \* the result of test1 so far
  verdict       \* what the reader has printed

vars == <<test, queue, pc, my_procnum, i, j, trackers, success, verdict>>

Words == 0 .. (numWriters + 1) * WriterUnit

FifoTypeOK ==
  /\ test \in {1, 2}
  /\ queue \in Seq(Words) /\ Len(queue) <= MYFIFO_BUFSIZ
  /\ pc \in [Processes -> {"unborn", "fork", "fork_writers", "write", "read", "ended", "failed"}]
  /\ my_procnum \in [Processes -> 0 .. N_PROC - 1]
  /\ i \in 1 .. numWriters
  /\ j \in [Processes -> 0 .. numWriters * longs_per_writer]
  /\ trackers \in [Writers -> 0 .. longs_per_writer]
  /\ success \in BOOLEAN
  /\ verdict \in {"none", "success", "failed"}

Init ==
  /\ test \in {1, 2}
  /\ queue = <<>>
  /\ pc = [p \in Processes |-> IF p = 0 THEN "fork" ELSE "unborn"]
  /\ my_procnum = [p \in Processes |-> 0]
  /\ i = 1
  /\ j = [p \in Processes |-> 0]
  /\ trackers = [w \in Writers |-> 0]
  /\ success = TRUE
  /\ verdict = "none"

-----------------------------------------------------------------------------
(***************************************************************************)
(* The FIFO of fifo.h.                                                     *)
(***************************************************************************)
fifo_wr(word) == Len(queue) < MYFIFO_BUFSIZ /\ queue' = Append(queue, word)

fifo_rd(word) == queue # <<>> /\ word = Head(queue) /\ queue' = Tail(queue)

(***************************************************************************)
(* The processes come to be.                                               *)
(***************************************************************************)
ForkFails(p) ==
  /\ pc' = [pc EXCEPT ![p] = "failed"]
  /\ UNCHANGED <<my_procnum, i>>

\* test1: the parent writes and the child reads.
ForkReader ==
  /\ test = 1
  /\ pc' = [pc EXCEPT ![0] = "write", ![1] = "read"]
  /\ my_procnum' = [my_procnum EXCEPT ![0] = 0, ![1] = 1]
  /\ UNCHANGED i

\* What process 1 does with its loop index at index.
ForkerAt(index) == IF index < numWriters THEN "fork_writers" ELSE "write"

\* Mutant: the writer that stays behind takes the id of the last one it forks.
ForkForker_LastId ==
  /\ test = 2
  /\ pc' = [pc EXCEPT ![0] = "read", ![1] = ForkerAt(1)]
  /\ my_procnum' = [my_procnum EXCEPT ![0] = 0, ![1] = numWriters - 1]
  /\ UNCHANGED i

\* test2: the parent reads, the child forks the writers and is the last one.
ForkForker ==
  /\ test = 2
  /\ pc' = [pc EXCEPT ![0] = "read", ![1] = ForkerAt(1)]
  /\ my_procnum' = [my_procnum EXCEPT ![0] = 0, ![1] = numWriters]
  /\ UNCHANGED i

Fork ==
  /\ pc[0] = "fork"
  /\ ForkReader \/ ForkForker \/ ForkFails(0)
  /\ UNCHANGED <<test, queue, j, trackers, success, verdict>>

ForkWriter ==
  /\ pc[1] = "fork_writers"
  /\ \/ /\ pc' = [pc EXCEPT ![i + 1] = "write", ![1] = ForkerAt(i + 1)]
        /\ my_procnum' = [my_procnum EXCEPT ![i + 1] = i]
        /\ i' = i + 1
     \/ ForkFails(1)
  /\ UNCHANGED <<test, queue, j, trackers, success, verdict>>

(***************************************************************************)
(* The writers.                                                            *)
(***************************************************************************)
Encode(writer, number) == number + writer * WriterUnit

\* Mutant: a writer stops one word early.
WriterAt_Early(n) == IF n < longs_per_writer - 1 THEN "write" ELSE "ended"

WriterAt(n) == IF n < longs_per_writer THEN "write" ELSE "ended"

Write(p) ==
  /\ pc[p] = "write"
  /\ fifo_wr(IF test = 1 THEN j[p] ELSE Encode(my_procnum[p], j[p]))
  /\ j' = [j EXCEPT ![p] = @ + 1]
  /\ pc' = [pc EXCEPT ![p] = WriterAt(j'[p])]
  /\ UNCHANGED <<test, my_procnum, i, trackers, success, verdict>>

(***************************************************************************)
(* The readers.                                                            *)
(***************************************************************************)
\* Mutant: the loop index is increased before the comparison.
Expected_Ahead == j[1] + 1

Expected == j[1]

\* test1: process 1 compares every word with its loop index.
Read1 ==
  /\ test = 1 /\ pc[1] = "read"
  /\ \E word \in Words : fifo_rd(word) /\ success' = (success /\ word = Expected)
  /\ j' = [j EXCEPT ![1] = @ + 1]
  /\ IF j'[1] = longs_per_writer
       THEN /\ pc' = [pc EXCEPT ![1] = "ended"]
            /\ verdict' = IF success' THEN "success" ELSE "failed"
       ELSE UNCHANGED <<pc, verdict>>
  /\ UNCHANGED <<test, my_procnum, i, trackers>>

\* test2: process 0 decodes the word, and gives up at the first one that is
\* not the next of its writer.
Read2 ==
  /\ test = 2 /\ pc[0] = "read"
  /\ \E word \in Words :
       LET writer == word \div WriterUnit
           number == word - writer * WriterUnit
       IN
       /\ fifo_rd(word)
       /\ trackers' = [trackers EXCEPT ![writer] = @ + 1]
       /\ j' = [j EXCEPT ![0] = @ + 1]
       /\ CASE trackers[writer] # number ->
                 verdict' = "failed" /\ pc' = [pc EXCEPT ![0] = "ended"]
            [] trackers[writer] = number /\ j'[0] = numWriters * longs_per_writer ->
                 verdict' = "success" /\ pc' = [pc EXCEPT ![0] = "ended"]
            [] OTHER -> UNCHANGED <<verdict, pc>>
  /\ UNCHANGED <<test, my_procnum, i, success>>

-----------------------------------------------------------------------------
Process(p) ==
  \/ p = 0 /\ (Fork \/ Read2)
  \/ p = 1 /\ (ForkWriter \/ Read1)
  \/ Write(p)

Next == \E p \in Processes : Process(p)

Spec == Init /\ [][Next]_vars

(***************************************************************************)
(* A process that can go on does.  A writer may lose any number of races   *)
(* for the room in the FIFO.                                               *)
(***************************************************************************)
FairSpec == Spec /\ \A p \in Processes : WF_vars(Process(p))

-----------------------------------------------------------------------------
\* No reader ever finds a word out of order, lost or doubled, however the
\* writers' words mix in the FIFO (fifoTest.c:81-83, 138-155).
ReaderNeverFails == success /\ verdict # "failed"

\* The processes that use the FIFO at one time have different ids, each its
\* own place in the lists of the semaphores under it (fifoTest.c:67, 78, 97,
\* 102, 128; sem.h:8).
ProcNumsDiffer ==
  \A p, q \in Processes :
    /\ pc[p] \in {"write", "read"} /\ pc[q] \in {"write", "read"}
    /\ my_procnum[p] = my_procnum[q]
    => p = q

\* Unless a fork fails, the reader gets as many words as it waits for, and
\* reports success (fifoTest.c:81-84, 138-159).
ReaderSucceeds ==
  [](\A p \in Processes : pc[p] # "failed") => <>(verdict = "success")

=============================================================================
