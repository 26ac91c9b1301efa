--------------------------- MODULE FifoTestProofs ---------------------------
(***************************************************************************)
(* Proofs about FifoTest, for every number of writers and words and every  *)
(* size of the FIFO: the reader never finds a word out of order, and the   *)
(* processes that use the FIFO have different ids.                         *)
(***************************************************************************)
EXTENDS FifoTest, SequenceTheorems, TLAPS

-----------------------------------------------------------------------------
(***************************************************************************)
(* Words.                                                                  *)
(***************************************************************************)
Numbers == 0 .. longs_per_writer - 1

\* A word can be taken apart again: the number of a word is less than the unit.
LEMMA Decode ==
  ASSUME NEW w \in Nat, NEW n \in Numbers
  PROVE  /\ Encode(w, n) \in Nat
         /\ Encode(w, n) \div WriterUnit = w
         /\ Encode(w, n) - w * WriterUnit = n
<1>1. WriterUnit \in Nat \ {0} /\ n \in Nat /\ n < WriterUnit
  BY FifoTestAssumption DEF Numbers
<1>2. w * WriterUnit \in Nat
  BY <1>1
<1>3. (n + w * WriterUnit) \div WriterUnit = w
  BY <1>1
<1>4. QED
  BY <1>1, <1>2, <1>3 DEF Encode

\* The words of the writers are among Words.
LEMMA EncodeType ==
  ASSUME NEW w \in Writers, NEW n \in Numbers
  PROVE  Encode(w, n) \in Words
<1>1. WriterUnit \in Nat /\ numWriters \in Nat /\ w \in Nat /\ n \in Nat
      /\ n < WriterUnit /\ w <= numWriters
  BY FifoTestAssumption DEF Numbers, Writers
<1>2. w * WriterUnit <= numWriters * WriterUnit
  BY <1>1
<1>3. (numWriters + 1) * WriterUnit = numWriters * WriterUnit + WriterUnit
  BY <1>1
<1>4. w * WriterUnit \in Nat /\ numWriters * WriterUnit \in Nat
  BY <1>1
<1>5. QED
  BY <1>1, <1>2, <1>3, <1>4 DEF Encode, Words

-----------------------------------------------------------------------------
(***************************************************************************)
(* The inductive invariant.                                                *)
(***************************************************************************)
\* The id a process of test2 takes, and the process a writer's id belongs to.
Id(p) == IF p = 1 THEN numWriters ELSE p - 1

Owner(w) == IF w = numWriters THEN 1 ELSE w + 1

\* Who takes part in each test, and that process 1 forks in order.
Control ==
  /\ test = 1 =>
       /\ pc[0] \in {"fork", "write", "ended", "failed"}
       /\ pc[1] \in {"unborn", "read", "ended"}
       /\ pc[0] \in {"fork", "failed"} => pc[1] = "unborn"
       /\ \A p \in Processes \ {0, 1} : pc[p] = "unborn"
  /\ test = 2 =>
       /\ pc[0] \in {"fork", "read", "ended", "failed"}
       /\ pc[1] \in {"unborn", "fork_writers", "write", "ended", "failed"}
       /\ pc[0] = "fork" => \A p \in Writers : pc[p] = "unborn"
       /\ pc[1] = "unborn" => i = 1
       /\ pc[1] = "fork_writers" => i < numWriters
       /\ \A p \in Processes \ {0, 1} :
            pc[p] \in {"unborn", "write", "ended"} /\ (p > i => pc[p] = "unborn")

\* Who has an id has its own.
Ids ==
  /\ my_procnum[0] = 0
  /\ test = 1 /\ pc[1] = "read" => my_procnum[1] = 1
  /\ test = 2 => \A p \in Writers :
       pc[p] \in {"fork_writers", "write", "ended"} => my_procnum[p] = Id(p)

\* How far each process is.
Counts ==
  /\ \A p \in Processes :
       /\ pc[p] = "write" => j[p] < longs_per_writer
       /\ pc[p] \in {"unborn", "fork", "fork_writers", "failed"} => j[p] = 0
  /\ test = 1 /\ pc[1] = "read" => j[1] < longs_per_writer
  /\ test = 2 /\ pc[0] = "read" => j[0] < numWriters * longs_per_writer

\* test1: the FIFO holds the words between the reader's and the writer's place.
Queue1 ==
  test = 1 =>
    /\ j[0] = j[1] + Len(queue)
    /\ \A k \in 1 .. Len(queue) : queue[k] = j[1] + k - 1

\* test2: the FIFO holds, of each writer and in order, the words between the
\* reader's place in its words and the writer's own.
WriterOf(word) == word \div WriterUnit

NumberOf(word) == word - WriterOf(word) * WriterUnit

Decodes ==
  \A k \in 1 .. Len(queue) :
    /\ WriterOf(queue[k]) \in Writers
    /\ NumberOf(queue[k]) \in Numbers
    /\ trackers[WriterOf(queue[k])] <= NumberOf(queue[k])
    /\ NumberOf(queue[k]) < j[Owner(WriterOf(queue[k]))]

InOrder ==
  \A k, l \in 1 .. Len(queue) :
    k < l /\ WriterOf(queue[k]) = WriterOf(queue[l])
      => NumberOf(queue[k]) < NumberOf(queue[l])

NoneMissing ==
  \A w \in Writers :
    /\ trackers[w] <= j[Owner(w)]
    /\ \A n \in Numbers :
         trackers[w] <= n /\ n < j[Owner(w)] =>
           \E k \in 1 .. Len(queue) : WriterOf(queue[k]) = w /\ NumberOf(queue[k]) = n

Queue2 == test = 2 => Decodes /\ InOrder /\ NoneMissing

FifoInv ==
  /\ FifoTypeOK /\ Control /\ Ids /\ Counts
  /\ Queue1 /\ Queue2 /\ ReaderNeverFails

\* The sizes are numbers, and all writers fit among the processes.
LEMMA Sizes ==
  /\ numWriters \in Nat \ {0} /\ longs_per_writer \in Nat \ {0} /\ WriterUnit \in Nat
  /\ N_PROC \in Nat /\ numWriters < N_PROC
  /\ numWriters * longs_per_writer \in Nat
  /\ longs_per_writer <= numWriters * longs_per_writer
  /\ 0 .. longs_per_writer \subseteq Words
<1>1. numWriters \in Nat \ {0} /\ longs_per_writer \in Nat \ {0} /\ WriterUnit \in Nat
      /\ N_PROC \in Nat /\ numWriters < N_PROC /\ longs_per_writer <= WriterUnit
  BY FifoTestAssumption
<1>2. numWriters * longs_per_writer \in Nat
      /\ longs_per_writer <= numWriters * longs_per_writer
  BY <1>1
<1>3. (numWriters + 1) * WriterUnit \in Nat /\ WriterUnit <= (numWriters + 1) * WriterUnit
  BY <1>1
<1>4. QED
  BY <1>1, <1>2, <1>3 DEF Words

\* Ids and processes correspond.
LEMMA Owners ==
  /\ \A p \in Writers : Id(p) \in Writers /\ Owner(Id(p)) = p
  /\ \A w \in Writers : Owner(w) \in Writers /\ Id(Owner(w)) = w
  BY Sizes DEF Writers, Id, Owner

\* Before a test there is one process and the FIFO is empty.
LEMMA FifoInit == Init => FifoInv
<1> SUFFICES ASSUME Init PROVE FifoInv
  OBVIOUS
<1>1. FifoTypeOK
  BY Sizes, FifoTestAssumption DEF Init, FifoTypeOK, Processes, Writers
<1>2. Control
  BY Sizes DEF Init, Control, Processes, Writers
<1>3. Ids /\ Counts
  BY Sizes DEF Init, Ids, Counts, Processes, Writers
<1>4. Queue1
  BY Sizes DEF Init, Queue1, Processes
<1>5. Queue2
  <2>1. \A w \in Writers : Owner(w) \in Processes /\ trackers[w] = 0
    BY Owners DEF Init, Processes, Writers
  <2>2. \A w \in Writers : j[Owner(w)] = 0
    BY <2>1 DEF Init
  <2>3. NoneMissing
    BY <2>1, <2>2 DEF NoneMissing, Numbers
  <2>4. Decodes /\ InOrder
    BY DEF Init, Decodes, InOrder
  <2>5. QED
    BY <2>3, <2>4 DEF Queue2
<1>6. QED
  BY <1>1, <1>2, <1>3, <1>4, <1>5 DEF FifoInv, ReaderNeverFails, Init

\* What a fork leaves as it was.
LEMMA QueueUnchanged ==
  ASSUME FifoInv, UNCHANGED <<test, queue, j, trackers, success, verdict>>
  PROVE  Queue1' /\ Queue2' /\ ReaderNeverFails'
  BY DEF FifoInv, Queue1, Queue2, Decodes, InOrder, NoneMissing, ReaderNeverFails

\* The first fork, of the other process of a test, keeps the invariant.
LEMMA ForkKeeps == ASSUME FifoInv, Fork PROVE FifoInv'
<1> USE Sizes
<1>q. Queue1' /\ Queue2' /\ ReaderNeverFails'
  BY QueueUnchanged DEF Fork
<1>p. 0 \in Processes /\ 1 \in Processes /\ 1 \in Writers /\ 0 \notin Writers
  BY DEF Processes, Writers
<1>1. FifoTypeOK'
  <2>1. pc' \in [Processes -> {"unborn", "fork", "fork_writers", "write", "read", "ended", "failed"}]
    BY DEF FifoInv, FifoTypeOK, Fork, ForkReader, ForkForker, ForkFails, ForkerAt
  <2>2. my_procnum' \in [Processes -> 0 .. N_PROC - 1] /\ i' = i
    <3>1. 0 \in 0 .. N_PROC - 1 /\ 1 \in 0 .. N_PROC - 1 /\ numWriters \in 0 .. N_PROC - 1
      OBVIOUS
    <3>2. QED
      BY <3>1 DEF FifoInv, FifoTypeOK, Fork, ForkReader, ForkForker, ForkFails
  <2>3. QED
    BY <2>1, <2>2 DEF FifoInv, FifoTypeOK, Fork
<1>2. Control'
  <2>1. CASE ForkReader
    BY <1>p, <2>1 DEF FifoInv, FifoTypeOK, Control, Fork, ForkReader
  <2>2. CASE ForkForker
    <3>1. pc'[0] = "read" /\ pc'[1] = ForkerAt(1)
      BY <1>p, <2>2 DEF FifoInv, FifoTypeOK, ForkForker
    <3>2. \A p \in Processes \ {0, 1} : pc'[p] = "unborn"
      BY <1>p, <2>2 DEF FifoInv, FifoTypeOK, Control, Fork, ForkForker, Writers, Processes
    <3>3. test' = 2 /\ i' = 1
      BY <2>2 DEF FifoInv, Control, Fork, ForkForker, Writers
    <3>4. pc'[1] \in {"fork_writers", "write"} /\ (pc'[1] = "fork_writers" => 1 < numWriters)
      BY <3>1 DEF ForkerAt
    <3>5. QED
      BY <3>1, <3>2, <3>3, <3>4 DEF Control
  <2>3. CASE ForkFails(0)
    BY <1>p, <2>3 DEF FifoInv, FifoTypeOK, Control, Fork, ForkFails
  <2>4. QED
    BY <2>1, <2>2, <2>3 DEF Fork
<1>3. Ids'
  <2>1. CASE ForkReader
    BY <1>p, <2>1 DEF FifoInv, FifoTypeOK, Ids, Fork, ForkReader
  <2>2. CASE ForkForker
    <3>1. \A p \in Writers \ {1} : pc'[p] = "unborn"
      BY <1>p, <2>2 DEF FifoInv, FifoTypeOK, Control, Fork, ForkForker, Writers, Processes
    <3>2. my_procnum'[0] = 0 /\ my_procnum'[1] = numWriters
      BY <1>p, <2>2 DEF FifoInv, FifoTypeOK, ForkForker
    <3>3. test' = 2
      BY <2>2 DEF Fork, ForkForker
    <3>4. QED
      BY <3>1, <3>2, <3>3 DEF Ids, Id
  <2>3. CASE ForkFails(0)
    BY <1>p, <2>3 DEF FifoInv, FifoTypeOK, Ids, Fork, ForkFails, Writers, Processes
  <2>4. QED
    BY <2>1, <2>2, <2>3 DEF Fork
<1>4. Counts'
  <2>1. \A p \in Processes : pc'[p] # pc[p] => j[p] = 0
    BY <1>p DEF FifoInv, FifoTypeOK, Control, Counts, Fork, ForkReader, ForkForker, ForkFails, Writers
  <2>2. (j' = j /\ j[0] = 0 /\ j[1] = 0) \/ (test = 1 /\ j' = j)
    BY <1>p DEF FifoInv, FifoTypeOK, Control, Counts, Fork, Writers
  <2>3. QED
    BY <1>p, <2>1, <2>2 DEF FifoInv, Counts, FifoTypeOK, Fork, Control
<1>5. QED
  BY <1>q, <1>1, <1>2, <1>3, <1>4 DEF FifoInv

\* The fork of a writer of test2 keeps it: writers are forked in order.
LEMMA ForkWriterKeeps == ASSUME FifoInv, ForkWriter PROVE FifoInv'
<1> USE Sizes
<1>q. Queue1' /\ Queue2' /\ ReaderNeverFails'
  BY QueueUnchanged DEF ForkWriter
<1>p. /\ 0 \in Processes /\ 1 \in Processes /\ 1 \in Writers /\ 0 \notin Writers
      /\ Writers \subseteq Processes
  BY DEF Processes, Writers
<1>t. test = 2 /\ test' = 2 /\ i < numWriters /\ i \in Nat \ {0} /\ i + 1 \in Processes
      /\ pc[i + 1] = "unborn" /\ pc[0] # "fork"
  BY <1>p DEF FifoInv, FifoTypeOK, Control, ForkWriter, Processes, Writers
<1>1. CASE ForkFails(1)
  BY <1>p, <1>q, <1>t, <1>1
  DEF FifoInv, FifoTypeOK, Control, Ids, Counts, ForkWriter, ForkFails
<1>2. CASE
    /\ pc' = [pc EXCEPT ![i + 1] = "write", ![1] = ForkerAt(i + 1)]
    /\ my_procnum' = [my_procnum EXCEPT ![i + 1] = i]
    /\ i' = i + 1
  <2>p. /\ pc'[1] = ForkerAt(i + 1) /\ pc'[i + 1] = "write"
        /\ \A p \in Processes \ {1, i + 1} : pc'[p] = pc[p]
        /\ my_procnum'[i + 1] = i
        /\ \A p \in Processes \ {i + 1} : my_procnum'[p] = my_procnum[p]
    BY <1>p, <1>t, <1>2 DEF FifoInv, FifoTypeOK
  <2>1. FifoTypeOK'
    <3>1. pc' \in [Processes -> {"unborn", "fork", "fork_writers", "write", "read", "ended", "failed"}]
      BY <1>2 DEF FifoInv, FifoTypeOK, ForkerAt
    <3>2. my_procnum' \in [Processes -> 0 .. N_PROC - 1] /\ i' \in 1 .. numWriters
      <4>1. i \in 0 .. N_PROC - 1 /\ i + 1 \in 1 .. numWriters
        BY <1>t
      <4>2. QED
        BY <1>2, <4>1 DEF FifoInv, FifoTypeOK
    <3>3. QED
      BY <3>1, <3>2 DEF FifoInv, FifoTypeOK, ForkWriter
  <2>2. Control'
    <3>1. pc'[1] \in {"fork_writers", "write"} /\ (pc'[1] = "fork_writers" => i' < numWriters)
      BY <2>p, <1>2 DEF ForkerAt
    <3>2. ASSUME NEW p \in Processes \ {0, 1}
          PROVE  pc'[p] \in {"unborn", "write", "ended"} /\ (p > i' => pc'[p] = "unborn")
      <4>1. p \in Nat
        BY DEF Processes
      <4>2. pc[p] \in {"unborn", "write", "ended"} /\ (p > i => pc[p] = "unborn")
        BY <1>t DEF FifoInv, Control
      <4>3. CASE p = i + 1
        <5>1. pc'[p] = "write" /\ ~(p > i')
          BY <1>2, <1>t, <2>p, <4>3
        <5>2. QED
          BY <5>1
      <4>4. CASE p # i + 1
        <5>1. pc'[p] = pc[p]
          BY <2>p, <4>4
        <5>2. p > i' => p > i
          BY <1>2, <1>t, <4>1
        <5>3. QED
          BY <4>2, <5>1, <5>2
      <4>5. QED
        BY <4>3, <4>4
    <3>3. pc'[0] = pc[0]
      BY <1>p, <1>t, <2>p
    <3>4. QED
      BY <1>t, <3>1, <3>2, <3>3 DEF FifoInv, Control
  <2>3. Ids'
    <3>1. ASSUME NEW p \in Writers, pc'[p] \in {"fork_writers", "write", "ended"}
          PROVE  my_procnum'[p] = Id(p)
      <4>1. CASE p = i + 1
        BY <1>t, <2>p, <4>1 DEF Id
      <4>2. CASE p # i + 1
        <5>1. pc[p] \in {"fork_writers", "write", "ended"} /\ my_procnum'[p] = my_procnum[p]
          BY <1>p, <2>p, <3>1, <4>2 DEF ForkWriter
        <5>2. QED
          BY <1>t, <5>1 DEF FifoInv, Ids
      <4>3. QED
        BY <4>1, <4>2
    <3>2. my_procnum'[0] = 0
      BY <1>p, <1>t, <2>p DEF FifoInv, Ids
    <3>3. QED
      BY <1>t, <3>1, <3>2 DEF Ids
  <2>4. Counts'
    BY <1>p, <1>t, <1>2 DEF FifoInv, FifoTypeOK, Counts, ForkWriter, ForkerAt
  <2>5. QED
    BY <1>q, <2>1, <2>2, <2>3, <2>4 DEF FifoInv
<1>3. QED
  BY <1>1, <1>2 DEF ForkWriter

\* A writer of test2 appends the next of its words, and moves on to the one after.
LEMMA AppendKeepsOrder ==
  ASSUME FifoTypeOK, Queue2, test = 2, test' = 2, trackers' = trackers,
         NEW p \in Writers, j[p] < longs_per_writer,
         queue' = Append(queue, Encode(Id(p), j[p])),
         j' = [j EXCEPT ![p] = @ + 1]
  PROVE  Queue2'
<1> DEFINE w == Id(p)
           word == Encode(w, j[p])
<1>1. w \in Writers /\ Owner(w) = p /\ w \in Nat
  BY Owners, Sizes DEF Writers
<1>2. j[p] \in Numbers /\ j[p] \in Nat
  <2>1. 0 .. numWriters * longs_per_writer \subseteq Nat /\ p \in Processes
    BY Sizes DEF Processes, Writers
  <2>2. j[p] \in Nat
    BY <2>1 DEF FifoTypeOK
  <2>3. QED
    BY <2>2, Sizes DEF Numbers
<1>3. WriterOf(word) = w /\ NumberOf(word) = j[p] /\ word \in Words
  BY <1>1, <1>2, Decode, EncodeType DEF WriterOf, NumberOf
<1>4. /\ Len(queue) \in Nat /\ Len(queue') = Len(queue) + 1 /\ queue'[Len(queue) + 1] = word
      /\ \A k \in 1 .. Len(queue) : queue'[k] = queue[k]
  BY <1>3 DEF FifoTypeOK
<1>5. \A v \in Writers : /\ Owner(v) \in Processes /\ j[Owner(v)] \in Nat
                         /\ j'[Owner(v)] = IF v = w THEN j[p] + 1 ELSE j[Owner(v)]
  <2> SUFFICES ASSUME NEW v \in Writers
               PROVE  /\ Owner(v) \in Processes /\ j[Owner(v)] \in Nat
                      /\ j'[Owner(v)] = IF v = w THEN j[p] + 1 ELSE j[Owner(v)]
    OBVIOUS
  <2>1. Owner(v) \in Processes /\ (Owner(v) = p <=> v = w)
    <3>1. Owner(v) \in Writers /\ Id(Owner(v)) = v
      BY Owners
    <3>2. Owner(v) \in Processes
      BY <3>1 DEF Writers, Processes
    <3>3. Owner(v) = p => v = w
      BY <3>1
    <3>4. v = w => Owner(v) = p
      BY <1>1
    <3>5. QED
      BY <3>2, <3>3, <3>4
  <2>2. j \in [Processes -> Nat]
    BY Sizes DEF FifoTypeOK
  <2>3. QED
    BY <2>1, <2>2
<1>6. trackers \in [Writers -> Nat]
  BY Sizes DEF FifoTypeOK
<1> HIDE DEF w, word
<1>7. Decodes'
  <2> SUFFICES ASSUME NEW k \in 1 .. Len(queue')
               PROVE  /\ WriterOf(queue'[k]) \in Writers
                      /\ NumberOf(queue'[k]) \in Numbers
                      /\ trackers[WriterOf(queue'[k])] <= NumberOf(queue'[k])
                      /\ NumberOf(queue'[k]) < j'[Owner(WriterOf(queue'[k]))]
    BY DEF Decodes, WriterOf, NumberOf
  <2>1. CASE k = Len(queue) + 1
    <3>1. trackers[w] <= j[p] /\ j'[Owner(w)] = j[p] + 1
      BY <1>1, <1>5 DEF Queue2, NoneMissing
    <3>2. QED
      BY <1>1, <1>2, <1>3, <1>4, <2>1, <3>1
  <2>2. CASE k # Len(queue) + 1
    <3>1. k \in 1 .. Len(queue) /\ queue'[k] = queue[k]
      BY <1>4, <2>2
    <3>2. NumberOf(queue[k]) \in Nat
      BY <3>1, Sizes DEF Queue2, Decodes, Numbers
    <3>3. NumberOf(queue[k]) < j'[Owner(WriterOf(queue[k]))]
      BY <1>1, <1>2, <1>5, <3>1, <3>2 DEF Queue2, Decodes
    <3>4. QED
      BY <3>1, <3>3 DEF Queue2, Decodes
  <2>3. QED
    BY <2>1, <2>2
<1>8. InOrder'
  <2> SUFFICES ASSUME NEW k \in 1 .. Len(queue'), NEW l \in 1 .. Len(queue'),
                      k < l, WriterOf(queue'[k]) = WriterOf(queue'[l])
               PROVE  NumberOf(queue'[k]) < NumberOf(queue'[l])
    BY DEF InOrder, WriterOf, NumberOf
  <2>1. k \in 1 .. Len(queue) /\ queue'[k] = queue[k]
    BY <1>4
  <2>2. CASE l = Len(queue) + 1
    BY <1>1, <1>3, <1>4, <2>1, <2>2 DEF Queue2, Decodes
  <2>3. CASE l # Len(queue) + 1
    <3>1. l \in 1 .. Len(queue) /\ queue'[l] = queue[l]
      BY <1>4, <2>3
    <3>2. QED
      BY <2>1, <3>1 DEF Queue2, InOrder
  <2>4. QED
    BY <2>2, <2>3
<1>9. NoneMissing'
  <2> SUFFICES ASSUME NEW v \in Writers
               PROVE  /\ trackers[v] <= j'[Owner(v)]
                      /\ \A n \in Numbers :
                           trackers[v] <= n /\ n < j'[Owner(v)] =>
                             \E k \in 1 .. Len(queue') :
                               WriterOf(queue'[k]) = v /\ NumberOf(queue'[k]) = n
    BY DEF NoneMissing, WriterOf, NumberOf
  <2>1. trackers[v] <= j'[Owner(v)]
    BY <1>1, <1>2, <1>5, <1>6 DEF Queue2, NoneMissing
  <2>2. ASSUME NEW n \in Numbers, trackers[v] <= n, n < j'[Owner(v)]
        PROVE  \E k \in 1 .. Len(queue') :
                 WriterOf(queue'[k]) = v /\ NumberOf(queue'[k]) = n
    <3>0. n \in Nat
      BY Sizes DEF Numbers
    <3>1. CASE v = w /\ n = j[p]
      BY <1>3, <1>4, <3>1
    <3>2. CASE ~(v = w /\ n = j[p])
      <4>1. n < j[Owner(v)]
        BY <1>1, <1>2, <1>5, <2>2, <3>0, <3>2
      <4>2. PICK k \in 1 .. Len(queue) : WriterOf(queue[k]) = v /\ NumberOf(queue[k]) = n
        BY <2>2, <4>1 DEF Queue2, NoneMissing
      <4>3. QED
        BY <1>4, <4>2
    <3>3. QED
      BY <3>1, <3>2
  <2>3. QED
    BY <2>1, <2>2
<1>10. QED
  BY <1>7, <1>8, <1>9 DEF Queue2

\* A write keeps it: each writer writes its words in order.
LEMMA WriteKeeps == ASSUME FifoInv, NEW p \in Processes, Write(p) PROVE FifoInv'
<1> USE Sizes
<1>p. /\ 0 \in Processes /\ 1 \in Processes /\ 1 \in Writers /\ 0 \notin Writers
      /\ Writers \subseteq Processes /\ \A q \in Processes \ Writers : q = 0
  BY DEF Processes, Writers
<1>1. /\ pc[p] = "write" /\ j[p] < longs_per_writer
      /\ j[p] \in 0 .. numWriters * longs_per_writer /\ j[p] \in Nat
      /\ test = 1 => p = 0
      /\ test = 2 => p \in Writers
  BY <1>p DEF FifoInv, FifoTypeOK, Control, Counts, Write
<1>2. /\ \A q \in Processes : j'[q] = IF q = p THEN j[p] + 1 ELSE j[q]
      /\ \A q \in Processes : pc'[q] = IF q = p THEN WriterAt(j[p] + 1) ELSE pc[q]
      /\ WriterAt(j[p] + 1) \in {"write", "ended"}
      /\ WriterAt(j[p] + 1) = "write" => j[p] + 1 < longs_per_writer
      /\ UNCHANGED <<test, my_procnum, i, trackers, success, verdict>>
  BY DEF FifoInv, FifoTypeOK, Write, WriterAt
<1>w. (IF test = 1 THEN j[p] ELSE Encode(my_procnum[p], j[p])) \in Words
  <2>1. CASE test = 1
    BY <1>1, <2>1
  <2>2. CASE test = 2
    <3>1. my_procnum[p] \in Writers
      BY <1>1, <2>2, Owners DEF FifoInv, Ids
    <3>2. j[p] \in Numbers
      BY <1>1 DEF Numbers
    <3>3. QED
      BY <2>2, <3>1, <3>2, EncodeType
  <2>3. QED
    BY <2>1, <2>2 DEF FifoInv, FifoTypeOK
<1>3. FifoTypeOK'
  <2>1. queue' \in Seq(Words) /\ Len(queue') <= MYFIFO_BUFSIZ
    <3>1. Len(queue) \in Nat /\ Len(queue') = Len(queue) + 1
      BY <1>w DEF FifoInv, FifoTypeOK, Write, fifo_wr
    <3>2. Len(queue) < MYFIFO_BUFSIZ /\ MYFIFO_BUFSIZ \in Nat
      BY FifoTestAssumption DEF Write, fifo_wr
    <3>3. QED
      BY <1>w, <3>1, <3>2 DEF FifoInv, FifoTypeOK, Write, fifo_wr
  <2>2. j' \in [Processes -> 0 .. numWriters * longs_per_writer]
    <3>1. j[p] + 1 \in 0 .. numWriters * longs_per_writer
      BY <1>1
    <3>2. QED
      BY <3>1 DEF FifoInv, FifoTypeOK, Write
  <2>3. pc' \in [Processes -> {"unborn", "fork", "fork_writers", "write", "read", "ended", "failed"}]
    BY DEF FifoInv, FifoTypeOK, Write, WriterAt
  <2>4. QED
    BY <1>2, <2>1, <2>2, <2>3 DEF FifoInv, FifoTypeOK
<1>4. Control'
  BY <1>p, <1>1, <1>2 DEF FifoInv, Control
<1>5. Ids'
  BY <1>p, <1>1, <1>2 DEF FifoInv, Ids
<1>6. Counts'
  BY <1>p, <1>1, <1>2 DEF FifoInv, Control, Counts
<1>7. Queue1'
  <2> SUFFICES ASSUME test = 1
               PROVE  /\ j'[0] = j'[1] + Len(queue')
                      /\ \A k \in 1 .. Len(queue') : queue'[k] = j'[1] + k - 1
    BY <1>2 DEF Queue1
  <2>1. p = 0 /\ j'[0] = j[0] + 1 /\ j'[1] = j[1] /\ j[1] \in Nat
    BY <1>p, <1>1, <1>2 DEF FifoInv, FifoTypeOK
  <2>2. /\ Len(queue) \in Nat /\ Len(queue') = Len(queue) + 1
        /\ queue'[Len(queue) + 1] = j[0]
        /\ \A k \in 1 .. Len(queue) : queue'[k] = queue[k]
    BY <1>w, <2>1 DEF FifoInv, FifoTypeOK, Write, fifo_wr
  <2>3. j[0] = j[1] + Len(queue) /\ \A k \in 1 .. Len(queue) : queue[k] = j[1] + k - 1
    BY DEF FifoInv, Queue1
  <2>4. j'[0] = j'[1] + Len(queue')
    <3>1. Len(queue') = Len(queue) + 1 /\ Len(queue) \in Nat
      BY <2>2
    <3>2. j[0] = j[1] + Len(queue) /\ j'[0] = j[0] + 1 /\ j'[1] = j[1] /\ j[1] \in Nat
      BY <2>1, <2>3
    <3>3. j'[0] = j[1] + Len(queue) + 1
      BY <3>2
    <3>4. j[1] + Len(queue) + 1 = j[1] + (Len(queue) + 1)
      BY <3>1, <3>2
    <3>5. QED
      BY <3>1, <3>2, <3>3, <3>4
  <2>5. ASSUME NEW k \in 1 .. Len(queue') PROVE queue'[k] = j'[1] + k - 1
    <3>1. CASE k = Len(queue) + 1
      BY <2>1, <2>2, <2>3, <3>1
    <3>2. CASE k # Len(queue) + 1
      <4>1. k \in 1 .. Len(queue)
        BY <2>2, <3>2
      <4>2. QED
        BY <2>1, <2>2, <2>3, <4>1
    <3>3. QED
      BY <3>1, <3>2
  <2>6. QED
    BY <2>4, <2>5
<1>8. Queue2'
  <2>1. CASE test = 1
    BY <1>2, <2>1 DEF Queue2
  <2>2. CASE test = 2
    <3>1. my_procnum[p] = Id(p)
      BY <1>1, <2>2 DEF FifoInv, Ids
    <3>2. queue' = Append(queue, Encode(Id(p), j[p])) /\ j' = [j EXCEPT ![p] = @ + 1]
      BY <2>2, <3>1 DEF Write, fifo_wr
    <3>3. QED
      BY <1>1, <1>2, <2>2, <3>2, AppendKeepsOrder DEF FifoInv
  <2>3. QED
    BY <2>1, <2>2 DEF FifoInv, FifoTypeOK
<1>9. QED
  BY <1>2, <1>3, <1>4, <1>5, <1>6, <1>7, <1>8 DEF FifoInv, ReaderNeverFails

\* The reader of test1 takes the word it expects.
LEMMA Read1Keeps == ASSUME FifoInv, Read1 PROVE FifoInv'
<1> USE Sizes
<1>p. 0 \in Processes /\ 1 \in Processes
  BY DEF Processes
<1>1. /\ test = 1 /\ pc[1] = "read" /\ j[1] < longs_per_writer /\ j[1] \in Nat
      /\ j[1] + 1 \in 0 .. numWriters * longs_per_writer
  <2>1. pc[1] = "read" /\ test = 1
    BY DEF Read1
  <2>2. j[1] < longs_per_writer /\ j[1] \in 0 .. numWriters * longs_per_writer
    BY <1>p, <2>1 DEF FifoInv, Counts, FifoTypeOK
  <2>3. QED
    BY <2>1, <2>2
<1>2. /\ j' = [j EXCEPT ![1] = @ + 1]
      /\ j'[0] = j[0] /\ j'[1] = j[1] + 1
      /\ \A q \in Processes \ {1} : j'[q] = j[q]
      /\ UNCHANGED <<test, my_procnum, i, trackers>>
  BY <1>p DEF FifoInv, FifoTypeOK, Read1
<1>3. queue # <<>> /\ queue' = Tail(queue)
  BY DEF Read1, fifo_rd
<1>4. /\ Len(queue) \in Nat \ {0} /\ Head(queue) = queue[1]
      /\ queue' \in Seq(Words) /\ Len(queue') = Len(queue) - 1
      /\ \A k \in 1 .. Len(queue') : queue'[k] = queue[k + 1] /\ k + 1 \in 1 .. Len(queue)
  BY <1>3 DEF FifoInv, FifoTypeOK
<1>5. Head(queue) = j[1]
  <2>1. queue[1] = j[1] + 1 - 1
    BY <1>1, <1>4 DEF FifoInv, Queue1
  <2>2. QED
    BY <1>1, <1>4, <2>1
<1>6. success' = TRUE /\ verdict' # "failed"
  <2>1. success' = TRUE
    BY <1>5 DEF Read1, fifo_rd, Expected, FifoInv, ReaderNeverFails
  <2>2. QED
    BY <2>1 DEF Read1, FifoInv, ReaderNeverFails
<1>7. /\ pc' = [pc EXCEPT ![1] = IF j[1] + 1 = longs_per_writer THEN "ended" ELSE "read"]
      /\ verdict' \in {"none", "success", "failed"}
  BY <1>1, <1>2 DEF Read1, FifoInv, FifoTypeOK
<1>8. FifoTypeOK'
  <2>1. Len(queue') <= MYFIFO_BUFSIZ
    <3>1. Len(queue) <= MYFIFO_BUFSIZ /\ MYFIFO_BUFSIZ \in Nat
      BY FifoTestAssumption DEF FifoInv, FifoTypeOK
    <3>2. QED
      BY <1>4, <3>1
  <2>2. j' \in [Processes -> 0 .. numWriters * longs_per_writer]
    BY <1>1, <1>2 DEF FifoInv, FifoTypeOK
  <2>3. pc' \in [Processes -> {"unborn", "fork", "fork_writers", "write", "read", "ended", "failed"}]
    BY <1>7 DEF FifoInv, FifoTypeOK
  <2>4. QED
    BY <1>2, <1>4, <1>6, <1>7, <2>1, <2>2, <2>3 DEF FifoInv, FifoTypeOK
<1>9. /\ pc'[1] \in {"read", "ended"}
      /\ pc'[1] = "read" => j'[1] < longs_per_writer
      /\ \A q \in Processes \ {1} : pc'[q] = pc[q]
  BY <1>p, <1>1, <1>2, <1>7 DEF FifoInv, FifoTypeOK
<1>10. Control'
  BY <1>p, <1>1, <1>2, <1>9 DEF FifoInv, Control
<1>11. Ids'
  BY <1>1, <1>2 DEF FifoInv, Ids
<1>12. Counts'
  <2>1. \A q \in Processes \ {1} : pc'[q] = pc[q] /\ j'[q] = j[q]
    BY <1>2, <1>9
  <2>2. test' = 1
    BY <1>1, <1>2
  <2>3. QED
    BY <1>9, <2>1, <2>2 DEF FifoInv, Counts
<1>13. Queue1'
  <2>1. j[0] = j[1] + Len(queue) /\ \A k \in 1 .. Len(queue) : queue[k] = j[1] + k - 1
    BY <1>1 DEF FifoInv, Queue1
  <2>2. j'[0] = j'[1] + Len(queue')
    <3>1. j'[0] = j[1] + Len(queue) /\ j'[1] = j[1] + 1 /\ Len(queue') = Len(queue) - 1
      BY <1>2, <1>4, <2>1
    <3>2. j[1] + Len(queue) = (j[1] + 1) + (Len(queue) - 1)
      BY <1>1, <1>4
    <3>3. QED
      BY <3>1, <3>2
  <2>3. ASSUME NEW k \in 1 .. Len(queue') PROVE queue'[k] = j'[1] + k - 1
    <3>1. queue'[k] = j[1] + (k + 1) - 1
      BY <1>4, <2>1
    <3>2. j[1] + (k + 1) - 1 = (j[1] + 1) + k - 1
      BY <1>1, <1>4
    <3>3. QED
      BY <1>2, <3>1, <3>2
  <2>4. QED
    BY <2>2, <2>3 DEF Queue1
<1>14. Queue2'
  BY <1>1, <1>2 DEF Queue2
<1>15. QED
  BY <1>6, <1>8, <1>10, <1>11, <1>12, <1>13, <1>14 DEF FifoInv, ReaderNeverFails

\* The oldest word in the FIFO of test2 is the next one of its writer.
LEMMA HeadIsNext ==
  ASSUME FifoTypeOK, Queue2, test = 2, queue # <<>>
  PROVE  /\ WriterOf(Head(queue)) \in Writers
         /\ trackers[WriterOf(Head(queue))] = NumberOf(Head(queue))
         /\ NumberOf(Head(queue)) \in Numbers
<1>1. Len(queue) \in Nat \ {0} /\ Head(queue) = queue[1]
  BY DEF FifoTypeOK
<1> DEFINE w == WriterOf(queue[1])
<1>2. /\ w \in Writers /\ NumberOf(queue[1]) \in Numbers
      /\ trackers[w] <= NumberOf(queue[1]) /\ NumberOf(queue[1]) < j[Owner(w)]
  BY <1>1 DEF Queue2, Decodes
<1>3. trackers[w] \in Nat /\ j[Owner(w)] \in Int /\ Numbers \subseteq Nat
      /\ \A n \in Nat : n < NumberOf(queue[1]) => n \in Numbers
  <2>1. Owner(w) \in Processes
    BY <1>2, Owners DEF Writers, Processes
  <2>2. j[Owner(w)] \in Int
    BY <2>1, Sizes DEF FifoTypeOK
  <2>3. QED
    BY <1>2, <2>2, Sizes DEF FifoTypeOK, Numbers
<1> HIDE DEF w
<1>4. ASSUME trackers[w] # NumberOf(queue[1]) PROVE FALSE
  <2>1. trackers[w] < NumberOf(queue[1]) /\ NumberOf(queue[1]) \in Nat
    <3>1. NumberOf(queue[1]) \in Nat /\ trackers[w] \in Nat /\ trackers[w] <= NumberOf(queue[1])
      BY <1>2, <1>3
    <3>2. QED
      BY <1>4, <3>1
  <2>2. trackers[w] \in Numbers /\ trackers[w] < j[Owner(w)]
    BY <1>2, <1>3, <2>1
  <2>3. PICK k \in 1 .. Len(queue) : WriterOf(queue[k]) = w /\ NumberOf(queue[k]) = trackers[w]
    BY <1>2, <1>3, <2>2 DEF Queue2, NoneMissing
  <2>4. CASE k = 1
    BY <1>4, <2>3, <2>4
  <2>5. CASE k # 1
    <3>1. 1 < k /\ 1 \in 1 .. Len(queue) /\ WriterOf(queue[1]) = WriterOf(queue[k])
      BY <1>1, <2>3, <2>5 DEF w
    <3>2. NumberOf(queue[1]) < NumberOf(queue[k])
      BY <3>1 DEF Queue2, InOrder
    <3>3. QED
      BY <1>3, <2>1, <2>3, <3>2
  <2>6. QED
    BY <2>4, <2>5
<1>5. QED
  BY <1>1, <1>2, <1>4 DEF w

\* Taking the oldest word and counting it keeps the order.
LEMMA TakeKeepsOrder ==
  ASSUME FifoTypeOK, Queue2, test = 2, test' = 2, queue # <<>>, queue' = Tail(queue),
         trackers' = [trackers EXCEPT ![WriterOf(Head(queue))] = @ + 1],
         \A v \in Writers : j'[Owner(v)] = j[Owner(v)]
  PROVE  Queue2'
<1> DEFINE w == WriterOf(queue[1])
<1>1. /\ Len(queue) \in Nat \ {0} /\ Head(queue) = queue[1]
      /\ Len(queue') = Len(queue) - 1
      /\ \A k \in 1 .. Len(queue') : queue'[k] = queue[k + 1] /\ k + 1 \in 1 .. Len(queue)
  BY DEF FifoTypeOK
<1>2. /\ w \in Writers /\ trackers[w] = NumberOf(queue[1]) /\ NumberOf(queue[1]) \in Numbers
      /\ NumberOf(queue[1]) \in Nat /\ NumberOf(queue[1]) < j[Owner(w)]
  BY <1>1, HeadIsNext, Sizes DEF Numbers, Queue2, Decodes
<1>3. trackers' = [trackers EXCEPT ![w] = @ + 1]
  BY <1>1
<1>4. /\ trackers \in [Writers -> Nat]
      /\ \A v \in Writers : trackers'[v] = IF v = w THEN trackers[w] + 1 ELSE trackers[v]
  BY <1>2, <1>3, Sizes DEF FifoTypeOK
<1>5. \A v \in Writers : j[Owner(v)] \in Nat
  <2>1. \A v \in Writers : Owner(v) \in Processes
    BY Owners DEF Writers, Processes
  <2>2. j \in [Processes -> Nat]
    BY Sizes DEF FifoTypeOK
  <2>3. QED
    BY <2>1, <2>2
<1> HIDE DEF w
<1>6. Decodes'
  <2> SUFFICES ASSUME NEW k \in 1 .. Len(queue')
               PROVE  /\ WriterOf(queue'[k]) \in Writers
                      /\ NumberOf(queue'[k]) \in Numbers
                      /\ trackers'[WriterOf(queue'[k])] <= NumberOf(queue'[k])
                      /\ NumberOf(queue'[k]) < j'[Owner(WriterOf(queue'[k]))]
    BY DEF Decodes, WriterOf, NumberOf
  <2> DEFINE v == WriterOf(queue[k + 1])
             n == NumberOf(queue[k + 1])
  <2>1. k + 1 \in 1 .. Len(queue) /\ queue'[k] = queue[k + 1] /\ 1 \in 1 .. Len(queue) /\ 1 < k + 1
    BY <1>1
  <2>2. v \in Writers /\ n \in Numbers /\ trackers[v] <= n /\ n < j[Owner(v)]
    BY <2>1 DEF Queue2, Decodes
  <2>3. n \in Nat
    BY <2>2, Sizes DEF Numbers
  <2>4. v = w => NumberOf(queue[1]) < n
    BY <2>1 DEF Queue2, InOrder, w
  <2> HIDE DEF v, n
  <2>5. trackers'[v] <= n
    BY <1>2, <1>4, <2>2, <2>3, <2>4
  <2>6. QED
    BY <2>1, <2>2, <2>5 DEF v, n
<1>7. InOrder'
  <2> SUFFICES ASSUME NEW k \in 1 .. Len(queue'), NEW l \in 1 .. Len(queue'),
                      k < l, WriterOf(queue'[k]) = WriterOf(queue'[l])
               PROVE  NumberOf(queue'[k]) < NumberOf(queue'[l])
    BY DEF InOrder, WriterOf, NumberOf
  <2>1. /\ k + 1 \in 1 .. Len(queue) /\ queue'[k] = queue[k + 1]
        /\ l + 1 \in 1 .. Len(queue) /\ queue'[l] = queue[l + 1] /\ k + 1 < l + 1
    BY <1>1
  <2>2. QED
    BY <2>1 DEF Queue2, InOrder
<1>8. NoneMissing'
  <2> SUFFICES ASSUME NEW v \in Writers
               PROVE  /\ trackers'[v] <= j'[Owner(v)]
                      /\ \A n \in Numbers :
                           trackers'[v] <= n /\ n < j'[Owner(v)] =>
                             \E k \in 1 .. Len(queue') :
                               WriterOf(queue'[k]) = v /\ NumberOf(queue'[k]) = n
    BY DEF NoneMissing, WriterOf, NumberOf
  <2>1. trackers'[v] <= j'[Owner(v)]
    BY <1>2, <1>4, <1>5 DEF Queue2, NoneMissing
  <2>2. ASSUME NEW n \in Numbers, trackers'[v] <= n, n < j'[Owner(v)]
        PROVE  \E k \in 1 .. Len(queue') :
                 WriterOf(queue'[k]) = v /\ NumberOf(queue'[k]) = n
    <3>0. n \in Nat
      BY Sizes DEF Numbers
    <3>1. trackers[v] <= n /\ (v = w => n # NumberOf(queue[1]))
      BY <1>2, <1>4, <2>2, <3>0
    <3>2. PICK k \in 1 .. Len(queue) : WriterOf(queue[k]) = v /\ NumberOf(queue[k]) = n
      BY <2>2, <3>1 DEF Queue2, NoneMissing
    <3>3. k # 1
      BY <3>1, <3>2 DEF w
    <3>4. k - 1 \in 1 .. Len(queue') /\ (k - 1) + 1 = k
      BY <1>1, <3>3
    <3>5. queue'[k - 1] = queue[k]
      BY <1>1, <3>4
    <3>6. QED
      BY <3>2, <3>4, <3>5
  <2>3. QED
    BY <2>1, <2>2
<1>9. QED
  BY <1>6, <1>7, <1>8 DEF Queue2

\* The reader of test2 finds the word it expects.
LEMMA Read2Keeps == ASSUME FifoInv, Read2 PROVE FifoInv'
<1> USE Sizes
<1>p. 0 \in Processes /\ 1 \in Processes /\ 0 \notin Writers /\ Writers \subseteq Processes
  BY DEF Processes, Writers
<1> DEFINE w == WriterOf(Head(queue))
           n == NumberOf(Head(queue))
<1>1. /\ test = 2 /\ pc[0] = "read" /\ queue # <<>> /\ queue' = Tail(queue)
      /\ trackers' = [trackers EXCEPT ![w] = @ + 1]
      /\ j' = [j EXCEPT ![0] = @ + 1]
      /\ UNCHANGED <<test, my_procnum, i, success>>
  BY DEF Read2, fifo_rd, WriterOf
<1>2. w \in Writers /\ trackers[w] = n /\ n \in Numbers
  BY <1>1, HeadIsNext DEF FifoInv
<1>3. j[0] + 1 \in 0 .. numWriters * longs_per_writer /\ j[0] \in Nat
      /\ j[0] < numWriters * longs_per_writer
  <2>1. j[0] < numWriters * longs_per_writer /\ j[0] \in 0 .. numWriters * longs_per_writer
    BY <1>p, <1>1 DEF FifoInv, Counts, FifoTypeOK
  <2>2. QED
    BY <2>1
<1>4. /\ j'[0] = j[0] + 1 /\ \A q \in Processes \ {0} : j'[q] = j[q]
      /\ j' \in [Processes -> 0 .. numWriters * longs_per_writer]
  BY <1>p, <1>1, <1>3 DEF FifoInv, FifoTypeOK
<1>5. /\ pc' = [pc EXCEPT ![0] =
                  IF j[0] + 1 = numWriters * longs_per_writer THEN "ended" ELSE "read"]
      /\ verdict' \in {"none", "success"}
  <2>1. \/ verdict' = "success" /\ j[0] + 1 = numWriters * longs_per_writer
           /\ pc' = [pc EXCEPT ![0] = "ended"]
        \/ j[0] + 1 # numWriters * longs_per_writer /\ UNCHANGED <<verdict, pc>>
    BY <1>2, <1>4 DEF Read2, fifo_rd, WriterOf, NumberOf
  <2>2. verdict \in {"none", "success"}
    BY DEF FifoInv, FifoTypeOK, ReaderNeverFails
  <2>3. pc \in [Processes -> {"unborn", "fork", "fork_writers", "write", "read", "ended", "failed"}]
    BY DEF FifoInv, FifoTypeOK
  <2>4. QED
    BY <1>p, <1>1, <2>1, <2>2, <2>3
<1>6. FifoTypeOK'
  <2>1. queue' \in Seq(Words) /\ Len(queue') <= MYFIFO_BUFSIZ
    <3>1. Len(queue) \in Nat \ {0} /\ Len(queue') = Len(queue) - 1 /\ queue' \in Seq(Words)
      BY <1>1 DEF FifoInv, FifoTypeOK
    <3>2. Len(queue) <= MYFIFO_BUFSIZ /\ MYFIFO_BUFSIZ \in Nat
      BY FifoTestAssumption DEF FifoInv, FifoTypeOK
    <3>3. QED
      BY <3>1, <3>2
  <2>2. trackers' \in [Writers -> 0 .. longs_per_writer]
    <3>1. trackers[w] + 1 \in 0 .. longs_per_writer
      BY <1>2 DEF Numbers
    <3>2. QED
      BY <1>1, <1>2, <3>1 DEF FifoInv, FifoTypeOK
  <2>3. pc' \in [Processes -> {"unborn", "fork", "fork_writers", "write", "read", "ended", "failed"}]
    BY <1>5 DEF FifoInv, FifoTypeOK
  <2>4. QED
    BY <1>1, <1>4, <1>5, <2>1, <2>2, <2>3 DEF FifoInv, FifoTypeOK
<1>7. /\ pc'[0] \in {"read", "ended"}
      /\ pc'[0] = "read" => j'[0] < numWriters * longs_per_writer
      /\ \A q \in Processes \ {0} : pc'[q] = pc[q]
  BY <1>p, <1>3, <1>4, <1>5 DEF FifoInv, FifoTypeOK
<1>8. Control'
  BY <1>p, <1>1, <1>7 DEF FifoInv, Control
<1>9. Ids'
  BY <1>p, <1>1, <1>7 DEF FifoInv, Ids
<1>10. Counts'
  BY <1>1, <1>4, <1>7 DEF FifoInv, Counts
<1>11. Queue1'
  BY <1>1 DEF Queue1
<1>12. Queue2'
  <2>1. \A v \in Writers : j'[Owner(v)] = j[Owner(v)]
    BY <1>p, <1>4, Owners
  <2>2. QED
    BY <1>1, <2>1, TakeKeepsOrder DEF FifoInv
<1>13. QED
  BY <1>1, <1>5, <1>6, <1>8, <1>9, <1>10, <1>11, <1>12 DEF FifoInv, ReaderNeverFails

-----------------------------------------------------------------------------
\* Every step keeps the invariant.
LEMMA FifoStep == FifoInv /\ [Next]_vars => FifoInv'
<1> SUFFICES ASSUME FifoInv, [Next]_vars PROVE FifoInv'
  OBVIOUS
<1>1. CASE UNCHANGED vars
  BY <1>1
  DEF vars, FifoInv, FifoTypeOK, Control, Ids, Counts, Queue1, Queue2, Decodes, InOrder,
      NoneMissing, ReaderNeverFails
<1>2. CASE Next
  BY <1>2, ForkKeeps, ForkWriterKeeps, WriteKeeps, Read1Keeps, Read2Keeps DEF Next, Process
<1>3. QED
  BY <1>1, <1>2

\* The invariant of the two tests.
THEOREM FifoInvariance == Spec => []FifoInv
  BY FifoInit, FifoStep, PTL DEF Spec

\* The variables of the tests keep their types, and the FIFO never holds more
\* words than it has room for (fifoTest.c:56-159; fifo.h:8-39).
THEOREM TypeCorrect == Spec => []FifoTypeOK
<1>1. FifoInv => FifoTypeOK
  BY DEF FifoInv
<1>2. QED
  BY <1>1, FifoInvariance, PTL

\* However the words of any number of writers mix in a FIFO of any size, the
\* readers of both tests find every word in its writer's order, none lost and
\* none doubled (fifoTest.c:81-83, 138-155).
THEOREM ReaderFindsOrder == Spec => []ReaderNeverFails
<1>1. FifoInv => ReaderNeverFails
  BY DEF FifoInv
<1>2. QED
  BY <1>1, FifoInvariance, PTL

\* The processes that use the FIFO take different ids, so that each has its own
\* place in the semaphores' lists (fifoTest.c:67, 78, 97, 102, 128; sem.h:8).
THEOREM IdsDiffer == Spec => []ProcNumsDiffer
<1>1. FifoInv => ProcNumsDiffer
  <2> SUFFICES ASSUME FifoInv, NEW p \in Processes, NEW q \in Processes,
                      pc[p] \in {"write", "read"}, pc[q] \in {"write", "read"},
                      my_procnum[p] = my_procnum[q]
               PROVE  p = q
    BY DEF ProcNumsDiffer
  <2>1. /\ my_procnum[0] = 0
        /\ \A r \in Processes \ Writers : r = 0
        /\ 1 \in Processes /\ 0 \notin Writers
    BY Sizes DEF FifoInv, Ids, Processes, Writers
  <2>2. CASE test = 1
    <3>1. p \in {0, 1} /\ q \in {0, 1}
      BY <2>2 DEF FifoInv, Control
    <3>2. \A r \in {0, 1} : r = 1 /\ pc[r] \in {"write", "read"} => my_procnum[r] = 1
      BY <2>2 DEF FifoInv, Control, Ids
    <3>3. QED
      BY <2>1, <3>1, <3>2
  <2>3. CASE test = 2
    <3>1. \A r \in Writers : pc[r] \in {"write", "read"} =>
            my_procnum[r] = Id(r) /\ Id(r) # 0 /\ Owner(Id(r)) = r
      <4>1. \A r \in Writers : pc[r] # "read"
        BY <2>3 DEF FifoInv, Control, Writers, Processes
      <4>2. QED
        BY <2>1, <2>3, <4>1, Owners DEF FifoInv, Ids
    <3>2. QED
      BY <2>1, <3>1
  <2>4. QED
    BY <2>2, <2>3 DEF FifoInv, FifoTypeOK
<1>2. QED
  BY <1>1, FifoInvariance, PTL

=============================================================================
