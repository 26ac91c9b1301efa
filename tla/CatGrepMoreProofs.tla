------------------------- MODULE CatGrepMoreProofs -------------------------
(***************************************************************************)
(* Proofs about CatGrepMore, for every number of files and blocks, every   *)
(* set of matches and every size of the pipes and of grep's buffer: less   *)
(* shows the matches in order, and main is killed by a write only when the *)
(* reader behind it has gone.                                              *)
(***************************************************************************)
EXTENDS CatGrepMore, SequenceTheorems, TLAPS

-----------------------------------------------------------------------------
(***************************************************************************)
(* The inductive invariant: what flows through the pipes of a file.        *)
(***************************************************************************)
Increasing(s) == \A k, l \in 1 .. Len(s) : k < l => s[k] < s[l]

Before(s, t) == \A k \in 1 .. Len(s), l \in 1 .. Len(t) : s[k] < t[l]

UpTo(s, r) == \A k \in 1 .. Len(s) : s[k] <= r

In(n, s) == \E k \in 1 .. Len(s) : s[k] = n

\* Where the matches of the blocks up to r are: less has shown the first, the
\* next are in the second pipe and grep has the last.  The first pipe holds the
\* blocks after r.
Flow(r, p1, p2, m, s) ==
  /\ \A k \in 1 .. Len(p1) : p1[k] = r + k
  /\ Increasing(s) /\ UpTo(s, r) /\ Before(s, m)
  /\ Increasing(m) /\ UpTo(m, r)
  /\ \A k \in 1 .. Len(p2) :
       Increasing(p2[k]) /\ UpTo(p2[k], r) /\ Before(s, p2[k]) /\ Before(p2[k], m)
  /\ \A k, l \in 1 .. Len(p2) : k < l => Before(p2[k], p2[l])
  /\ \A n \in Matching :
       n <= r => In(n, s) \/ In(n, m) \/ \E k \in 1 .. Len(p2) : In(n, p2[k])

\* main, at a statement of file now with b blocks read, has written n blocks of
\* file f; nothing is said of a file it is done with.
Written(statement, now, b, f, n) ==
  /\ f > now \/ (f = now /\ statement \in {"begin", "pipes", "fork_grep", "fork_less", "open"})
       => n = 0
  /\ f = now /\ statement \in {"read", "close"} => n = b
  /\ f = now /\ statement = "write" => n + 1 = b

FlowAt(f) ==
  \E r \in Nat :
    /\ Flow(r, pipe1[f], pipe2[f], matches[f], shown[f])
    /\ Written(main, i, block, f, r + Len(pipe1[f]))

InFlow == \A f \in Files : FlowAt(f)

(***************************************************************************)
(* The inductive invariant: who there is, and who holds which end.         *)
(***************************************************************************)
Feeding == {"fork_less", "open", "read", "write", "close"}

Children ==
  /\ \A f \in Files : f > i \/ (f = i /\ main \in {"begin", "pipes", "fork_grep"})
       => grep[f] = "none" /\ less[f] = "none"
  /\ main = "fork_less" => less[i] = "none"
  /\ main \in Feeding \ {"fork_less"} => less[i] # "none"
  /\ main \in Feeding =>
       /\ grep[i] \in {"born", "failing", "failed", "reading", "writing", "exited"}
       /\ grep[i] = "exited" => less[i] \in {"exited", "reaped"}

MainHolds ==
  /\ main = "fork_grep" => \A e \in PipeEnds : "main" \in holders[i][e]
  /\ main = "fork_less" => "main" \in holders[i]["pipe2fds[0]"]
  /\ main \in Feeding => "main" \in holders[i]["pipe1fds[1]"]

GrepHolds ==
  \A f \in Files : grep[f] \in {"born", "failing", "reading", "writing", "flushing"}
    => "grep" \in holders[f]["pipe1fds[0]"]

LessHolds ==
  \A f \in Files : less[f] \in {"born", "second main", "starting", "showing"}
    => "less" \in holders[f]["pipe2fds[0]"]

CgmInv ==
  /\ CgmTypeOK /\ InFlow /\ Children /\ MainHolds /\ GrepHolds /\ LessHolds
  /\ KilledOnlyAfterQuit

-----------------------------------------------------------------------------
(***************************************************************************)
(* The flow of one file, one step at a time.                               *)
(***************************************************************************)
\* Matches are blocks, and blocks are numbered.
LEMMA MatchingType == Matching \subseteq Nat /\ Blocks \in Nat
  BY CatGrepMoreAssumption

\* Files are numbers.
LEMMA FilesType == NumFiles \in Nat /\ \A f \in Files : f \in Nat
  BY CatGrepMoreAssumption DEF Files

\* A sequence of matches is one of numbers.
LEMMA MatchesType ==
  ASSUME NEW u \in Seq(Matching)
  PROVE  Len(u) \in Nat /\ \A k \in 1 .. Len(u) : u[k] \in Matching /\ u[k] \in Nat
<1>1. Len(u) \in Nat /\ \A k \in 1 .. Len(u) : u[k] \in Matching
  OBVIOUS
<1>2. \A x \in Matching : x \in Nat
  BY MatchingType
<1>3. QED
  BY <1>1, <1>2

\* main writes the next block.
LEMMA FlowSend ==
  ASSUME NEW r \in Nat, NEW p1 \in Seq(1 .. Blocks), NEW p2, NEW m, NEW s,
         NEW b \in 1 .. Blocks, b = r + Len(p1) + 1, Flow(r, p1, p2, m, s)
  PROVE  Flow(r, Append(p1, b), p2, m, s) /\ r + Len(Append(p1, b)) = b
<1>1. /\ Len(p1) \in Nat /\ Len(Append(p1, b)) = Len(p1) + 1
      /\ Append(p1, b)[Len(p1) + 1] = b
      /\ \A k \in 1 .. Len(p1) : Append(p1, b)[k] = p1[k]
  OBVIOUS
<1> DEFINE q == Append(p1, b)
<1>2. \A k \in 1 .. Len(q) : q[k] = r + k
  <2> SUFFICES ASSUME NEW k \in 1 .. Len(q) PROVE q[k] = r + k
    OBVIOUS
  <2>1. CASE k \in 1 .. Len(p1)
    BY <1>1, <2>1 DEF Flow
  <2>2. CASE k \notin 1 .. Len(p1)
    <3>1. k = Len(p1) + 1
      BY <1>1, <2>2
    <3>2. QED
      BY <1>1, <3>1
  <2>3. QED
    BY <2>1, <2>2
<1> HIDE DEF q
<1>3. Flow(r, q, p2, m, s)
  BY <1>2 DEF Flow
<1>4. QED
  BY <1>1, <1>3 DEF q

\* grep reads a block, and keeps it if it matches.
LEMMA FlowRead ==
  ASSUME NEW r \in Nat, NEW p1 \in Seq(1 .. Blocks), NEW p2 \in Seq(Seq(Matching)),
         NEW m \in Seq(Matching), NEW s \in Seq(Matching),
         p1 # <<>>, Flow(r, p1, p2, m, s)
  PROVE  /\ Flow(r + 1, Tail(p1), p2,
                  IF Head(p1) \in Matching THEN Append(m, Head(p1)) ELSE m, s)
         /\ (r + 1) + Len(Tail(p1)) = r + Len(p1)
<1> DEFINE q == Tail(p1)
           h == Head(p1)
           t == IF h \in Matching THEN Append(m, h) ELSE m
<1>1. /\ Len(p1) \in Nat \ {0} /\ Len(q) = Len(p1) - 1 /\ h = p1[1] /\ h \in Nat
      /\ \A k \in 1 .. Len(q) : q[k] = p1[k + 1] /\ k + 1 \in 1 .. Len(p1)
  BY MatchingType
<1>2. h = r + 1 /\ \A k \in 1 .. Len(q) : q[k] = (r + 1) + k
  BY <1>1 DEF Flow
<1>3. /\ Len(m) \in Nat /\ \A k \in 1 .. Len(m) : t[k] = m[k] /\ m[k] \in Nat
      /\ h \in Matching => Len(t) = Len(m) + 1 /\ t[Len(m) + 1] = h
      /\ h \notin Matching => t = m
      /\ t \in Seq(Matching)
  BY MatchesType
<1>3a. /\ Len(t) \in Nat
       /\ \A k \in 1 .. Len(t) : \/ k \in 1 .. Len(m) /\ t[k] = m[k]
                                 \/ k = Len(m) + 1 /\ t[k] = h /\ h \in Matching
  BY <1>3
<1> HIDE DEF q, h, t
<1>4. ASSUME NEW u, Len(u) \in Nat, UpTo(u, r), \A k \in 1 .. Len(u) : u[k] \in Nat,
             Before(u, m)
      PROVE  UpTo(u, r + 1) /\ Before(u, t)
  <2>1. UpTo(u, r + 1)
    BY <1>4 DEF UpTo
  <2>2. ASSUME NEW k \in 1 .. Len(u), NEW l \in 1 .. Len(t) PROVE u[k] < t[l]
    <3>1. u[k] <= r /\ u[k] \in Nat
      BY <1>4 DEF UpTo
    <3>2. CASE l \in 1 .. Len(m) /\ t[l] = m[l]
      BY <1>4, <3>2 DEF Before
    <3>3. CASE t[l] = h
      BY <1>2, <3>1, <3>3
    <3>4. QED
      BY <1>3a, <3>2, <3>3
  <2>3. QED
    BY <2>1, <2>2 DEF Before
<1>5. UpTo(s, r + 1) /\ Before(s, t)
  <2>1. Len(s) \in Nat /\ \A k \in 1 .. Len(s) : s[k] \in Nat
    BY MatchesType
  <2>2. QED
    BY <1>4, <2>1 DEF Flow
<1>6. \A k \in 1 .. Len(p2) : UpTo(p2[k], r + 1) /\ Before(p2[k], t)
  <2> SUFFICES ASSUME NEW k \in 1 .. Len(p2) PROVE UpTo(p2[k], r + 1) /\ Before(p2[k], t)
    OBVIOUS
  <2>1. p2[k] \in Seq(Matching)
    OBVIOUS
  <2>2. Len(p2[k]) \in Nat /\ \A l \in 1 .. Len(p2[k]) : p2[k][l] \in Nat
    BY <2>1, MatchesType
  <2>3. QED
    BY <1>4, <2>2 DEF Flow
<1>7. Increasing(t) /\ UpTo(t, r + 1)
  <2>1. Increasing(m) /\ UpTo(m, r)
    BY DEF Flow
  <2>2. UpTo(t, r + 1)
    <3> SUFFICES ASSUME NEW k \in 1 .. Len(t) PROVE t[k] <= r + 1
      BY DEF UpTo
    <3>1. CASE k \in 1 .. Len(m) /\ t[k] = m[k]
      BY <1>3, <2>1, <3>1 DEF UpTo
    <3>2. CASE t[k] = h
      BY <1>2, <3>2
    <3>3. QED
      BY <1>3a, <3>1, <3>2
  <2>3. Increasing(t)
    <3> SUFFICES ASSUME NEW k \in 1 .. Len(t), NEW l \in 1 .. Len(t), k < l PROVE t[k] < t[l]
      BY DEF Increasing
    <3>1. k \in 1 .. Len(m) /\ t[k] = m[k] /\ m[k] \in Nat
      BY <1>3, <1>3a
    <3>2. CASE l \in 1 .. Len(m) /\ t[l] = m[l]
      BY <2>1, <3>1, <3>2 DEF Increasing
    <3>3. CASE t[l] = h
      <4>1. m[k] <= r
        BY <2>1, <3>1 DEF UpTo
      <4>2. QED
        BY <1>2, <3>1, <3>3, <4>1
    <3>4. QED
      BY <1>3a, <3>2, <3>3
  <2>4. QED
    BY <2>2, <2>3
<1>8. ASSUME NEW n \in Matching, n <= r + 1
      PROVE  In(n, s) \/ In(n, t) \/ \E k \in 1 .. Len(p2) : In(n, p2[k])
  <2>1. CASE n = h
    <3>1. Len(m) + 1 \in 1 .. Len(t) /\ t[Len(m) + 1] = n
      BY <1>3, <2>1
    <3>2. QED
      BY <3>1 DEF In
  <2>2. CASE n # h
    <3>1. n <= r
      BY <1>2, <1>8, <2>2, MatchingType
    <3>2. In(n, m) => In(n, t)
      <4>1. \A k \in 1 .. Len(m) : k \in 1 .. Len(t) /\ t[k] = m[k]
        BY <1>3
      <4>2. QED
        BY <4>1 DEF In
    <3>3. QED
      BY <3>1, <3>2 DEF Flow
  <2>3. QED
    BY <2>1, <2>2
<1>9. Flow(r + 1, q, p2, t, s)
  BY <1>2, <1>5, <1>6, <1>7, <1>8 DEF Flow
<1>10. QED
  BY <1>1, <1>9 DEF q, h, t

\* grep writes its buffer and empties it.
LEMMA FlowWrite ==
  ASSUME NEW r \in Nat, NEW p1, NEW p2 \in Seq(Seq(Matching)),
         NEW m \in Seq(Matching), NEW s, Flow(r, p1, p2, m, s)
  PROVE  Flow(r, p1, Append(p2, m), <<>>, s)
<1> DEFINE q == Append(p2, m)
<1>1. /\ Len(p2) \in Nat /\ Len(q) = Len(p2) + 1 /\ q[Len(p2) + 1] = m
      /\ \A k \in 1 .. Len(p2) : q[k] = p2[k]
  OBVIOUS
<1>1a. \A k \in 1 .. Len(q) : \/ k \in 1 .. Len(p2) /\ q[k] = p2[k]
                              \/ k = Len(p2) + 1 /\ q[k] = m
  BY <1>1
<1>2. \A t : Before(t, <<>>)
  BY DEF Before
<1> HIDE DEF q
<1>3. \A k \in 1 .. Len(q) :
        Increasing(q[k]) /\ UpTo(q[k], r) /\ Before(s, q[k]) /\ Before(q[k], <<>>)
  BY <1>1a, <1>2 DEF Flow
<1>4. ASSUME NEW k \in 1 .. Len(q), NEW l \in 1 .. Len(q), k < l PROVE Before(q[k], q[l])
  <2>1. k \in 1 .. Len(p2) /\ q[k] = p2[k]
    BY <1>1, <1>4
  <2>2. QED
    BY <1>1a, <1>4, <2>1 DEF Flow
<1>5. \A n \in Matching : n <= r => In(n, s) \/ \E k \in 1 .. Len(q) : In(n, q[k])
  <2>1. Len(p2) + 1 \in 1 .. Len(q) /\ \A k \in 1 .. Len(p2) : k \in 1 .. Len(q)
    BY <1>1
  <2>2. QED
    BY <1>1, <2>1 DEF Flow
<1>6. Increasing(<<>>) /\ UpTo(<<>>, r)
  BY DEF Increasing, UpTo
<1>7. Flow(r, p1, q, <<>>, s)
  BY <1>2, <1>3, <1>4, <1>5, <1>6 DEF Flow
<1>8. QED
  BY <1>7 DEF q

\* less reads the oldest buffer in the pipe.
LEMMA FlowShow ==
  ASSUME NEW r \in Nat, NEW p1, NEW p2 \in Seq(Seq(Matching)),
         NEW m, NEW s \in Seq(Matching), p2 # <<>>, Flow(r, p1, p2, m, s)
  PROVE  Flow(r, p1, Tail(p2), m, s \o Head(p2))
<1> DEFINE h == Head(p2)
           q == Tail(p2)
           t == s \o h
<1>1. /\ Len(p2) \in Nat \ {0} /\ h = p2[1] /\ h \in Seq(Matching)
      /\ Len(q) = Len(p2) - 1
      /\ \A k \in 1 .. Len(q) : q[k] = p2[k + 1] /\ k + 1 \in 1 .. Len(p2)
  OBVIOUS
<1>2. /\ Len(s) \in Nat /\ Len(h) \in Nat /\ Len(t) = Len(s) + Len(h)
      /\ \A k \in 1 .. Len(s) : t[k] = s[k]
      /\ \A k \in 1 .. Len(h) : t[Len(s) + k] = h[k]
  BY <1>1
<1> HIDE DEF h, q, t
<1>3. \A k \in 1 .. Len(t) : \/ k \in 1 .. Len(s) /\ t[k] = s[k]
                             \/ k - Len(s) \in 1 .. Len(h) /\ t[k] = h[k - Len(s)]
  <2> SUFFICES ASSUME NEW k \in 1 .. Len(t), k \notin 1 .. Len(s)
               PROVE  k - Len(s) \in 1 .. Len(h) /\ t[k] = h[k - Len(s)]
    BY <1>2
  <2>1. k - Len(s) \in 1 .. Len(h) /\ Len(s) + (k - Len(s)) = k
    BY <1>2
  <2>2. QED
    BY <1>2, <2>1
<1>4. /\ Increasing(h) /\ UpTo(h, r) /\ Before(s, h) /\ Before(h, m)
      /\ \A k \in 1 .. Len(q) : Before(h, q[k])
  <2>1. 1 \in 1 .. Len(p2) /\ \A k \in 1 .. Len(q) : 1 < k + 1
    BY <1>1
  <2>2. QED
    BY <1>1, <2>1 DEF Flow
<1>5. \A u : Before(s, u) /\ Before(h, u) => Before(t, u)
  BY <1>3 DEF Before
<1>6. Increasing(t)
  <2> SUFFICES ASSUME NEW k \in 1 .. Len(t), NEW l \in 1 .. Len(t), k < l PROVE t[k] < t[l]
    BY DEF Increasing
  <2>1. CASE k \in 1 .. Len(s) /\ l \in 1 .. Len(s)
    BY <1>2, <2>1 DEF Flow, Increasing
  <2>2. CASE k \in 1 .. Len(s) /\ l \notin 1 .. Len(s)
    <3>1. l - Len(s) \in 1 .. Len(h) /\ t[l] = h[l - Len(s)] /\ t[k] = s[k]
      BY <1>2, <1>3, <2>2
    <3>2. QED
      BY <1>4, <2>2, <3>1 DEF Before
  <2>3. CASE k \notin 1 .. Len(s)
    <3>1. l \notin 1 .. Len(s)
      BY <1>2, <2>3
    <3>2. /\ k - Len(s) \in 1 .. Len(h) /\ t[k] = h[k - Len(s)]
          /\ l - Len(s) \in 1 .. Len(h) /\ t[l] = h[l - Len(s)]
      BY <1>3, <2>3, <3>1
    <3>3. k - Len(s) < l - Len(s)
      BY <1>2
    <3>4. QED
      BY <1>4, <3>2, <3>3 DEF Increasing
  <2>4. QED
    BY <2>1, <2>2, <2>3
<1>7. UpTo(t, r) /\ Before(t, m) /\ \A k \in 1 .. Len(q) : Before(t, q[k])
  <2>1. UpTo(t, r)
    BY <1>3, <1>4 DEF Flow, UpTo
  <2>2. QED
    BY <1>1, <1>4, <1>5, <2>1 DEF Flow
<1>8. /\ \A k \in 1 .. Len(q) : Increasing(q[k]) /\ UpTo(q[k], r) /\ Before(q[k], m)
      /\ \A k, l \in 1 .. Len(q) : k < l => Before(q[k], q[l])
  <2>1. \A k, l \in 1 .. Len(q) : k < l => k + 1 < l + 1
    BY <1>1
  <2>2. QED
    BY <1>1, <2>1 DEF Flow
<1>9. ASSUME NEW n \in Matching, n <= r
      PROVE  In(n, t) \/ In(n, m) \/ \E k \in 1 .. Len(q) : In(n, q[k])
  <2>1. CASE In(n, s)
    <3>1. \A k \in 1 .. Len(s) : k \in 1 .. Len(t)
      BY <1>2
    <3>2. QED
      BY <1>2, <2>1, <3>1 DEF In
  <2>2. ASSUME NEW k \in 1 .. Len(p2), In(n, p2[k])
        PROVE  In(n, t) \/ \E l \in 1 .. Len(q) : In(n, q[l])
    <3>1. CASE k = 1
      <4>1. PICK l \in 1 .. Len(h) : h[l] = n
        BY <1>1, <2>2, <3>1 DEF In
      <4>2. Len(s) + l \in 1 .. Len(t)
        BY <1>2
      <4>3. QED
        BY <1>2, <4>1, <4>2 DEF In
    <3>2. CASE k # 1
      <4>1. k - 1 \in 1 .. Len(q) /\ (k - 1) + 1 = k
        BY <1>1, <3>2
      <4>2. QED
        BY <1>1, <2>2, <4>1
    <3>3. QED
      BY <3>1, <3>2
  <2>3. QED
    BY <1>9, <2>1, <2>2 DEF Flow
<1>10. Flow(r, p1, q, m, t)
  BY <1>6, <1>7, <1>8, <1>9 DEF Flow
<1>11. QED
  BY <1>10 DEF h, q, t

\* Before each match less has shown come the matches before it, and no others.
LEMMA FlowShown ==
  ASSUME NEW r \in Nat, NEW p1, NEW p2 \in Seq(Seq(Matching)),
         NEW m \in Seq(Matching), NEW s \in Seq(Matching), Flow(r, p1, p2, m, s),
         NEW k \in 1 .. Len(s)
  PROVE  /\ s[k] \in Matching
         /\ \A n \in Matching : n < s[k] <=> \E l \in 1 .. k - 1 : s[l] = n
<1>1. Len(s) \in Nat /\ s[k] \in Matching /\ s[k] \in Nat /\ s[k] <= r
  BY MatchesType DEF Flow, UpTo
<1>2. ASSUME NEW l \in 1 .. k - 1 PROVE s[l] < s[k]
  BY <1>1 DEF Flow, Increasing
<1>3. ASSUME NEW n \in Matching, n < s[k] PROVE \E l \in 1 .. k - 1 : s[l] = n
  <2>1. n \in Nat /\ n <= r
    BY <1>1, <1>3, MatchingType
  <2>2. ~In(n, m)
    <3>1. \A l \in 1 .. Len(m) : s[k] < m[l] /\ m[l] \in Nat
      BY MatchesType DEF Flow, Before
    <3>2. QED
      BY <1>1, <1>3, <2>1, <3>1 DEF In
  <2>3. \A l \in 1 .. Len(p2) : ~In(n, p2[l])
    <3> SUFFICES ASSUME NEW l \in 1 .. Len(p2), In(n, p2[l]) PROVE FALSE
      OBVIOUS
    <3>1. PICK x \in 1 .. Len(p2[l]) : p2[l][x] = n
      BY DEF In
    <3>2. s[k] < n
      BY <3>1 DEF Flow, Before
    <3>3. QED
      BY <1>1, <1>3, <2>1, <3>2
  <2>4. PICK l \in 1 .. Len(s) : s[l] = n
    BY <2>1, <2>2, <2>3 DEF Flow, In
  <2>5. l < k
    <3>1. CASE l = k
      BY <1>1, <1>3, <2>4, <3>1
    <3>2. CASE l > k
      <4>1. s[k] < s[l]
        BY <1>1, <3>2 DEF Flow, Increasing
      <4>2. QED
        BY <1>1, <1>3, <2>1, <2>4, <4>1
    <3>3. QED
      BY <1>1, <3>1, <3>2
  <2>6. QED
    BY <1>1, <2>4, <2>5
<1>4. QED
  BY <1>1, <1>2, <1>3

-----------------------------------------------------------------------------
(***************************************************************************)
(* Who holds the pipe ends after a close, and after main ends.             *)
(***************************************************************************)
HoldersType == holders \in [Files -> [PipeEnds -> SUBSET {"main", "grep", "less"}]]

OnlyCloses(f, who, ends) ==
  \A g \in Files, e \in PipeEnds :
    holders'[g][e] = IF g = f /\ e \in ends THEN holders[g][e] \ {who} ELSE holders[g][e]

\* Closing ends of a file takes the closer off these ends and changes no other.
LEMMA ClosedEnds ==
  ASSUME HoldersType, NEW f \in Files, NEW who, NEW ends, holders' = Closed(f, who, ends)
  PROVE  HoldersType' /\ OnlyCloses(f, who, ends)
<1>1. holders' = [holders EXCEPT ![f] =
                    [e \in PipeEnds |-> IF e \in ends THEN holders[f][e] \ {who} ELSE holders[f][e]]]
  BY DEF Closed, HoldersType
<1>2. [e \in PipeEnds |-> IF e \in ends THEN holders[f][e] \ {who} ELSE holders[f][e]]
        \in [PipeEnds -> SUBSET {"main", "grep", "less"}]
  BY DEF HoldersType
<1> DEFINE left == [e \in PipeEnds |->
                      IF e \in ends THEN holders[f][e] \ {who} ELSE holders[f][e]]
<1>3. \A e \in PipeEnds : left[e] = IF e \in ends THEN holders[f][e] \ {who} ELSE holders[f][e]
  OBVIOUS
<1>4. holders' = [holders EXCEPT ![f] = left] /\ left \in [PipeEnds -> SUBSET {"main", "grep", "less"}]
  BY <1>1, <1>2
<1> HIDE DEF left
<1>5. HoldersType'
  BY <1>4 DEF HoldersType
<1>6. /\ \A e \in PipeEnds : holders'[f][e] = left[e]
      /\ \A g \in Files, e \in PipeEnds : g # f => holders'[g][e] = holders[g][e]
  BY <1>4 DEF HoldersType
<1>7. QED
  BY <1>3, <1>5, <1>6 DEF OnlyCloses

\* A main that leaves holds no end any more, and the others what they held.
LEMMA LeaveEnds ==
  ASSUME HoldersType, NEW how, Leave(how)
  PROVE  /\ HoldersType'
         /\ \A g \in Files, e \in PipeEnds : holders'[g][e] = holders[g][e] \ {"main"}
  BY DEF HoldersType, Leave

\* At first there are no pipes and no children.
LEMMA CgmInit == Init => CgmInv
<1> SUFFICES ASSUME Init PROVE CgmInv
  OBVIOUS
<1>1. CgmTypeOK
  BY CatGrepMoreAssumption DEF Init, CgmTypeOK, Files
<1>2. InFlow
  <2> SUFFICES ASSUME NEW f \in Files PROVE FlowAt(f)
    BY DEF InFlow
  <2>1. Flow(0, <<>>, <<>>, <<>>, <<>>)
    BY CatGrepMoreAssumption DEF Flow, Increasing, UpTo, Before
  <2>2. Written(main, i, block, f, 0 + Len(<<>>))
    BY DEF Init, Written
  <2>3. QED
    BY <2>1, <2>2 DEF FlowAt, Init
<1>3. Children /\ MainHolds /\ GrepHolds /\ LessHolds /\ KilledOnlyAfterQuit
  BY DEF Init, Children, MainHolds, GrepHolds, LessHolds, KilledOnlyAfterQuit, Feeding
<1>4. QED
  BY <1>1, <1>2, <1>3 DEF CgmInv

-----------------------------------------------------------------------------
(***************************************************************************)
(* The flow, action by action.                                             *)
(***************************************************************************)
\* The types of what flows for one file.
LEMMA FlowTypes ==
  ASSUME CgmTypeOK, NEW f \in Files
  PROVE  /\ pipe1[f] \in Seq(1 .. Blocks) /\ Len(pipe1[f]) \in Nat
         /\ pipe2[f] \in Seq(Seq(Matching))
         /\ matches[f] \in Seq(Matching) /\ shown[f] \in Seq(Matching)
<1>1. pipe1[f] \in Seq(1 .. Blocks)
  BY DEF CgmTypeOK
<1>2. Len(pipe1[f]) \in Nat
  BY <1>1
<1>3. QED
  BY <1>1, <1>2 DEF CgmTypeOK

\* A step that leaves the pipes alone and does not change how much is written.
LEMMA FlowStays ==
  ASSUME CgmTypeOK, InFlow, UNCHANGED <<pipe1, pipe2, matches, shown>>,
         \A f \in Files, n \in Nat :
           Written(main, i, block, f, n) => Written(main', i', block', f, n)
  PROVE  InFlow'
<1> SUFFICES ASSUME NEW f \in Files PROVE FlowAt(f)'
  BY DEF InFlow
<1>1. PICK r \in Nat : /\ Flow(r, pipe1[f], pipe2[f], matches[f], shown[f])
                       /\ Written(main, i, block, f, r + Len(pipe1[f]))
  BY DEF InFlow, FlowAt
<1>2. r + Len(pipe1[f]) \in Nat
  <2>1. Len(pipe1[f]) \in Nat
    BY FlowTypes
  <2>2. QED
    BY <2>1
<1>3. Written(main', i', block', f, r + Len(pipe1'[f]))
  BY <1>1, <1>2
<1>4. Flow(r, pipe1'[f], pipe2'[f], matches'[f], shown'[f])
  BY <1>1
<1>5. QED
  BY <1>3, <1>4 DEF FlowAt

\* A step that changes what flows for one file, and how much of it is written.
LEMMA FlowMoves ==
  ASSUME InFlow, NEW f \in Files, NEW r \in Nat, UNCHANGED <<i, block>>,
         \A g \in Files \ {f} :
           /\ UNCHANGED <<pipe1[g], pipe2[g], matches[g], shown[g]>>
           /\ \A n : Written(main, i, block, g, n) => Written(main', i, block, g, n),
         Flow(r, pipe1'[f], pipe2'[f], matches'[f], shown'[f]),
         Written(main', i, block, f, r + Len(pipe1'[f]))
  PROVE  InFlow'
<1> SUFFICES ASSUME NEW g \in Files PROVE FlowAt(g)'
  BY DEF InFlow
<1>1. CASE g = f
  BY <1>1 DEF FlowAt
<1>2. CASE g # f
  <2>1. PICK q \in Nat : /\ Flow(q, pipe1[g], pipe2[g], matches[g], shown[g])
                         /\ Written(main, i, block, g, q + Len(pipe1[g]))
    BY DEF InFlow, FlowAt
  <2>2. Written(main', i', block', g, q + Len(pipe1'[g]))
    BY <1>2, <2>1
  <2>3. Flow(q, pipe1'[g], pipe2'[g], matches'[g], shown'[g])
    BY <1>2, <2>1
  <2>4. QED
    BY <2>2, <2>3 DEF FlowAt
<1>3. QED
  BY <1>1, <1>2

\* What main does keeps the flow: it writes the blocks of a file in order.
LEMMA MainKeepsFlow == ASSUME CgmInv, Main \/ Interrupt PROVE InFlow'
<1> USE DEF CgmInv
<1>i. i \in Files /\ Files \subseteq Nat /\ block \in Nat /\ block <= Blocks
  <2>1. i \in Files /\ block \in 0 .. Blocks /\ Blocks \in Nat
    BY MatchingType DEF CgmTypeOK
  <2>2. Files \subseteq Nat
    BY CatGrepMoreAssumption DEF Files
  <2>3. QED
    BY <2>1, <2>2
<1>1. CASE SetJmp
  BY <1>1, FlowStays DEF SetJmp, Goes, Written
<1>2. CASE Pipes
  BY <1>2, FlowStays DEF Pipes, Leave, Written
<1>3. CASE ForkGrep
  BY <1>3, FlowStays DEF ForkGrep, Leave, Written
<1>4. CASE ForkLess
  BY <1>4, FlowStays DEF ForkLess, Leave, Written
<1>5. CASE Open
  BY <1>5, FlowStays DEF Open, Goes, Leave, Written
<1>6. CASE ReadBlock
  <2>1. ASSUME NEW f \in Files, NEW n \in Nat, Written(main, i, block, f, n)
        PROVE  Written(main', i', block', f, n)
    BY <1>6, <1>i, <2>1 DEF ReadBlock, Goes, Leave, Written
  <2>2. QED
    BY <1>6, <2>1, FlowStays DEF ReadBlock
<1>7. CASE WriteBlock
  <2>1. CASE Leave("killed") /\ UNCHANGED pipe1
    BY <1>7, <2>1, FlowStays DEF WriteBlock, Leave, Written
  <2>2. CASE pipe1' = [pipe1 EXCEPT ![i] = Append(@, block)] /\ main' = "read"
    <3>1. PICK r \in Nat : /\ Flow(r, pipe1[i], pipe2[i], matches[i], shown[i])
                           /\ Written(main, i, block, i, r + Len(pipe1[i]))
      BY <1>i DEF InFlow, FlowAt
    <3>2. block = r + Len(pipe1[i]) + 1 /\ block \in 1 .. Blocks
      <4>1. r + Len(pipe1[i]) + 1 = block
        BY <1>7, <3>1 DEF WriteBlock, Written
      <4>2. Len(pipe1[i]) \in Nat /\ Blocks \in Nat
        BY <1>i, FlowTypes, MatchingType
      <4>3. QED
        BY <1>i, <4>1, <4>2
    <3>3. Flow(r, Append(pipe1[i], block), pipe2[i], matches[i], shown[i])
          /\ r + Len(Append(pipe1[i], block)) = block
      <4>1. pipe1[i] \in Seq(1 .. Blocks)
        BY <1>i, FlowTypes
      <4>2. QED
        BY <3>1, <3>2, <4>1, FlowSend
    <3>4. /\ pipe1'[i] = Append(pipe1[i], block)
          /\ \A g \in Files \ {i} : pipe1'[g] = pipe1[g]
      BY <1>i, <2>2 DEF CgmTypeOK
    <3>5. Written(main', i, block, i, r + Len(pipe1'[i]))
      BY <1>i, <2>2, <3>3, <3>4 DEF Written
    <3>6. \A g \in Files \ {i} : \A n :
            Written(main, i, block, g, n) => Written(main', i, block, g, n)
      BY <1>i DEF Written
    <3>7. UNCHANGED <<i, block, pipe2, matches, shown>>
      BY <1>7 DEF WriteBlock
    <3>8. QED
      BY <1>i, <3>3, <3>4, <3>5, <3>6, <3>7, FlowMoves
  <2>3. QED
    BY <1>7, <2>1, <2>2 DEF WriteBlock
<1>8. CASE Close
  BY <1>8, FlowStays DEF Close, Goes, Written
<1>9. CASE Wait
  <2>1. ASSUME NEW f \in Files, NEW n \in Nat, Written(main, i, block, f, n)
        PROVE  Written(main', i', block', f, n)
    <3>1. CASE i' = i + 1 /\ main' = "begin"
      BY <1>9, <1>i, <2>1, <3>1 DEF Wait, Written
    <3>2. CASE i' = i /\ main' = "returned"
      BY <1>9, <1>i, <2>1, <3>2 DEF Wait, Written
    <3>3. QED
      BY <1>9, <3>1, <3>2 DEF Wait, NextFile, Leave
  <2>2. QED
    BY <1>9, <2>1, FlowStays DEF Wait
<1>10. CASE Interrupt
  <2>1. main' \in {"undefined", "interrupted"} /\ UNCHANGED <<i, block, pipe1, pipe2, matches, shown>>
    BY <1>10 DEF Interrupt
  <2>2. QED
    BY <2>1, FlowStays DEF Written
<1>11. QED
  BY <1>1, <1>2, <1>3, <1>4, <1>5, <1>6, <1>7, <1>8, <1>9, <1>10 DEF Main

\* What grep and less do keeps the flow of their file.
LEMMA ChildKeepsFlow == ASSUME CgmInv, NEW f \in Files, Grep(f) \/ Less(f) PROVE InFlow'
<1> USE DEF CgmInv
<1>u. UNCHANGED <<main, i, block>>
  BY DEF Grep, Less, GrepExec, GrepFallsThrough, GrepRead, GrepEnd, GrepWrite, GrepKilled,
         LessExec, SecondMainEnds, SecondMainGone, LessRead, LessQuit
<1>t. /\ pipe1[f] \in Seq(1 .. Blocks) /\ pipe2[f] \in Seq(Seq(Matching))
      /\ matches[f] \in Seq(Matching) /\ shown[f] \in Seq(Matching)
  BY FlowTypes
<1>r. PICK r \in Nat : /\ Flow(r, pipe1[f], pipe2[f], matches[f], shown[f])
                       /\ Written(main, i, block, f, r + Len(pipe1[f]))
  BY DEF InFlow, FlowAt
<1>1. CASE UNCHANGED <<pipe1, pipe2, matches, shown>>
  BY <1>u, <1>1, FlowStays
<1>2. CASE GrepRead(f)
  <2> DEFINE h == Head(pipe1[f])
             t == IF h \in Matching THEN Append(matches[f], h) ELSE matches[f]
  <2>1. /\ pipe1'[f] = Tail(pipe1[f]) /\ matches'[f] = t /\ pipe1[f] # <<>>
        /\ pipe2'[f] = pipe2[f] /\ shown'[f] = shown[f]
        /\ \A g \in Files \ {f} : UNCHANGED <<pipe1[g], pipe2[g], matches[g], shown[g]>>
    BY <1>2 DEF GrepRead, CgmTypeOK
  <2>2. Flow(r + 1, Tail(pipe1[f]), pipe2[f], t, shown[f])
        /\ (r + 1) + Len(Tail(pipe1[f])) = r + Len(pipe1[f])
    BY <1>t, <1>r, <2>1, FlowRead
  <2> HIDE DEF t
  <2>3. Flow(r + 1, pipe1'[f], pipe2'[f], matches'[f], shown'[f])
    BY <2>1, <2>2
  <2>4. Written(main', i, block, f, (r + 1) + Len(pipe1'[f]))
    BY <1>r, <1>u, <2>1, <2>2
  <2>5. r + 1 \in Nat
    OBVIOUS
  <2>6. QED
    BY <1>u, <2>1, <2>3, <2>4, <2>5, FlowMoves
<1>3. CASE GrepWrite(f)
  <2>1. /\ pipe2'[f] = Append(pipe2[f], matches[f]) /\ matches'[f] = <<>>
        /\ pipe1'[f] = pipe1[f] /\ shown'[f] = shown[f]
        /\ \A g \in Files \ {f} : UNCHANGED <<pipe1[g], pipe2[g], matches[g], shown[g]>>
    BY <1>3 DEF GrepWrite, CgmTypeOK
  <2>2. Flow(r, pipe1'[f], pipe2'[f], matches'[f], shown'[f])
    BY <1>t, <1>r, <2>1, FlowWrite
  <2>3. Written(main', i, block, f, r + Len(pipe1'[f]))
    BY <1>r, <1>u, <2>1
  <2>4. QED
    BY <1>u, <2>1, <2>2, <2>3, FlowMoves
<1>4. CASE /\ LessRead(f) /\ pipe2[f] # <<>>
           /\ shown' = [shown EXCEPT ![f] = @ \o Head(pipe2[f])]
           /\ pipe2' = [pipe2 EXCEPT ![f] = Tail(@)]
  <2>1. /\ pipe2'[f] = Tail(pipe2[f]) /\ shown'[f] = shown[f] \o Head(pipe2[f])
        /\ pipe1'[f] = pipe1[f] /\ matches'[f] = matches[f]
        /\ \A g \in Files \ {f} : UNCHANGED <<pipe1[g], pipe2[g], matches[g], shown[g]>>
    BY <1>4 DEF LessRead, CgmTypeOK
  <2>2. Flow(r, pipe1'[f], pipe2'[f], matches'[f], shown'[f])
    <3>1. Flow(r, pipe1[f], Tail(pipe2[f]), matches[f], shown[f] \o Head(pipe2[f]))
      BY <1>4, <1>t, <1>r, FlowShow
    <3>2. QED
      BY <2>1, <3>1
  <2>3. Written(main', i, block, f, r + Len(pipe1'[f]))
    BY <1>r, <1>u, <2>1
  <2>4. QED
    BY <1>u, <2>1, <2>2, <2>3, FlowMoves
<1>5. QED
  BY <1>1, <1>2, <1>3, <1>4
  DEF Grep, Less, GrepExec, GrepFallsThrough, GrepEnd, GrepKilled,
      LessExec, SecondMainEnds, SecondMainGone, LessRead, LessQuit

-----------------------------------------------------------------------------
(***************************************************************************)
(* The types, action by action.                                            *)
(***************************************************************************)
\* What main does keeps the types.
LEMMA MainKeepsTypes == ASSUME CgmInv, Main \/ Interrupt PROVE CgmTypeOK'
<1> USE DEF CgmInv
<1>h. HoldersType
  BY DEF CgmTypeOK, HoldersType
<1>i. i \in Files /\ i \in Nat /\ NumFiles \in Nat /\ block \in 0 .. Blocks /\ Blocks \in Nat
  <2>1. i \in Files /\ block \in 0 .. Blocks
    BY DEF CgmTypeOK
  <2>2. Files \subseteq Nat /\ NumFiles \in Nat /\ Blocks \in Nat
    BY CatGrepMoreAssumption DEF Files
  <2>3. QED
    BY <2>1, <2>2
<1>l. ASSUME NEW how \in {"failed", "killed", "returned"}, Leave(how)
      PROVE  HoldersType' /\ main' = how
  BY <1>h, <1>l, LeaveEnds DEF Leave
<1>1. CASE SetJmp
  BY <1>1 DEF SetJmp, Goes, CgmTypeOK
<1>2. CASE Pipes
  <2>1. HoldersType' /\ main' \in {"fork_grep", "failed"}
    BY <1>2, <1>h, <1>l DEF Pipes, HoldersType
  <2>2. QED
    BY <1>2, <2>1 DEF Pipes, CgmTypeOK, HoldersType
<1>3. CASE ForkGrep
  <2>1. HoldersType' /\ main' \in {"fork_less", "failed"}
    BY <1>3, <1>h, <1>l DEF ForkGrep, HoldersType, GrepInherits
  <2>2. QED
    BY <1>3, <2>1 DEF ForkGrep, CgmTypeOK, HoldersType
<1>4. CASE ForkLess
  <2>1. LessInherits \in [PipeEnds -> SUBSET {"main", "grep", "less"}]
    BY <1>h, <1>i DEF HoldersType, LessInherits
  <2>2. HoldersType' /\ main' \in {"open", "failed"}
    BY <1>4, <1>h, <1>l, <2>1 DEF ForkLess, HoldersType
  <2>3. QED
    BY <1>4, <2>2 DEF ForkLess, CgmTypeOK, HoldersType
<1>5. CASE Open
  <2>1. HoldersType' /\ main' \in {"read", "failed"} /\ block' \in 0 .. Blocks
    BY <1>5, <1>h, <1>i, <1>l DEF Open, Goes, HoldersType
  <2>2. QED
    BY <1>5, <2>1 DEF Open, CgmTypeOK, HoldersType
<1>6. CASE ReadBlock
  <2>1. HoldersType' /\ main' \in {"write", "close", "failed"} /\ block' \in 0 .. Blocks
    BY <1>6, <1>h, <1>i, <1>l DEF ReadBlock, Goes, HoldersType
  <2>2. QED
    BY <1>6, <2>1 DEF ReadBlock, CgmTypeOK, HoldersType
<1>7. CASE WriteBlock
  <2>1. CASE Leave("killed") /\ UNCHANGED pipe1
    <3>1. HoldersType' /\ main' = "killed"
      BY <1>l, <2>1
    <3>2. QED
      BY <1>7, <2>1, <3>1 DEF WriteBlock, CgmTypeOK, HoldersType
  <2>2. CASE /\ Len(pipe1[i]) < PipeSize /\ main' = "read" /\ UNCHANGED holders
             /\ pipe1' = [pipe1 EXCEPT ![i] = Append(@, block)]
    <3>1. PICK r \in Nat : Written(main, i, block, i, r + Len(pipe1[i]))
      BY <1>i DEF InFlow, FlowAt
    <3>2. pipe1[i] \in Seq(1 .. Blocks) /\ Len(pipe1[i]) \in Nat
      BY <1>i, FlowTypes
    <3>3. block \in 1 .. Blocks
      <4>1. r + Len(pipe1[i]) + 1 = block
        BY <1>7, <3>1 DEF WriteBlock, Written
      <4>2. QED
        BY <1>i, <3>2, <4>1
    <3>4. Append(pipe1[i], block) \in Seq(1 .. Blocks) /\ Len(Append(pipe1[i], block)) <= PipeSize
      BY <2>2, <3>2, <3>3, CatGrepMoreAssumption
    <3>5. pipe1' \in [Files -> Seq(1 .. Blocks)]
      BY <2>2, <3>4 DEF CgmTypeOK
    <3>6. \A f \in Files : Len(pipe1'[f]) <= PipeSize
      BY <1>i, <2>2, <3>4 DEF CgmTypeOK
    <3>7. QED
      BY <1>7, <2>2, <3>5, <3>6 DEF WriteBlock, CgmTypeOK
  <2>3. QED
    BY <1>7, <2>1, <2>2 DEF WriteBlock
<1>8. CASE Close
  <2>1. HoldersType'
    BY <1>8, <1>h, <1>i, ClosedEnds DEF Close
  <2>2. QED
    BY <1>8, <2>1 DEF Close, Goes, CgmTypeOK, HoldersType
<1>9. CASE Wait
  <2>1. HoldersType' /\ main' \in {"begin", "returned"} /\ i' \in Files
    <3>1. i < NumFiles => i + 1 \in Files
      BY <1>i DEF Files
    <3>2. QED
      BY <1>9, <1>h, <1>i, <1>l, <3>1 DEF Wait, NextFile, HoldersType
  <2>2. /\ grep' \in [Files -> {"none", "born", "failing", "failed", "reading", "writing",
                                "flushing", "exited", "reaped"}]
        /\ less' \in [Files -> {"none", "born", "second main", "starting", "showing", "exited", "reaped"}]
    BY <1>9 DEF Wait, CgmTypeOK
  <2>3. QED
    BY <1>9, <2>1, <2>2 DEF Wait, CgmTypeOK, HoldersType
<1>10. CASE Interrupt
  <2>1. HoldersType'
    BY <1>10, <1>h DEF Interrupt, HoldersType
  <2>2. /\ grep' \in [Files -> {"none", "born", "failing", "failed", "reading", "writing",
                                "flushing", "exited", "reaped"}]
        /\ less' \in [Files -> {"none", "born", "second main", "starting", "showing", "exited", "reaped"}]
        /\ main' \in {"undefined", "interrupted"}
    BY <1>10 DEF Interrupt, CgmTypeOK
  <2>3. QED
    BY <1>10, <2>1, <2>2 DEF Interrupt, CgmTypeOK, HoldersType
<1>11. QED
  BY <1>1, <1>2, <1>3, <1>4, <1>5, <1>6, <1>7, <1>8, <1>9, <1>10 DEF Main

\* What grep and less do keeps the types.
LEMMA ChildKeepsTypes == ASSUME CgmInv, NEW f \in Files, Grep(f) \/ Less(f) PROVE CgmTypeOK'
<1> USE DEF CgmInv
<1>h. HoldersType
  BY DEF CgmTypeOK, HoldersType
<1>t. /\ pipe1[f] \in Seq(1 .. Blocks) /\ Len(pipe1[f]) \in Nat
      /\ pipe2[f] \in Seq(Seq(Matching))
      /\ matches[f] \in Seq(Matching) /\ shown[f] \in Seq(Matching)
  BY FlowTypes
<1>s. PipeSize \in Nat /\ Len(pipe1[f]) <= PipeSize /\ Len(pipe2[f]) <= PipeSize
  BY CatGrepMoreAssumption DEF CgmTypeOK
<1>1. CASE GrepExec(f)
  <2>1. HoldersType'
    BY <1>1, <1>h, ClosedEnds DEF GrepExec
  <2>2. QED
    BY <1>1, <2>1 DEF GrepExec, CgmTypeOK, HoldersType
<1>2. CASE GrepFallsThrough(f)
  <2>1. HoldersType'
    BY <1>2, <1>h, ClosedEnds DEF GrepFallsThrough
  <2>2. QED
    BY <1>2, <2>1 DEF GrepFallsThrough, CgmTypeOK, HoldersType
<1>3. CASE GrepRead(f)
  <2>1. Tail(pipe1[f]) \in Seq(1 .. Blocks) /\ Len(Tail(pipe1[f])) <= PipeSize
    <3>1. pipe1[f] # <<>> /\ pipe1[f] \in Seq(1 .. Blocks)
      BY <1>3, <1>t DEF GrepRead
    <3>2. Tail(pipe1[f]) \in Seq(1 .. Blocks) /\ Len(Tail(pipe1[f])) = Len(pipe1[f]) - 1
      BY <3>1, HeadTailProperties
    <3>3. QED
      BY <1>t, <1>s, <3>2
  <2>2. pipe1' \in [Files -> Seq(1 .. Blocks)] /\ \A g \in Files : Len(pipe1'[g]) <= PipeSize
    BY <1>3, <2>1 DEF GrepRead, CgmTypeOK
  <2>3. matches' \in [Files -> Seq(Matching)]
    <3>1. ASSUME Head(pipe1[f]) \in Matching
          PROVE  Append(matches[f], Head(pipe1[f])) \in Seq(Matching)
      BY <1>t, <3>1
    <3>2. matches \in [Files -> Seq(Matching)]
      BY DEF CgmTypeOK
    <3>3. matches' = [matches EXCEPT ![f] =
                        IF Head(pipe1[f]) \in Matching THEN Append(@, Head(pipe1[f])) ELSE @]
      BY <1>3 DEF GrepRead
    <3>4. QED
      BY <1>t, <3>1, <3>2, <3>3
  <2>4. grep' \in [Files -> {"none", "born", "failing", "failed", "reading", "writing",
                            "flushing", "exited", "reaped"}]
    BY <1>3 DEF GrepRead, CgmTypeOK
  <2>5. QED
    BY <1>3, <2>2, <2>3, <2>4 DEF GrepRead, CgmTypeOK
<1>4. CASE GrepEnd(f)
  <2>1. HoldersType'
    BY <1>4, <1>h, ClosedEnds DEF GrepEnd, GrepExits, HoldersType
  <2>2. QED
    BY <1>4, <2>1 DEF GrepEnd, GrepExits, CgmTypeOK, HoldersType
<1>5. CASE GrepWrite(f)
  <2>1. HoldersType'
    BY <1>5, <1>h, ClosedEnds DEF GrepWrite, GrepExits, HoldersType
  <2>2. Append(pipe2[f], matches[f]) \in Seq(Seq(Matching))
        /\ Len(Append(pipe2[f], matches[f])) <= PipeSize
    BY <1>5, <1>t, <1>s DEF GrepWrite
  <2>3. pipe2' \in [Files -> Seq(Seq(Matching))] /\ \A g \in Files : Len(pipe2'[g]) <= PipeSize
    BY <1>5, <2>2 DEF GrepWrite, CgmTypeOK
  <2>4. matches' \in [Files -> Seq(Matching)]
    <3>1. <<>> \in Seq(Matching)
      OBVIOUS
    <3>2. QED
      BY <1>5, <3>1 DEF GrepWrite, CgmTypeOK
  <2>5. grep' \in [Files -> {"none", "born", "failing", "failed", "reading", "writing",
                            "flushing", "exited", "reaped"}]
    BY <1>5 DEF GrepWrite, GrepExits, CgmTypeOK
  <2>6. QED
    BY <1>5, <2>1, <2>3, <2>4, <2>5 DEF GrepWrite, CgmTypeOK, HoldersType
<1>6. CASE GrepKilled(f)
  <2>1. HoldersType'
    BY <1>6, <1>h, ClosedEnds DEF GrepKilled, GrepExits
  <2>2. QED
    BY <1>6, <2>1 DEF GrepKilled, GrepExits, CgmTypeOK, HoldersType
<1>7. CASE LessExec(f)
  <2>1. HoldersType'
    BY <1>7, <1>h, ClosedEnds DEF LessExec
  <2>2. QED
    BY <1>7, <2>1 DEF LessExec, CgmTypeOK, HoldersType
<1>8. CASE SecondMainEnds(f)
  BY <1>8 DEF SecondMainEnds, CgmTypeOK
<1>9. CASE SecondMainGone(f)
  <2>1. HoldersType'
    BY <1>9, <1>h, ClosedEnds DEF SecondMainGone
  <2>2. QED
    BY <1>9, <2>1 DEF SecondMainGone, CgmTypeOK, HoldersType
<1>10. CASE LessRead(f)
  <2>1. CASE UNCHANGED <<shown, pipe2>>
    BY <1>10, <2>1 DEF LessRead, CgmTypeOK
  <2>2. CASE /\ pipe2[f] # <<>>
             /\ shown' = [shown EXCEPT ![f] = @ \o Head(pipe2[f])]
             /\ pipe2' = [pipe2 EXCEPT ![f] = Tail(@)]
    <3>1. /\ Tail(pipe2[f]) \in Seq(Seq(Matching)) /\ Len(Tail(pipe2[f])) <= PipeSize
          /\ Head(pipe2[f]) \in Seq(Matching)
      BY <1>t, <1>s, <2>2
    <3>2. shown[f] \o Head(pipe2[f]) \in Seq(Matching)
      BY <1>t, <3>1
    <3>3. pipe2' \in [Files -> Seq(Seq(Matching))] /\ \A g \in Files : Len(pipe2'[g]) <= PipeSize
      BY <2>2, <3>1 DEF CgmTypeOK
    <3>4. shown' \in [Files -> Seq(Matching)]
      BY <2>2, <3>2 DEF CgmTypeOK
    <3>5. less' \in [Files -> {"none", "born", "second main", "starting", "showing", "exited", "reaped"}]
      BY <1>10 DEF LessRead, CgmTypeOK
    <3>6. QED
      BY <1>10, <3>3, <3>4, <3>5 DEF LessRead, CgmTypeOK
  <2>3. QED
    BY <1>10, <2>1, <2>2 DEF LessRead
<1>11. CASE LessQuit(f)
  <2>1. HoldersType'
    BY <1>11, <1>h, ClosedEnds DEF LessQuit
  <2>2. QED
    BY <1>11, <2>1 DEF LessQuit, CgmTypeOK, HoldersType
<1>12. QED
  BY <1>1, <1>2, <1>3, <1>4, <1>5, <1>6, <1>7, <1>8, <1>9, <1>10, <1>11 DEF Grep, Less

-----------------------------------------------------------------------------
(***************************************************************************)
(* The processes and the ends they hold, action by action.                 *)
(***************************************************************************)
EndsInv == Children /\ MainHolds /\ GrepHolds /\ LessHolds /\ KilledOnlyAfterQuit

\* A child that takes a step may end when main has nothing to write to it any
\* more, or, a grep, when its less ended before.
LEMMA ChildStep ==
  ASSUME CgmTypeOK, EndsInv, NEW f \in Files, UNCHANGED <<main, i>>,
         \A g \in Files \ {f} : /\ UNCHANGED <<grep[g], less[g]>>
                                /\ \A e \in PipeEnds : UNCHANGED holders[g][e],
         \A e \in PipeEnds : "main" \in holders[f][e] => "main" \in holders'[f][e],
         grep'[f] = grep[f] \/ (grep[f] # "none" /\ grep'[f] # "none"),
         less'[f] = less[f] \/ (less[f] # "none" /\ less'[f] # "none"),
         grep'[f] \in {"born", "failing", "reading", "writing", "flushing"}
           => "grep" \in holders'[f]["pipe1fds[0]"],
         less'[f] \in {"born", "second main", "starting", "showing"}
           => "less" \in holders'[f]["pipe2fds[0]"],
         main \in Feeding /\ f = i =>
           /\ grep'[f] \in {"born", "failing", "failed", "reading", "writing", "exited"}
           /\ grep'[f] = "exited" => less'[f] \in {"exited", "reaped"},
         less[f] \in {"exited", "reaped"} => less'[f] \in {"exited", "reaped"},
         grep[f] = "failed" => grep'[f] = "failed"
  PROVE  EndsInv'
<1> USE DEF EndsInv
<1>i. i \in Files /\ \A g \in Files : g \in Nat
  BY FilesType DEF CgmTypeOK
<1>p. "pipe1fds[0]" \in PipeEnds /\ "pipe1fds[1]" \in PipeEnds /\ "pipe2fds[0]" \in PipeEnds
  BY DEF PipeEnds
<1>1. Children'
  <2>1. CASE f = i
    BY <1>i, <2>1 DEF Children, Feeding
  <2>2. CASE f # i
    BY <1>i, <2>2 DEF Children, Feeding
  <2>3. QED
    BY <2>1, <2>2
<1>2. MainHolds'
  BY <1>i, <1>p DEF MainHolds
<1>3. GrepHolds'
  BY <1>p DEF GrepHolds
<1>4. LessHolds'
  BY <1>p DEF LessHolds
<1>5. KilledOnlyAfterQuit'
  BY <1>i DEF KilledOnlyAfterQuit
<1>6. QED
  BY <1>1, <1>2, <1>3, <1>4, <1>5

\* A grep that takes a step, and closes some of its ends or none.
LEMMA GrepStep ==
  ASSUME CgmTypeOK, EndsInv, NEW f \in Files, UNCHANGED <<main, i, less>>,
         NEW ends, OnlyCloses(f, "grep", ends),
         \A g \in Files \ {f} : grep'[g] = grep[g],
         grep[f] \notin {"none", "failed"}, grep'[f] # "none",
         grep'[f] \in {"born", "failing", "reading", "writing", "flushing"} =>
           /\ grep[f] \in {"born", "failing", "reading", "writing", "flushing"}
           /\ "pipe1fds[0]" \notin ends,
         main \in Feeding /\ f = i =>
           /\ grep'[f] \in {"born", "failing", "failed", "reading", "writing", "exited"}
           /\ grep'[f] = "exited" => less[f] \in {"exited", "reaped"}
  PROVE  EndsInv'
<1>p. "pipe1fds[0]" \in PipeEnds /\ "pipe2fds[0]" \in PipeEnds
  BY DEF PipeEnds
<1>1. /\ \A g \in Files \ {f} : \A e \in PipeEnds : holders'[g][e] = holders[g][e]
      /\ \A e \in PipeEnds :
           /\ "main" \in holders[f][e] => "main" \in holders'[f][e]
           /\ "less" \in holders[f][e] => "less" \in holders'[f][e]
           /\ e \notin ends => holders'[f][e] = holders[f][e]
  BY DEF OnlyCloses
<1>2. grep'[f] \in {"born", "failing", "reading", "writing", "flushing"}
        => "grep" \in holders'[f]["pipe1fds[0]"]
  BY <1>p, <1>1 DEF EndsInv, GrepHolds
<1>3. less[f] \in {"born", "second main", "starting", "showing"}
        => "less" \in holders'[f]["pipe2fds[0]"]
  BY <1>p, <1>1 DEF EndsInv, LessHolds
<1>4. /\ \A g \in Files \ {f} : UNCHANGED <<grep[g], less[g]>>
      /\ grep[f] # "none" /\ grep'[f] # "none" /\ grep[f] # "failed" /\ less'[f] = less[f]
  OBVIOUS
<1>5. main \in Feeding /\ f = i =>
        /\ grep'[f] \in {"born", "failing", "failed", "reading", "writing", "exited"}
        /\ grep'[f] = "exited" => less'[f] \in {"exited", "reaped"}
  BY <1>4
<1>6. QED
  BY <1>1, <1>2, <1>3, <1>4, <1>5, ChildStep

\* A less, or second main, that takes a step.
LEMMA LessStep ==
  ASSUME CgmTypeOK, EndsInv, NEW f \in Files, UNCHANGED <<main, i, grep>>,
         NEW ends, OnlyCloses(f, "less", ends),
         \A g \in Files \ {f} : less'[g] = less[g],
         less[f] # "none", less'[f] # "none",
         less[f] \in {"exited", "reaped"} => less'[f] \in {"exited", "reaped"},
         less'[f] \in {"born", "second main", "starting", "showing"} =>
           /\ less[f] \in {"born", "second main", "starting", "showing"}
           /\ "pipe2fds[0]" \notin ends
  PROVE  EndsInv'
<1>p. "pipe1fds[0]" \in PipeEnds /\ "pipe2fds[0]" \in PipeEnds
  BY DEF PipeEnds
<1>1. /\ \A g \in Files \ {f} : \A e \in PipeEnds : holders'[g][e] = holders[g][e]
      /\ \A e \in PipeEnds :
           /\ "main" \in holders[f][e] => "main" \in holders'[f][e]
           /\ "grep" \in holders[f][e] => "grep" \in holders'[f][e]
           /\ e \notin ends => holders'[f][e] = holders[f][e]
  BY DEF OnlyCloses
<1>2. less'[f] \in {"born", "second main", "starting", "showing"}
        => "less" \in holders'[f]["pipe2fds[0]"]
  BY <1>p, <1>1 DEF EndsInv, LessHolds
<1>3. grep[f] \in {"born", "failing", "reading", "writing", "flushing"}
        => "grep" \in holders'[f]["pipe1fds[0]"]
  BY <1>p, <1>1 DEF EndsInv, GrepHolds
<1>4. main \in Feeding /\ f = i =>
        /\ grep[f] \in {"born", "failing", "failed", "reading", "writing", "exited"}
        /\ grep[f] = "exited" => less'[f] \in {"exited", "reaped"}
  BY DEF EndsInv, Children
<1>5. /\ \A g \in Files \ {f} : UNCHANGED <<grep[g], less[g]>>
      /\ less[f] # "none" /\ less'[f] # "none" /\ grep'[f] = grep[f]
  OBVIOUS
<1>6. QED
  BY <1>1, <1>2, <1>3, <1>4, <1>5, ChildStep

\* What grep and less do keeps who holds which end, and who may be gone.
LEMMA ChildKeepsEnds == ASSUME CgmInv, NEW f \in Files, Grep(f) \/ Less(f) PROVE EndsInv'
<1>e. EndsInv /\ CgmTypeOK /\ HoldersType
  BY DEF CgmInv, EndsInv, CgmTypeOK, HoldersType
<1>g. main \in Feeding /\ f = i =>
        /\ grep[f] \in {"born", "failing", "failed", "reading", "writing", "exited"}
        /\ "main" \in holders[f]["pipe1fds[1]"]
        /\ main = "fork_less" => "main" \in holders[f]["pipe2fds[0]"]
        /\ main # "fork_less" => less[f] # "none"
  BY <1>e DEF EndsInv, Children, MainHolds
<1>n. holders' = holders => OnlyCloses(f, "grep", {}) /\ OnlyCloses(f, "less", {})
  BY DEF OnlyCloses
<1>1. CASE GrepExec(f)
  <2>1. /\ grep[f] = "born" /\ grep'[f] \in {"reading", "failing"} /\ UNCHANGED <<main, i, less>>
        /\ \A g \in Files \ {f} : grep'[g] = grep[g]
    BY <1>1, <1>e DEF GrepExec, CgmTypeOK
  <2>2. OnlyCloses(f, "grep", GrepCloses)
    BY <1>1, <1>e, ClosedEnds DEF GrepExec
  <2>3. "pipe1fds[0]" \notin GrepCloses
    BY DEF GrepCloses
  <2>4. QED
    BY <1>e, <2>1, <2>2, <2>3, GrepStep
<1>2. CASE GrepFallsThrough(f)
  <2>1. /\ grep[f] = "failing" /\ grep'[f] = "failed" /\ UNCHANGED <<main, i, less>>
        /\ \A g \in Files \ {f} : grep'[g] = grep[g]
    BY <1>2, <1>e DEF GrepFallsThrough, CgmTypeOK
  <2>2. OnlyCloses(f, "grep", PipeEnds)
    BY <1>2, <1>e, ClosedEnds DEF GrepFallsThrough
  <2>3. QED
    BY <1>e, <2>1, <2>2, GrepStep
<1>3. CASE GrepRead(f)
  <2>1. /\ grep[f] = "reading" /\ grep'[f] \in {"reading", "writing"}
        /\ UNCHANGED <<main, i, less, holders>>
        /\ \A g \in Files \ {f} : grep'[g] = grep[g]
    BY <1>3, <1>e DEF GrepRead, CgmTypeOK
  <2>2. QED
    BY <1>e, <1>n, <2>1, GrepStep
<1>x. ASSUME GrepExits(f)
      PROVE  /\ grep'[f] = "exited" /\ OnlyCloses(f, "grep", PipeEnds)
             /\ \A g \in Files \ {f} : grep'[g] = grep[g]
  <2>1. OnlyCloses(f, "grep", PipeEnds)
    BY <1>x, <1>e, ClosedEnds DEF GrepExits
  <2>2. QED
    BY <1>x, <1>e, <2>1 DEF GrepExits, CgmTypeOK
<1>4. CASE GrepEnd(f)
  <2>1. grep[f] = "reading" /\ UNCHANGED <<main, i, less>>
    BY <1>4 DEF GrepEnd
  <2>2. ~(main \in Feeding /\ f = i)
    BY <1>4, <1>g DEF GrepEnd
  <2>3. CASE GrepExits(f)
    BY <1>e, <1>x, <2>1, <2>2, <2>3, GrepStep
  <2>4. CASE grep' = [grep EXCEPT ![f] = "flushing"] /\ UNCHANGED holders
    <3>1. grep'[f] = "flushing" /\ \A g \in Files \ {f} : grep'[g] = grep[g]
      BY <1>e, <2>4 DEF CgmTypeOK
    <3>2. QED
      BY <1>e, <1>n, <2>1, <2>2, <2>4, <3>1, GrepStep
  <2>5. QED
    BY <1>4, <2>3, <2>4 DEF GrepEnd
<1>5. CASE GrepWrite(f)
  <2>1. UNCHANGED <<main, i, less>>
    BY <1>5 DEF GrepWrite
  <2>2. CASE grep[f] = "writing" /\ grep' = [grep EXCEPT ![f] = "reading"] /\ UNCHANGED holders
    <3>1. grep'[f] = "reading" /\ \A g \in Files \ {f} : grep'[g] = grep[g]
      BY <1>e, <2>2 DEF CgmTypeOK
    <3>2. QED
      BY <1>e, <1>n, <2>1, <2>2, <3>1, GrepStep
  <2>3. CASE grep[f] = "flushing" /\ GrepExits(f)
    <3>1. ~(main \in Feeding /\ f = i)
      BY <1>g, <2>3
    <3>2. QED
      BY <1>e, <1>x, <2>1, <2>3, <3>1, GrepStep
  <2>4. QED
    BY <1>5, <2>2, <2>3 DEF GrepWrite
<1>6. CASE GrepKilled(f)
  <2>1. grep[f] \in {"writing", "flushing"} /\ UNCHANGED <<main, i, less>> /\ GrepExits(f)
    BY <1>6 DEF GrepKilled
  <2>2. ASSUME main \in Feeding, f = i PROVE less[f] \in {"exited", "reaped"}
    <3>1. less[f] \notin {"born", "second main", "starting", "showing"}
      BY <1>6, <1>e DEF GrepKilled, EndsInv, LessHolds
    <3>2. less[f] # "none"
      BY <1>6, <1>g, <2>2 DEF GrepKilled
    <3>3. less[f] \in {"none", "born", "second main", "starting", "showing", "exited", "reaped"}
      BY <1>e DEF CgmTypeOK
    <3>4. QED
      BY <3>1, <3>2, <3>3
  <2>3. QED
    BY <1>e, <1>x, <2>1, <2>2, GrepStep
<1>7. CASE LessExec(f)
  <2>1. /\ less[f] = "born" /\ less'[f] \in {"starting", "second main"} /\ UNCHANGED <<main, i, grep>>
        /\ \A g \in Files \ {f} : less'[g] = less[g]
    BY <1>7, <1>e DEF LessExec, CgmTypeOK
  <2>2. OnlyCloses(f, "less", LessCloses)
    BY <1>7, <1>e, ClosedEnds DEF LessExec
  <2>3. "pipe2fds[0]" \notin LessCloses
    BY DEF LessCloses
  <2>4. QED
    BY <1>e, <2>1, <2>2, <2>3, LessStep
<1>8. CASE SecondMainEnds(f)
  <2>1. /\ less[f] = "second main" /\ less'[f] = "exited" /\ UNCHANGED <<main, i, grep, holders>>
        /\ \A g \in Files \ {f} : less'[g] = less[g]
    BY <1>8, <1>e DEF SecondMainEnds, CgmTypeOK
  <2>2. QED
    BY <1>e, <1>n, <2>1, LessStep
<1>9. CASE SecondMainGone(f)
  <2>1. less[f] \in {"exited", "reaped"} /\ UNCHANGED <<main, i, grep, less>>
    BY <1>9 DEF SecondMainGone
  <2>2. OnlyCloses(f, "less", PipeEnds)
    BY <1>9, <1>e, ClosedEnds DEF SecondMainGone
  <2>3. QED
    BY <1>e, <2>1, <2>2, LessStep
<1>10. CASE LessRead(f)
  <2>1. /\ less[f] \in {"starting", "showing"} /\ less'[f] = "showing"
        /\ UNCHANGED <<main, i, grep, holders>>
        /\ \A g \in Files \ {f} : less'[g] = less[g]
    BY <1>10, <1>e DEF LessRead, CgmTypeOK
  <2>2. QED
    BY <1>e, <1>n, <2>1, LessStep
<1>11. CASE LessQuit(f)
  <2>1. /\ less[f] = "showing" /\ less'[f] = "exited" /\ UNCHANGED <<main, i, grep>>
        /\ \A g \in Files \ {f} : less'[g] = less[g]
    BY <1>11, <1>e DEF LessQuit, CgmTypeOK
  <2>2. OnlyCloses(f, "less", PipeEnds)
    BY <1>11, <1>e, ClosedEnds DEF LessQuit
  <2>3. QED
    BY <1>e, <2>1, <2>2, LessStep
<1>12. QED
  BY <1>1, <1>2, <1>3, <1>4, <1>5, <1>6, <1>7, <1>8, <1>9, <1>10, <1>11 DEF Grep, Less

\* What main does keeps who holds which end, and who may be gone.
LEMMA MainKeepsEnds == ASSUME CgmInv, Main \/ Interrupt PROVE EndsInv'
<1>e. EndsInv /\ CgmTypeOK /\ HoldersType
  BY DEF CgmInv, EndsInv, CgmTypeOK, HoldersType
<1>i. i \in Files /\ \A g \in Files : g \in Nat
  BY <1>e, FilesType DEF CgmTypeOK
<1>p. PipeEnds = {"pipe1fds[0]", "pipe1fds[1]", "pipe2fds[0]", "pipe2fds[1]"}
  BY DEF PipeEnds
\* main stays at its file and goes where nothing is asked of it.
<1>l. ASSUME NEW how \in {"failed", "returned"}, Leave(how), i' = i, main # "killed",
             \A f \in Files : /\ f > i => grep'[f] = grep[f] /\ less'[f] = less[f]
                              /\ grep'[f] = grep[f] \/ grep'[f] = "reaped"
                              /\ less'[f] = less[f] \/ less'[f] = "reaped"
      PROVE  EndsInv'
  <2>1. /\ main' = how /\ \A g \in Files, e \in PipeEnds : holders'[g][e] = holders[g][e] \ {"main"}
    BY <1>e, <1>l, LeaveEnds DEF Leave
  <2>2. Children'
    <3>1. ASSUME NEW f \in Files, f > i PROVE grep'[f] = "none" /\ less'[f] = "none"
      <4>1. grep[f] = "none" /\ less[f] = "none"
        BY <1>e, <3>1 DEF EndsInv, Children
      <4>2. grep'[f] = grep[f] /\ less'[f] = less[f]
        BY <1>l, <3>1
      <4>3. QED
        BY <4>1, <4>2
    <3>2. main' \notin Feeding /\ main' \notin {"begin", "pipes", "fork_grep"} /\ i' = i
      BY <1>l, <2>1 DEF Feeding
    <3>3. "fork_less" \in Feeding
      BY DEF Feeding
    <3>4. QED
      BY <3>1, <3>2, <3>3 DEF Children
  <2>3. MainHolds' /\ KilledOnlyAfterQuit'
    BY <2>1 DEF MainHolds, KilledOnlyAfterQuit, Feeding
  <2>4. GrepHolds' /\ LessHolds'
    <3>1. ASSUME NEW f \in Files,
                 grep'[f] \in {"born", "failing", "reading", "writing", "flushing"}
          PROVE  "grep" \in holders'[f]["pipe1fds[0]"]
      <4>1. grep'[f] # "reaped"
        BY <3>1
      <4>2. grep'[f] = grep[f]
        BY <1>l, <4>1
      <4>3. QED
        BY <1>e, <1>p, <2>1, <3>1, <4>2 DEF EndsInv, GrepHolds
    <3>2. ASSUME NEW f \in Files,
                 less'[f] \in {"born", "second main", "starting", "showing"}
          PROVE  "less" \in holders'[f]["pipe2fds[0]"]
      <4>1. less'[f] = less[f]
        BY <1>l, <3>2
      <4>2. QED
        BY <1>e, <1>p, <2>1, <3>2, <4>1 DEF EndsInv, LessHolds
    <3>3. QED
      BY <3>1, <3>2 DEF GrepHolds, LessHolds
  <2>5. QED
    BY <2>2, <2>3, <2>4 DEF EndsInv
<1>1. CASE SetJmp
  BY <1>1, <1>e DEF SetJmp, Goes, EndsInv, Children, MainHolds, GrepHolds, LessHolds,
                    KilledOnlyAfterQuit, Feeding
<1>2. CASE Pipes
  <2>1. CASE Leave("failed")
    BY <1>2, <1>l, <2>1 DEF Pipes
  <2>2. CASE main' = "fork_grep" /\ holders' = [holders EXCEPT ![i] = [e \in PipeEnds |-> {"main"}]]
    <3>1. /\ \A e \in PipeEnds : holders'[i][e] = {"main"}
          /\ \A g \in Files \ {i} : holders'[g] = holders[g]
          /\ UNCHANGED <<i, grep, less>>
      BY <1>2, <1>e, <1>i, <2>2 DEF HoldersType, Pipes
    <3>2. grep[i] = "none" /\ less[i] = "none"
      BY <1>2, <1>e, <1>i DEF Pipes, EndsInv, Children
    <3>3. Children'
      BY <1>2, <1>e, <2>2, <3>1 DEF Pipes, EndsInv, Children, Feeding
    <3>4. MainHolds' /\ KilledOnlyAfterQuit'
      BY <2>2, <3>1 DEF MainHolds, KilledOnlyAfterQuit, Feeding
    <3>5. GrepHolds' /\ LessHolds'
      BY <1>e, <3>1, <3>2 DEF EndsInv, GrepHolds, LessHolds
    <3>6. QED
      BY <3>3, <3>4, <3>5 DEF EndsInv
  <2>3. QED
    BY <1>2, <2>1, <2>2 DEF Pipes
<1>3. CASE ForkGrep
  <2>1. CASE Leave("failed") /\ UNCHANGED grep
    BY <1>3, <1>l, <2>1 DEF ForkGrep
  <2>2. CASE /\ main' = "fork_less" /\ holders' = [holders EXCEPT ![i] = GrepInherits]
             /\ grep' = [grep EXCEPT ![i] = "born"]
    <3>1. /\ \A e \in PipeEnds : holders'[i][e] = GrepInherits[e]
          /\ \A g \in Files \ {i} : holders'[g] = holders[g] /\ grep'[g] = grep[g]
          /\ grep'[i] = "born" /\ UNCHANGED <<i, less>>
      BY <1>3, <1>e, <1>i, <2>2 DEF HoldersType, ForkGrep, CgmTypeOK
    <3>2. "grep" \in holders'[i]["pipe1fds[0]"] /\ "main" \in holders'[i]["pipe1fds[1]"]
          /\ "main" \in holders'[i]["pipe2fds[0]"]
      BY <1>p, <3>1 DEF GrepInherits
    <3>3. less[i] = "none"
      BY <1>3, <1>e, <1>i DEF ForkGrep, EndsInv, Children
    <3>4. Children'
      BY <1>3, <1>e, <1>i, <2>2, <3>1, <3>3 DEF ForkGrep, EndsInv, Children, Feeding
    <3>5. MainHolds' /\ KilledOnlyAfterQuit'
      BY <2>2, <3>1, <3>2 DEF MainHolds, KilledOnlyAfterQuit, Feeding
    <3>6. GrepHolds' /\ LessHolds'
      BY <1>e, <3>1, <3>2, <3>3 DEF EndsInv, GrepHolds, LessHolds
    <3>7. QED
      BY <3>4, <3>5, <3>6 DEF EndsInv
  <2>3. QED
    BY <1>3, <2>1, <2>2 DEF ForkGrep
<1>4. CASE ForkLess
  <2>1. CASE Leave("failed") /\ UNCHANGED less
    BY <1>4, <1>l, <2>1 DEF ForkLess
  <2>2. CASE /\ main' = "open" /\ holders' = [holders EXCEPT ![i] = LessInherits]
             /\ less' = [less EXCEPT ![i] = "born"]
    <3>1. /\ \A e \in PipeEnds : holders'[i][e] = LessInherits[e]
          /\ \A g \in Files \ {i} : holders'[g] = holders[g] /\ less'[g] = less[g]
          /\ less'[i] = "born" /\ UNCHANGED <<i, grep>>
      BY <1>4, <1>e, <1>i, <2>2 DEF HoldersType, ForkLess, CgmTypeOK
    <3>2. /\ "less" \in holders'[i]["pipe2fds[0]"]
          /\ "main" \in holders'[i]["pipe1fds[1]"]
          /\ "grep" \in holders[i]["pipe1fds[0]"] => "grep" \in holders'[i]["pipe1fds[0]"]
      <4>1. "main" \in holders[i]["pipe1fds[1]"] /\ "main" \in holders[i]["pipe2fds[0]"]
        BY <1>4, <1>e DEF ForkLess, EndsInv, MainHolds, Feeding
      <4>2. QED
        BY <1>p, <3>1, <4>1 DEF LessInherits
    <3>3. /\ grep[i] \in {"born", "failing", "failed", "reading", "writing", "exited"}
          /\ grep[i] # "exited"
      BY <1>4, <1>e DEF ForkLess, EndsInv, Children, Feeding
    <3>4. Children'
      BY <1>4, <1>e, <1>i, <2>2, <3>1, <3>3 DEF ForkLess, EndsInv, Children, Feeding
    <3>5. MainHolds' /\ KilledOnlyAfterQuit'
      BY <2>2, <3>1, <3>2 DEF MainHolds, KilledOnlyAfterQuit, Feeding
    <3>6. GrepHolds' /\ LessHolds'
      BY <1>e, <3>1, <3>2 DEF EndsInv, GrepHolds, LessHolds
    <3>7. QED
      BY <3>4, <3>5, <3>6 DEF EndsInv
  <2>3. QED
    BY <1>4, <2>1, <2>2 DEF ForkLess
<1>5. CASE Open
  <2>1. CASE Leave("failed")
    BY <1>5, <1>l, <2>1 DEF Open, Goes
  <2>2. CASE Goes("open", "read") /\ UNCHANGED holders
    BY <1>5, <1>e, <2>2 DEF Open, Goes, EndsInv, Children, MainHolds, GrepHolds, LessHolds,
                            KilledOnlyAfterQuit, Feeding
  <2>3. QED
    BY <1>5, <2>1, <2>2 DEF Open
<1>6. CASE ReadBlock
  <2>1. CASE Leave("failed")
    BY <1>6, <1>l, <2>1 DEF ReadBlock, Goes
  <2>2. CASE Goes("read", "write") /\ UNCHANGED holders
    BY <1>6, <1>e, <2>2 DEF ReadBlock, Goes, EndsInv, Children, MainHolds, GrepHolds, LessHolds,
                            KilledOnlyAfterQuit, Feeding
  <2>3. CASE Goes("read", "close") /\ UNCHANGED holders
    BY <1>6, <1>e, <2>3 DEF ReadBlock, Goes, EndsInv, Children, MainHolds, GrepHolds, LessHolds,
                            KilledOnlyAfterQuit, Feeding
  <2>4. QED
    BY <1>6, <2>1, <2>2, <2>3 DEF ReadBlock
<1>7. CASE WriteBlock
  <2>1. CASE main' = "read" /\ UNCHANGED holders
    BY <1>7, <1>e, <2>1 DEF WriteBlock, EndsInv, Children, MainHolds, GrepHolds, LessHolds,
                            KilledOnlyAfterQuit, Feeding
  <2>2. CASE holders[i]["pipe1fds[0]"] = {} /\ Leave("killed")
    <3>1. /\ main' = "killed" /\ UNCHANGED <<i, grep, less>>
          /\ \A g \in Files, e \in PipeEnds : holders'[g][e] = holders[g][e] \ {"main"}
      BY <1>7, <1>e, <2>2, LeaveEnds DEF WriteBlock, Leave
    <3>2. KilledOnlyAfterQuit'
      <4>1. grep[i] \in {"failed", "exited"}
        BY <1>7, <1>e, <1>i, <2>2 DEF WriteBlock, EndsInv, Children, GrepHolds, Feeding
      <4>2. grep[i] = "exited" => less[i] \in {"exited", "reaped"}
        BY <1>7, <1>e DEF WriteBlock, EndsInv, Children, Feeding
      <4>3. QED
        BY <3>1, <4>1, <4>2 DEF KilledOnlyAfterQuit
    <3>3. Children' /\ MainHolds'
      BY <1>e, <3>1 DEF EndsInv, Children, MainHolds, Feeding
    <3>4. GrepHolds' /\ LessHolds'
      BY <1>e, <1>p, <3>1 DEF EndsInv, GrepHolds, LessHolds
    <3>5. QED
      BY <3>2, <3>3, <3>4 DEF EndsInv
  <2>3. QED
    BY <1>7, <2>1, <2>2 DEF WriteBlock
<1>8. CASE Close
  <2>1. main' = "wait" /\ UNCHANGED <<i, grep, less>> /\ OnlyCloses(i, "main", {"pipe1fds[1]"})
    BY <1>8, <1>e, <1>i, ClosedEnds DEF Close, Goes
  <2>2. Children' /\ MainHolds' /\ KilledOnlyAfterQuit'
    BY <1>e, <2>1 DEF EndsInv, Children, MainHolds, KilledOnlyAfterQuit, Feeding
  <2>3. GrepHolds' /\ LessHolds'
    BY <1>e, <1>p, <2>1 DEF EndsInv, GrepHolds, LessHolds, OnlyCloses
  <2>4. QED
    BY <2>2, <2>3 DEF EndsInv
<1>9. CASE Wait
  <2>1. \A f \in Files : /\ grep'[f] = grep[f] \/ (grep'[f] = "reaped" /\ grep[f] # "none")
                         /\ less'[f] = less[f] \/ (less'[f] = "reaped" /\ less[f] # "none")
    BY <1>9, <1>e DEF Wait, CgmTypeOK
  <2>2. \A f \in Files : f > i => grep[f] = "none" /\ less[f] = "none"
    BY <1>e DEF EndsInv, Children
  <2>3. CASE i' = i + 1 /\ main' = "begin" /\ UNCHANGED holders
    <3>1. \A f \in Files : f > i' \/ f = i' => f > i
      BY <1>i, <2>3
    <3>2. Children'
      BY <2>1, <2>2, <2>3, <3>1 DEF Children, Feeding
    <3>3. MainHolds' /\ KilledOnlyAfterQuit'
      BY <2>3 DEF MainHolds, KilledOnlyAfterQuit, Feeding
    <3>4. GrepHolds' /\ LessHolds'
      <4>1. ASSUME NEW f \in Files,
                   grep'[f] \in {"born", "failing", "reading", "writing", "flushing"}
            PROVE  "grep" \in holders'[f]["pipe1fds[0]"]
        <5>1. grep'[f] # "reaped"
          BY <4>1
        <5>2. grep'[f] = grep[f]
          BY <2>1, <5>1
        <5>3. QED
          BY <1>e, <2>3, <4>1, <5>2 DEF EndsInv, GrepHolds
      <4>2. ASSUME NEW f \in Files,
                   less'[f] \in {"born", "second main", "starting", "showing"}
            PROVE  "less" \in holders'[f]["pipe2fds[0]"]
        <5>1. less'[f] = less[f]
          BY <2>1, <4>2
        <5>2. QED
          BY <1>e, <2>3, <4>2, <5>1 DEF EndsInv, LessHolds
      <4>3. QED
        BY <4>1, <4>2 DEF GrepHolds, LessHolds
    <3>5. QED
      BY <3>2, <3>3, <3>4 DEF EndsInv
  <2>4. CASE Leave("returned") /\ UNCHANGED i
    BY <1>9, <1>l, <2>1, <2>2, <2>4 DEF Wait
  <2>5. QED
    BY <1>9, <2>3, <2>4 DEF Wait, NextFile
<1>10. CASE Interrupt
  <2>1. /\ main' \in {"undefined", "interrupted"} /\ i' = i
        /\ \A f \in Files : grep'[f] = IF grep[f] \in {"none", "reaped"} THEN grep[f] ELSE "exited"
        /\ \A f \in Files : less'[f] = CASE less[f] = "born" -> "exited"
                                       [] less[f] = "starting" -> "showing"
                                       [] OTHER -> less[f]
        /\ \A f \in Files, e \in PipeEnds :
             "less" \in holders[f][e] /\ less[f] # "born" => "less" \in holders'[f][e]
    BY <1>10 DEF Interrupt
  <2>2. Children'
    BY <1>e, <2>1 DEF EndsInv, Children, Feeding
  <2>3. MainHolds' /\ KilledOnlyAfterQuit'
    BY <2>1 DEF MainHolds, KilledOnlyAfterQuit, Feeding
  <2>4. GrepHolds'
    BY <2>1 DEF GrepHolds
  <2>5. LessHolds'
    <3> SUFFICES ASSUME NEW f \in Files, less'[f] \in {"born", "second main", "starting", "showing"}
                 PROVE  "less" \in holders'[f]["pipe2fds[0]"]
      BY DEF LessHolds
    <3>1. less[f] \in {"second main", "starting", "showing"}
      BY <1>e, <2>1 DEF CgmTypeOK
    <3>2. QED
      BY <1>e, <1>p, <2>1, <3>1 DEF EndsInv, LessHolds
  <2>6. QED
    BY <2>2, <2>3, <2>4, <2>5 DEF EndsInv
<1>11. QED
  BY <1>1, <1>2, <1>3, <1>4, <1>5, <1>6, <1>7, <1>8, <1>9, <1>10 DEF Main

-----------------------------------------------------------------------------
\* Every step keeps the invariant.
LEMMA CgmStep == CgmInv /\ [Next]_vars => CgmInv'
<1> SUFFICES ASSUME CgmInv, [Next]_vars PROVE CgmInv'
  OBVIOUS
<1>1. CASE UNCHANGED vars
  BY <1>1
  DEF vars, CgmInv, CgmTypeOK, InFlow, FlowAt, Children, MainHolds, GrepHolds, LessHolds,
      KilledOnlyAfterQuit
<1>2. CASE Main \/ Interrupt
  BY <1>2, MainKeepsTypes, MainKeepsFlow, MainKeepsEnds DEF CgmInv, EndsInv
<1>3. CASE \E f \in Files : Grep(f) \/ Less(f)
  BY <1>3, ChildKeepsTypes, ChildKeepsFlow, ChildKeepsEnds DEF CgmInv, EndsInv
<1>4. QED
  BY <1>1, <1>2, <1>3 DEF Next

\* The invariant of the pipeline.
THEOREM CgmInvariance == Spec => []CgmInv
  BY CgmInit, CgmStep, PTL DEF Spec

\* The variables of the pipeline keep their types: no block past the end of a
\* file is written, no file past the last is opened, and no pipe holds more than
\* it has room for (main.c:34-60, 78-185).
THEOREM TypeCorrect == Spec => []CgmTypeOK
<1>1. CgmInv => CgmTypeOK
  BY DEF CgmInv
<1>2. QED
  BY <1>1, CgmInvariance, PTL

\* Whoever fails, quits or is interrupted, what less shows is a beginning of the
\* matches of its file, each once and in order (main.c:99-105, 139, 170-182).
THEOREM MatchesShownInOrder == Spec => []ShownInOrder
<1>1. CgmInv => ShownInOrder
  <2> SUFFICES ASSUME CgmInv, NEW f \in Files, NEW k \in 1 .. Len(shown[f])
               PROVE  /\ shown[f][k] \in Matching
                      /\ \A n \in Matching :
                           n < shown[f][k] <=> \E l \in 1 .. k - 1 : shown[f][l] = n
    BY DEF ShownInOrder
  <2>1. PICK r \in Nat : Flow(r, pipe1[f], pipe2[f], matches[f], shown[f])
    BY DEF CgmInv, InFlow, FlowAt
  <2>2. /\ pipe2[f] \in Seq(Seq(Matching))
        /\ matches[f] \in Seq(Matching) /\ shown[f] \in Seq(Matching)
    BY FlowTypes DEF CgmInv
  <2>3. \A p : \A s, m \in Seq(Matching), q \in Seq(Seq(Matching)) :
          Flow(r, p, q, m, s) => \A x \in 1 .. Len(s) :
            s[x] \in Matching /\ \A n \in Matching : n < s[x] <=> \E l \in 1 .. x - 1 : s[l] = n
    BY FlowShown
  <2>4. QED
    BY <2>1, <2>2, <2>3
<1>2. QED
  BY <1>1, CgmInvariance, PTL

\* A write of main meets a broken pipe only when the user has quit less, or the
\* exec of grep failed: until then grep holds the read end, which main closed
\* (main.c:91-130, 171).
THEOREM KilledByQuitOnly == Spec => []KilledOnlyAfterQuit
<1>1. CgmInv => KilledOnlyAfterQuit
  BY DEF CgmInv
<1>2. QED
  BY <1>1, CgmInvariance, PTL

=============================================================================
