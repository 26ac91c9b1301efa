---------------------------- MODULE WalkerProofs ----------------------------
(***************************************************************************)
(* Proofs about Walker, for all trees, filters and bounds and whatever is  *)
(* removed during the walk: what is listed is what was asked for, in an    *)
(* order with each directory behind what is in it, and nothing that stayed *)
(* is missed.                                                              *)
(***************************************************************************)
EXTENDS Walker, SequenceTheorems, TLAPS

-----------------------------------------------------------------------------
(***************************************************************************)
(* The inductive invariant.                                                *)
(***************************************************************************)
Calls == [dir : Nodes, open : BOOLEAN, left : SUBSET Nodes, de : Nodes \cup {NoEntry}]

WalkTypeOK ==
  /\ tree \in Trees
  /\ there \in SUBSET Nodes /\ cut \in SUBSET Nodes
  /\ mtime \in [Nodes -> Int]
  /\ timeFilter \in Int
  /\ now \in Nat
  /\ dirs \in Seq(Calls)
  /\ printed \in Seq(Nodes)
  /\ status \in {"walking", "done", "failed", "crashed", "undefined"}
  /\ status = "walking" => dirs # <<>>

\* What is there is in a directory that is there.
Rooted == \A n \in there : tree.above[n] \in there

\* a is an entry of d, and not one of its dots.
Child(a, d) == a # "top" /\ tree.above[a] = d

\* A call has only entries of its directory to read, and its dots.  What it
\* read last is not to be read again.
CallOK(c) ==
  /\ \A a \in c.left : a \in {c.dir, tree.above[c.dir]} \/ Child(a, c.dir)
  /\ c.de # NoEntry =>
       c.open /\ Child(c.de, c.dir) /\ ~tree.hidden[c.de] /\ c.de \notin c.left

\* The first call is for "top", each other one for the entry read last by the
\* call before it.
StackOf(calls) ==
  /\ calls # <<>> => calls[1].dir = "top"
  /\ \A k \in DOMAIN calls :
       /\ CallOK(calls[k])
       /\ k > 1 => calls[k - 1].de = calls[k].dir
       /\ \A j \in 1 .. k : calls[j].dir \in Path(calls[k].dir)

Stacked == StackOf(dirs)

\* Call c is to print n, or calls it will make are: n was read last, or it is
\* or is below an entry not yet read, or the directory is not yet open.
ComesTo(c, n) ==
  \/ n = c.de
  \/ \E a \in c.left \cap Path(n) : Child(a, c.dir)
  \/ ~c.open /\ n # c.dir /\ c.dir \in Path(n)

PendingIn(calls, n) == \E k \in DOMAIN calls : ComesTo(calls[k], n)

Pending(n) == PendingIn(dirs, n)

\* What a walk has to print: it passed all along, and can have been reached.
Due(n) == n \in always /\ Visible(n) /\ Reached(n)

\* What was printed is not to come again.
NoneTwice == \A n \in ToSet(printed) : ~Pending(n)

\* What is due and there was printed, or is to come.
NoneMissed == \A n \in there : Due(n) => n \in ToSet(printed) \/ Pending(n)

\* What passes has passed once, and what always passed does.
Kept == Passing \subseteq once /\ always \subseteq Passing

WalkInv ==
  /\ WalkTypeOK
  /\ Kept
  /\ Rooted
  /\ Stacked
  /\ NoneTwice
  /\ NoneMissed
  /\ ListedAsAsked
  /\ status = "done" => dirs = <<>>

-----------------------------------------------------------------------------
(***************************************************************************)
(* Trees and paths.                                                        *)
(***************************************************************************)
Tree ==
  /\ "top" \in Nodes /\ NoEntry \notin Nodes
  /\ tree.above["top"] = "top"
  /\ \A n \in Nodes : /\ tree.above[n] \in Nodes
                      /\ tree.kind[tree.above[n]] = "dir"
                      /\ "top" \in Path(n)

Closed(S) == \A x \in S : tree.above[x] \in S

\* What the walker is given is a tree.
LEMMA TreeFacts == tree \in Trees => Tree
BY WalkerAssumption DEF Tree, Nodes, Path

\* The path of n is the smallest closed set with n.
LEMMA PathSmallest ==
  ASSUME NEW n \in Nodes, NEW S \in SUBSET Nodes, n \in S, Closed(S)
  PROVE  Path(n) \subseteq S
BY DEF Path, PathIn, Nodes, Closed

LEMMA PathHas ==
  ASSUME Tree, NEW n \in Nodes
  PROVE  n \in Path(n) /\ Closed(Path(n)) /\ Path(n) \in SUBSET Nodes
<1>1. n \in Path(n) /\ Path(n) \in SUBSET Nodes
  BY DEF Path, PathIn, Nodes
<1>2. ASSUME NEW m \in Path(n)
      PROVE  tree.above[m] \in Path(n)
  <2>1. tree.above[m] \in Nodes
    BY <1>1, <1>2 DEF Tree
  <2>2. ASSUME NEW S \in SUBSET Nodes, n \in S, \A x \in S : tree.above[x] \in S
        PROVE  tree.above[m] \in S
    <3>1. m \in S
      BY <1>2, <2>2 DEF Path, PathIn, Nodes
    <3> QED
      BY <2>2, <3>1
  <2> QED
    BY <2>1, <2>2 DEF Path, PathIn, Nodes
<1> QED
  BY <1>1, <1>2 DEF Closed

LEMMA PathTransitive ==
  ASSUME Tree, NEW n \in Nodes, NEW m \in Path(n)
  PROVE  Path(m) \subseteq Path(n)
BY PathHas, PathSmallest

\* The path of n is n, and the path of the directory it is in.
LEMMA PathStep ==
  ASSUME Tree, NEW n \in Nodes
  PROVE  /\ Path(tree.above[n]) \subseteq Path(n)
         /\ Path(n) \subseteq {n} \cup Path(tree.above[n])
<1> DEFINE P == Path(tree.above[n])
<1>1. tree.above[n] \in Nodes /\ tree.above[n] \in Path(n)
  BY PathHas DEF Tree, Closed
<1>2. P \subseteq Path(n)
  BY <1>1, PathTransitive
<1>3. tree.above[n] \in P /\ Closed(P) /\ P \in SUBSET Nodes
  BY <1>1, PathHas
<1>4. Closed({n} \cup P)
  BY <1>3 DEF Closed
<1> HIDE DEF P
<1>5. Path(n) \subseteq {n} \cup P
  BY <1>3, <1>4, PathSmallest
<1> QED
  BY <1>2, <1>5 DEF P

LEMMA PathOfTop == Tree => Path("top") = {"top"}
<1> HAVE Tree
<1>1. Path("top") \subseteq {"top"}
  <2>1. "top" \in Nodes /\ Closed({"top"})
    BY DEF Tree, Closed
  <2> QED
    BY <2>1, PathSmallest
<1> QED
  BY <1>1, PathHas DEF Tree

\* Nothing but "top" is above itself: else the nodes below it were closed, and
\* "top" among them.
LEMMA NoCycle ==
  ASSUME Tree, NEW n \in Nodes, n # "top"
  PROVE  n \notin Path(tree.above[n])
<1> SUFFICES ASSUME n \in Path(tree.above[n]) PROVE FALSE
  OBVIOUS
<1> DEFINE S == {x \in Nodes : n \in Path(x)}
<1>1. n \in S
  BY PathHas
<1>2. ASSUME NEW x \in S
      PROVE  tree.above[x] \in S
  BY PathStep DEF Tree
<1> HIDE DEF S
<1>3. Closed(S) /\ S \in SUBSET Nodes
  BY <1>2 DEF Closed, S
<1>4. "top" \in S
  BY <1>1, <1>3, PathSmallest DEF Tree
<1> QED
  BY <1>4, PathOfTop DEF S

LEMMA NoChildAbove ==
  ASSUME Tree, NEW a \in Nodes, NEW d, Child(a, d)
  PROVE  d \in Nodes /\ a \notin Path(d) /\ a # d /\ a # tree.above[d] /\ d \in Path(a)
<1>1. d = tree.above[a] /\ a # "top" /\ d \in Nodes
  BY DEF Child, Tree
<1>2. a \notin Path(d)
  BY <1>1, NoCycle
<1>3. d \in Path(d) /\ tree.above[d] \in Path(d) /\ d \in Path(a)
  BY <1>1, PathHas DEF Closed
<1> QED
  BY <1>1, <1>2, <1>3

\* What is below d is an entry of d or below one.
LEMMA ChildOnPath ==
  ASSUME Tree, NEW n \in Nodes, NEW d \in Path(n), d # n
  PROVE  \E a \in Path(n) : Child(a, d)
<1> SUFFICES ASSUME \A a \in Path(n) : ~Child(a, d) PROVE FALSE
  OBVIOUS
<1> DEFINE S == Path(n) \ {d}
<1>1. n \in Path(n) /\ Closed(Path(n)) /\ Path(n) \in SUBSET Nodes
  BY PathHas
<1>2. ASSUME NEW x \in S
      PROVE  tree.above[x] \in S
  <2>1. tree.above[x] \in Path(n) /\ ~Child(x, d)
    BY <1>1 DEF Closed
  <2>2. tree.above[x] # d
    BY <2>1 DEF Child, Tree
  <2> QED
    BY <2>1, <2>2
<1> HIDE DEF S
<1>3. n \in S /\ S \in SUBSET Nodes /\ Closed(S)
  BY <1>1, <1>2 DEF S, Closed
<1>4. d \in S
  BY <1>3, PathSmallest
<1> QED
  BY <1>4 DEF S

\* A node that is there is on a path that is there.
LEMMA PathIsThere ==
  ASSUME Tree, Rooted, there \in SUBSET Nodes, NEW n \in there
  PROVE  Path(n) \subseteq there
BY PathSmallest DEF Rooted, Closed

-----------------------------------------------------------------------------
(***************************************************************************)
(* The stack of calls.                                                     *)
(***************************************************************************)
Typed == WalkTypeOK /\ Tree

LEMMA InvTyped == WalkInv => Typed
BY TreeFacts DEF WalkInv, Typed, WalkTypeOK

\* What a call is, and what Stacked says of it.
LEMMA CallFacts ==
  ASSUME Typed, Stacked, NEW k \in DOMAIN dirs
  PROVE  /\ k \in 1 .. Depth /\ Depth \in Nat
         /\ dirs[k] \in Calls /\ dirs[k].dir \in Nodes /\ dirs[k].open \in BOOLEAN
         /\ dirs[k].left \in SUBSET Nodes /\ dirs[k].de \in Nodes \cup {NoEntry}
         /\ k = 1 => dirs[k].dir = "top"
         /\ \A a \in dirs[k].left :
              a \in {dirs[k].dir, tree.above[dirs[k].dir]} \/ Child(a, dirs[k].dir)
         /\ dirs[k].de # NoEntry =>
              /\ dirs[k].open /\ dirs[k].de \in Nodes /\ Child(dirs[k].de, dirs[k].dir)
              /\ ~tree.hidden[dirs[k].de] /\ dirs[k].de \notin dirs[k].left
         /\ k > 1 => /\ k - 1 \in DOMAIN dirs /\ dirs[k - 1].de = dirs[k].dir
                     /\ dirs[k].dir # NoEntry
         /\ \A j \in 1 .. k : j \in DOMAIN dirs /\ dirs[j].dir \in Path(dirs[k].dir)
<1>1. k \in 1 .. Depth /\ Depth \in Nat /\ DOMAIN dirs = 1 .. Depth /\ dirs # <<>>
  BY DEF Typed, WalkTypeOK, Depth
<1>2. dirs[k] \in Calls
  BY <1>1 DEF Typed, WalkTypeOK
<1>3. /\ dirs[k].dir \in Nodes /\ dirs[k].open \in BOOLEAN
      /\ dirs[k].left \in SUBSET Nodes /\ dirs[k].de \in Nodes \cup {NoEntry}
      /\ dirs[k].dir # NoEntry
  BY <1>2 DEF Calls, Typed, Tree
<1>4. k > 1 => k - 1 \in DOMAIN dirs
  BY <1>1
<1>5. \A j \in 1 .. k : j \in DOMAIN dirs
  BY <1>1
<1> QED
  BY <1>1, <1>2, <1>3, <1>4, <1>5 DEF Stacked, StackOf, CallOK

\* The directories of the calls up to k are all the path of the k-th has.
LEMMA StackPath ==
  ASSUME Typed, Stacked, NEW k \in DOMAIN dirs
  PROVE  Path(dirs[k].dir) \subseteq {dirs[j].dir : j \in 1 .. k}
<1> DEFINE S == {dirs[j].dir : j \in 1 .. k}
<1>1. k \in 1 .. Depth /\ Depth \in Nat /\ DOMAIN dirs = 1 .. Depth
  BY DEF Typed, WalkTypeOK, Depth
<1>2. S \in SUBSET Nodes /\ dirs[k].dir \in S /\ dirs[k].dir \in Nodes
  BY <1>1, CallFacts
<1>3. ASSUME NEW j \in 1 .. k
      PROVE  tree.above[dirs[j].dir] \in S
  <2>1. j \in DOMAIN dirs
    BY <1>1
  <2>2. CASE j = 1
    <3>1. dirs[j].dir = "top"
      BY <2>1, <2>2, CallFacts
    <3> QED
      BY <3>1 DEF Typed, Tree
  <2>3. CASE j > 1
    <3>1. j - 1 \in DOMAIN dirs /\ dirs[j - 1].de = dirs[j].dir /\ dirs[j].dir # NoEntry
      BY <2>1, <2>3, CallFacts
    <3>2. Child(dirs[j].dir, dirs[j - 1].dir)
      BY <3>1, CallFacts
    <3>3. j - 1 \in 1 .. k
      BY <1>1, <2>3
    <3> QED
      BY <3>2, <3>3 DEF Child
  <2> QED
    BY <1>1, <2>2, <2>3
<1> HIDE DEF S
<1>4. Closed(S)
  BY <1>3 DEF Closed, S
<1> QED
  BY <1>2, <1>4, PathSmallest DEF S

\* No directory is read by two calls.
LEMMA DirsDiffer ==
  ASSUME Typed, Stacked, NEW k \in DOMAIN dirs, NEW j \in DOMAIN dirs, j < k
  PROVE  dirs[j].dir # dirs[k].dir
<1>1. j \in 1 .. k - 1 /\ k > 1
  BY DEF Typed, WalkTypeOK
<1>2. k - 1 \in DOMAIN dirs /\ dirs[k - 1].de = dirs[k].dir /\ dirs[k].dir # NoEntry
  BY <1>1, CallFacts
<1>3. dirs[j].dir \in Path(dirs[k - 1].dir)
  BY <1>1, <1>2, CallFacts
<1>4. Child(dirs[k].dir, dirs[k - 1].dir) /\ dirs[k].dir \in Nodes
  BY <1>2, CallFacts
<1>5. dirs[k].dir \notin Path(dirs[k - 1].dir)
  BY <1>4, NoChildAbove DEF Typed
<1> QED
  BY <1>3, <1>5

LEMMA DirsAreDistinct ==
  ASSUME Typed, Stacked, NEW k \in DOMAIN dirs, NEW j \in DOMAIN dirs,
         dirs[j].dir = dirs[k].dir
  PROVE  j = k
<1>1. j \in Int /\ k \in Int
  BY DEF Typed, WalkTypeOK
<1>2. ~(j < k) /\ ~(k < j)
  BY DirsDiffer
<1> QED
  BY <1>1, <1>2

\* Nothing in the stack comes to the entry read last by the innermost call
\* but that it was read.
LEMMA ReadIsPendingOnce ==
  ASSUME Typed, Stacked, Depth \in DOMAIN dirs, This.de # NoEntry, NEW j \in DOMAIN dirs
  PROVE  /\ dirs[j].de = This.de => j = Depth
         /\ \A a \in dirs[j].left \cap Path(This.de) : ~Child(a, dirs[j].dir)
         /\ dirs[j].open
<1> DEFINE n == This.de
<1>1. /\ n \in Nodes /\ Child(n, This.dir) /\ n \notin This.left /\ This.open
      /\ This.dir \in Nodes
  BY CallFacts DEF This
<1>2. j \in 1 .. Depth /\ Depth \in Nat /\ DOMAIN dirs = 1 .. Depth
  BY DEF Typed, WalkTypeOK, Depth
<1>3. dirs[j].de = n => j = Depth
  <2> HAVE dirs[j].de = n
  <2>1. Child(n, dirs[j].dir)
    BY CallFacts
  <2>2. dirs[j].dir = dirs[Depth].dir
    BY <1>1, <2>1 DEF Child, This
  <2> QED
    BY <2>2, DirsAreDistinct
<1>4. ASSUME NEW a \in dirs[j].left, a \in Path(n), Child(a, dirs[j].dir)
      PROVE  FALSE
  <2>1. a = n \/ a \in Path(This.dir)
    BY <1>1, <1>4, PathStep DEF Child, Typed
  <2>2. CASE a = n
    <3>1. dirs[j].dir = dirs[Depth].dir
      BY <1>1, <1>4, <2>2 DEF Child, This
    <3>2. j = Depth
      BY <3>1, DirsAreDistinct
    <3> QED
      BY <1>1, <1>4, <2>2, <3>2 DEF This
  <2>3. CASE a \in Path(This.dir)
    <3>1. PICK i \in 1 .. Depth : a = dirs[i].dir
      BY <2>3, StackPath DEF This
    <3>2. i > 1 /\ i \in DOMAIN dirs
      BY <1>2, <1>4, <3>1, CallFacts DEF Child
    <3>3. i - 1 \in DOMAIN dirs /\ dirs[i - 1].de = a /\ a # NoEntry
      BY <3>1, <3>2, CallFacts
    <3>4. Child(a, dirs[i - 1].dir) /\ a \notin dirs[i - 1].left
      BY <3>3, CallFacts
    <3>5. dirs[i - 1].dir = dirs[j].dir
      BY <1>4, <3>4 DEF Child
    <3>6. i - 1 = j
      BY <3>3, <3>5, DirsAreDistinct
    <3> QED
      BY <1>4, <3>4, <3>6
  <2> QED
    BY <2>1, <2>2, <2>3
<1>5. dirs[j].open
  <2>1. CASE j = Depth
    BY <1>1, <2>1 DEF This
  <2>2. CASE j < Depth
    <3>1. j + 1 \in DOMAIN dirs /\ j + 1 > 1 /\ (j + 1) - 1 = j
      BY <1>2, <2>2
    <3>2. dirs[j].de # NoEntry
      BY <3>1, CallFacts
    <3> QED
      BY <3>2, CallFacts
  <2> QED
    BY <1>2, <2>1, <2>2
<1> QED
  BY <1>3, <1>4, <1>5

-----------------------------------------------------------------------------
(***************************************************************************)
(* The first state.                                                        *)
(***************************************************************************)
LEMMA WalkInit == Init => WalkInv
<1> SUFFICES ASSUME Init PROVE WalkInv
  OBVIOUS
<1>1. Tree
  BY TreeFacts DEF Init
<1>2. Call("top") \in Calls
  BY <1>1 DEF Call, Calls, Tree
<1>3. WalkTypeOK
  <2>1. dirs \in Seq(Calls) /\ dirs # <<>>
    BY <1>2 DEF Init
  <2>2. timeFilter \in Int
    BY WalkerAssumption DEF Init
  <2>3. mtime \in [Nodes -> Int]
    BY WalkerAssumption DEF Init, Nodes
  <2> QED
    BY <2>1, <2>2, <2>3 DEF Init, WalkTypeOK
<1>4. Rooted
  BY <1>1 DEF Init, Rooted, Tree
<1>5. Stacked
  <2>1. CallOK(Call("top"))
    BY DEF CallOK, Call
  <2>2. "top" \in Path("top")
    BY <1>1, PathHas DEF Tree
  <2>3. DOMAIN dirs = {1} /\ dirs[1] = Call("top") /\ Call("top").dir = "top"
    BY DEF Init, Call
  <2> QED
    BY <2>1, <2>2, <2>3 DEF Stacked, StackOf
<1>6. ASSUME NEW n \in there, n # "top"
      PROVE  Pending(n)
  <2>1. "top" \in Path(n)
    BY <1>1, <1>6 DEF Init, Tree
  <2>2. ~Call("top").open /\ Call("top").dir = "top"
    BY DEF Call
  <2>3. ComesTo(Call("top"), n)
    BY <1>6, <2>1, <2>2 DEF ComesTo
  <2>4. 1 \in DOMAIN dirs /\ dirs[1] = Call("top")
    BY DEF Init
  <2> QED
    BY <2>3, <2>4 DEF Pending, PendingIn
<1>7. ToSet(printed) = {} /\ DOMAIN printed = {} /\ status # "done"
  BY DEF Init, ToSet
<1>8. NoneMissed
  BY <1>6 DEF NoneMissed, Due, Visible
<1>9. Kept
  BY DEF Kept, Init
<1> QED
  BY <1>3, <1>4, <1>5, <1>7, <1>8, <1>9 DEF WalkInv, NoneTwice, ListedAsAsked

-----------------------------------------------------------------------------
(***************************************************************************)
(* What the steps do to the stack, and to what is to come.                 *)
(***************************************************************************)
LEMMA StackReplaced ==
  ASSUME Typed, Stacked, Depth \in DOMAIN dirs, NEW c \in Calls, c.dir = This.dir, CallOK(c)
  PROVE  LET calls == [dirs EXCEPT ![Depth] = c]
         IN  /\ calls \in Seq(Calls) /\ Len(calls) = Depth /\ calls # <<>>
             /\ calls[Depth] = c
             /\ StackOf(calls)
             /\ \A n : PendingIn(calls, n)
                      <=> ComesTo(c, n) \/ \E k \in DOMAIN dirs \ {Depth} : ComesTo(dirs[k], n)
<1> DEFINE calls == [dirs EXCEPT ![Depth] = c]
<1>1. dirs \in Seq(Calls) /\ DOMAIN dirs = 1 .. Depth /\ Depth \in Nat /\ Depth = Len(dirs)
  BY DEF Typed, WalkTypeOK, Depth
<1>2. calls \in Seq(Calls) /\ DOMAIN calls = DOMAIN dirs /\ Len(calls) = Depth /\ calls # <<>>
  BY <1>1
<1>3. calls[Depth] = c /\ \A k \in DOMAIN dirs \ {Depth} : calls[k] = dirs[k]
  BY <1>1
<1> HIDE DEF calls
<1>4. \A k \in DOMAIN dirs : calls[k].dir = dirs[k].dir
  BY <1>3 DEF This
<1>5. calls[1].dir = "top"
  BY <1>1, <1>4, CallFacts
<1>6. ASSUME NEW k \in DOMAIN dirs
      PROVE  /\ CallOK(calls[k])
             /\ k > 1 => calls[k - 1].de = calls[k].dir
             /\ \A j \in 1 .. k : calls[j].dir \in Path(calls[k].dir)
  <2>1. CallOK(dirs[k])
    BY DEF Stacked, StackOf
  <2>2. CallOK(calls[k])
    BY <1>3, <2>1
  <2>3. ASSUME k > 1
        PROVE  calls[k - 1].de = calls[k].dir
    <3>1. k - 1 \in DOMAIN dirs \ {Depth}
      BY <1>1, <2>3
    <3>2. dirs[k - 1].de = dirs[k].dir
      BY <2>3, CallFacts
    <3> QED
      BY <1>3, <1>4, <3>1, <3>2
  <2>4. \A j \in 1 .. k : j \in DOMAIN dirs /\ dirs[j].dir \in Path(dirs[k].dir)
    BY CallFacts
  <2> QED
    BY <1>4, <2>2, <2>3, <2>4
<1>7. StackOf(calls)
  BY <1>2, <1>5, <1>6 DEF StackOf
<1>8. \A n : PendingIn(calls, n)
              <=> ComesTo(c, n) \/ \E k \in DOMAIN dirs \ {Depth} : ComesTo(dirs[k], n)
  <2> TAKE n
  <2>1. ASSUME NEW k \in DOMAIN calls, ComesTo(calls[k], n)
        PROVE  ComesTo(c, n) \/ \E j \in DOMAIN dirs \ {Depth} : ComesTo(dirs[j], n)
    BY <1>2, <1>3, <2>1
  <2>2. ASSUME ComesTo(c, n)
        PROVE  \E k \in DOMAIN calls : ComesTo(calls[k], n)
    BY <1>2, <1>3, <2>2
  <2>3. ASSUME NEW k \in DOMAIN dirs \ {Depth}, ComesTo(dirs[k], n)
        PROVE  \E j \in DOMAIN calls : ComesTo(calls[j], n)
    BY <1>2, <1>3, <2>3
  <2> QED
    BY <2>1, <2>2, <2>3 DEF PendingIn
<1> QED
  BY <1>2, <1>3, <1>7, <1>8 DEF calls

LEMMA StackPushed ==
  ASSUME Typed, NEW calls \in Seq(Calls), calls # <<>>, StackOf(calls),
         NEW n \in Nodes, calls[Len(calls)].de = n
  PROVE  /\ Append(calls, Call(n)) \in Seq(Calls)
         /\ StackOf(Append(calls, Call(n)))
         /\ \A m : PendingIn(Append(calls, Call(n)), m) <=> PendingIn(calls, m) \/ ComesTo(Call(n), m)
<1> DEFINE more == Append(calls, Call(n))
           D == Len(calls)
<1>1. D \in Nat \ {0} /\ DOMAIN calls = 1 .. D /\ D \in DOMAIN calls
  BY EmptySeq
<1>2. /\ Call(n) \in Calls /\ Call(n).dir = n /\ Call(n).left = {} /\ Call(n).de = NoEntry
  BY DEF Call, Calls
<1>3. more \in Seq(Calls) /\ DOMAIN more = 1 .. D + 1 /\ more # <<>>
  BY <1>1, <1>2
<1>4. more[D + 1] = Call(n) /\ \A k \in 1 .. D : more[k] = calls[k]
  BY <1>1
<1> HIDE DEF more, D
<1>5. more[1].dir = "top"
  BY <1>1, <1>4 DEF StackOf
<1>6. ASSUME NEW k \in 1 .. D
      PROVE  /\ CallOK(more[k])
             /\ k > 1 => more[k - 1].de = more[k].dir
             /\ \A j \in 1 .. k : more[j].dir \in Path(more[k].dir)
  <2>1. k > 1 => k - 1 \in 1 .. D
    BY <1>1
  <2>2. \A j \in 1 .. k : j \in 1 .. D
    BY <1>1
  <2> QED
    BY <1>1, <1>4, <2>1, <2>2 DEF StackOf
<1>7. /\ CallOK(Call(n))
      /\ D + 1 > 1 => more[(D + 1) - 1].de = n
      /\ \A j \in 1 .. D + 1 : more[j].dir \in Path(n)
  <2>1. CallOK(Call(n))
    BY <1>2 DEF CallOK
  <2>2. (D + 1) - 1 = D /\ D \in 1 .. D
    BY <1>1
  <2>3. more[D].de = n
    BY <1>4, <2>2 DEF D
  <2>4. Child(n, calls[D].dir)
    BY <1>1 DEF StackOf, CallOK, D, Typed, Tree
  <2>5. calls[D].dir \in Path(n) /\ n \in Path(n)
    BY <2>4, NoChildAbove, PathHas DEF Typed
  <2>6. ASSUME NEW j \in 1 .. D
        PROVE  more[j].dir \in Path(n)
    <3>1. calls[j].dir \in Path(calls[D].dir)
      BY <1>1 DEF StackOf
    <3>2. Path(calls[D].dir) \subseteq Path(n)
      BY <2>5, PathTransitive DEF Typed
    <3> QED
      BY <1>4, <3>1, <3>2
  <2>7. \A j \in 1 .. D + 1 : j \in 1 .. D \/ j = D + 1
    BY <1>1
  <2> QED
    BY <1>2, <1>4, <2>1, <2>2, <2>3, <2>5, <2>6, <2>7
<1>8. ASSUME NEW k \in DOMAIN more
      PROVE  k \in 1 .. D \/ k = D + 1
  BY <1>1, <1>3
<1>9. StackOf(more)
  <2>1. ASSUME NEW k \in DOMAIN more
        PROVE  /\ CallOK(more[k])
               /\ k > 1 => more[k - 1].de = more[k].dir
               /\ \A j \in 1 .. k : more[j].dir \in Path(more[k].dir)
    <3>1. CASE k \in 1 .. D
      BY <1>6, <3>1
    <3>2. CASE k = D + 1
      BY <1>2, <1>4, <1>7, <3>2
    <3> QED
      BY <1>8, <3>1, <3>2
  <2> QED
    BY <1>5, <2>1 DEF StackOf
<1>10. \A m : PendingIn(more, m) <=> PendingIn(calls, m) \/ ComesTo(Call(n), m)
  <2> TAKE m
  <2>1. PendingIn(more, m) => PendingIn(calls, m) \/ ComesTo(Call(n), m)
    BY <1>1, <1>4, <1>8 DEF PendingIn
  <2>2. 1 .. D \subseteq DOMAIN more /\ D + 1 \in DOMAIN more
    BY <1>1, <1>3
  <2>3. PendingIn(calls, m) \/ ComesTo(Call(n), m) => PendingIn(more, m)
    BY <1>1, <1>4, <2>2 DEF PendingIn
  <2> QED
    BY <2>1, <2>3
<1> QED
  BY <1>3, <1>9, <1>10 DEF more

LEMMA StackPopped ==
  ASSUME Typed, Stacked, dirs # <<>>
  PROVE  /\ Front(dirs) \in Seq(Calls) /\ (Depth # 1 => Front(dirs) # <<>>)
         /\ (Depth = 1 => Front(dirs) = <<>>)
         /\ StackOf(Front(dirs))
         /\ \A m : PendingIn(dirs, m) <=> PendingIn(Front(dirs), m) \/ ComesTo(This, m)
<1> DEFINE rest == Front(dirs)
<1>1. Depth \in Nat \ {0} /\ DOMAIN dirs = 1 .. Depth /\ dirs \in Seq(Calls) /\ Depth = Len(dirs)
  BY EmptySeq DEF Typed, WalkTypeOK, Depth
<1>2. /\ rest \in Seq(Calls) /\ Len(rest) = Depth - 1 /\ DOMAIN rest = 1 .. Depth - 1
      /\ \A k \in 1 .. Depth - 1 : rest[k] = dirs[k]
  BY <1>1 DEF Front
<1> HIDE DEF rest
<1>3. \A k \in 1 .. Depth - 1 : k \in DOMAIN dirs
  BY <1>1
<1>4. StackOf(rest)
  <2>1. ASSUME rest # <<>>
        PROVE  rest[1].dir = "top"
    <3>1. 1 \in 1 .. Depth - 1
      BY <1>1, <1>2, <2>1
    <3> QED
      BY <1>2, <3>1, <1>3, CallFacts
  <2>2. ASSUME NEW k \in DOMAIN rest
        PROVE  /\ CallOK(rest[k])
               /\ k > 1 => rest[k - 1].de = rest[k].dir
               /\ \A j \in 1 .. k : rest[j].dir \in Path(rest[k].dir)
    <3>1. k \in DOMAIN dirs /\ rest[k] = dirs[k]
      BY <1>2, <1>3
    <3>2. k > 1 => k - 1 \in 1 .. Depth - 1
      BY <1>1, <1>2
    <3>3. \A j \in 1 .. k : j \in 1 .. Depth - 1
      BY <1>1, <1>2
    <3> QED
      BY <1>2, <3>1, <3>2, <3>3 DEF Stacked, StackOf
  <2> QED
    BY <2>1, <2>2 DEF StackOf
<1>5. \A m : PendingIn(dirs, m) <=> PendingIn(rest, m) \/ ComesTo(This, m)
  <2> TAKE m
  <2>1. \A k \in DOMAIN dirs : k \in 1 .. Depth - 1 \/ k = Depth
    BY <1>1
  <2>2. PendingIn(dirs, m) => PendingIn(rest, m) \/ ComesTo(This, m)
    BY <1>2, <2>1 DEF PendingIn, This
  <2>3. Depth \in DOMAIN dirs
    BY <1>1
  <2>4. PendingIn(rest, m) \/ ComesTo(This, m) => PendingIn(dirs, m)
    BY <1>2, <1>3, <2>3 DEF PendingIn, This
  <2> QED
    BY <2>2, <2>4
<1>6. (Depth # 1 => rest # <<>>) /\ (Depth = 1 => rest = <<>>)
  BY <1>1, <1>2, EmptySeq
<1> QED
  BY <1>2, <1>4, <1>5, <1>6 DEF rest

-----------------------------------------------------------------------------
(***************************************************************************)
(* What every step keeps: the tree, and so the paths in it.                *)
(***************************************************************************)
LEMMA SameTree ==
  ASSUME tree' = tree
  PROVE  /\ Nodes' = Nodes /\ Calls' = Calls
         /\ \A n : Path(n)' = Path(n)
         /\ \A n : Visible(n)' <=> Visible(n)
         /\ \A n : cut \subseteq cut' /\ Reached(n)' => Reached(n)
         /\ Stacked' <=> StackOf(dirs')
         /\ \A n : Pending(n)' <=> PendingIn(dirs', n)
<1>1. Nodes' = Nodes
  BY DEF Nodes
<1>2. Calls' = Calls
  BY <1>1 DEF Calls
<1>3. \A n : Path(n)' = Path(n)
  BY DEF Path
<1>4. \A n : Visible(n)' <=> Visible(n)
  BY <1>3 DEF Visible
<1>5. Stacked' <=> StackOf(dirs')
  BY DEF Stacked, StackOf, CallOK, Child, Path
<1>6. \A n : Pending(n)' <=> PendingIn(dirs', n)
  BY DEF Pending, PendingIn, ComesTo, Child, Path
<1>7. \A n : cut \subseteq cut' /\ Reached(n)' => Reached(n)
  BY <1>3 DEF Reached
<1> QED
  BY <1>1, <1>2, <1>3, <1>4, <1>5, <1>6, <1>7

\* What is printed and what is to come stay as they should when nothing is
\* printed.
LEMMA ListStays ==
  ASSUME WalkInv, tree' = tree, printed' = printed,
         once \subseteq once', always' \subseteq always, cut \subseteq cut',
         there' \subseteq there,
         \A n \in Nodes : PendingIn(dirs', n) => Pending(n),
         \A n \in there : Due(n)' /\ Pending(n) => PendingIn(dirs', n)
  PROVE  NoneTwice' /\ NoneMissed' /\ ListedAsAsked'
<1>1. printed \in Seq(Nodes) /\ ToSet(printed) \subseteq Nodes
  <2>1. printed \in Seq(Nodes)
    BY DEF WalkInv, WalkTypeOK
  <2> QED
    BY <2>1 DEF ToSet
<1>2. ToSet(printed)' = ToSet(printed)
  BY DEF ToSet
<1>3. NoneTwice'
  BY <1>1, <1>2, SameTree DEF WalkInv, NoneTwice
<1>4. \A n : Due(n)' => Due(n)
  BY SameTree DEF Due
<1>5. NoneMissed'
  BY <1>2, <1>4, SameTree DEF WalkInv, NoneMissed
<1>6. ListedAsAsked'
  BY DEF WalkInv, ListedAsAsked, Visible, Path
<1> QED
  BY <1>3, <1>5, <1>6

Ended == {"done", "failed", "crashed", "undefined"}

\* A step that prints nothing.
LEMMA QuietStep ==
  ASSUME WalkInv, UNCHANGED <<files, filters, printed>>,
         cut \subseteq cut', cut' \in SUBSET Nodes,
         dirs' \in Seq(Calls), StackOf(dirs'),
         status' \in Ended \cup {"walking"},
         status' = "walking" => dirs' # <<>>,
         status' = "done" => dirs' = <<>>,
         \A n \in Nodes : PendingIn(dirs', n) => Pending(n),
         \A n \in there : Due(n)' /\ Pending(n) => PendingIn(dirs', n)
  PROVE  WalkInv'
<1>1. UNCHANGED <<tree, there, mtime, now, once, always, userFilter, timeFilter, printed>>
  BY DEF files, filters
<1>2. NoneTwice' /\ NoneMissed' /\ ListedAsAsked'
  BY <1>1, ListStays
<1>3. WalkTypeOK'
  BY <1>1, SameTree DEF WalkInv, WalkTypeOK, Ended
<1>4. Kept'
  BY <1>1 DEF WalkInv, Kept, Passing, Passes, Nodes
<1>5. Rooted'
  BY <1>1 DEF WalkInv, Rooted
<1>6. Stacked'
  BY <1>1, SameTree
<1> QED
  BY <1>2, <1>3, <1>4, <1>5, <1>6 DEF WalkInv

\* The program ends and leaves its calls as they are.
LEMMA EndStep ==
  ASSUME WalkInv, UNCHANGED <<files, filters, cut>>,
         NEW how \in Ended \ {"done"}, Ends(how)
  PROVE  WalkInv'
<1>1. status' = how /\ dirs' = dirs /\ printed' = printed
  BY DEF Ends
<1>2. \A n : Pending(n) <=> PendingIn(dirs', n)
  BY <1>1 DEF Pending
<1>3. dirs' \in Seq(Calls) /\ StackOf(dirs')
  BY <1>1 DEF WalkInv, WalkTypeOK, Stacked
<1>4. status' # "walking" /\ status' # "done" /\ status' \in Ended \cup {"walking"}
  BY <1>1 DEF Ended
<1>5. cut' \in SUBSET Nodes /\ cut \subseteq cut'
  BY DEF WalkInv, WalkTypeOK
<1> QED
  BY <1>1, <1>2, <1>3, <1>4, <1>5, QuietStep

\* What is known of the innermost call.
LEMMA Innermost ==
  ASSUME WalkInv, status = "walking"
  PROVE  /\ Typed /\ Tree /\ Stacked /\ Depth \in DOMAIN dirs /\ dirs # <<>>
         /\ dirs \in Seq(Calls)
         /\ This \in Calls /\ This.dir \in Nodes /\ This.open \in BOOLEAN
         /\ This.left \in SUBSET Nodes /\ This.de \in Nodes \cup {NoEntry}
         /\ CallOK(This)
         /\ \A n : ComesTo(This, n) => Pending(n)
<1>1. Typed /\ Tree /\ Stacked /\ dirs # <<>> /\ dirs \in Seq(Calls)
  BY InvTyped DEF Typed, WalkInv, WalkTypeOK
<1>2. Depth \in DOMAIN dirs
  BY <1>1, EmptySeq DEF Depth
<1> QED
  BY <1>1, <1>2, CallFacts DEF This, Stacked, StackOf, Pending, PendingIn

LEMMA PendingSplits ==
  ASSUME Depth \in DOMAIN dirs, NEW n
  PROVE  Pending(n)
           <=> ComesTo(This, n) \/ \E k \in DOMAIN dirs \ {Depth} : ComesTo(dirs[k], n)
BY DEF Pending, PendingIn, This

\* A step that changes the innermost call, and not what it comes to.
LEMMA ReplaceStep ==
  ASSUME WalkInv, status = "walking",
         UNCHANGED <<files, filters, cut, printed, status>>,
         NEW c \in Calls, c.dir = This.dir, CallOK(c),
         dirs' = [dirs EXCEPT ![Depth] = c],
         \A n \in Nodes : ComesTo(c, n) => ComesTo(This, n),
         \A n \in there : Due(n) /\ ComesTo(This, n) => ComesTo(c, n)
  PROVE  WalkInv'
<1>1. Typed /\ Stacked /\ Depth \in DOMAIN dirs
  BY Innermost
<1>2. /\ dirs' \in Seq(Calls) /\ dirs' # <<>> /\ StackOf(dirs')
      /\ \A n : PendingIn(dirs', n)
               <=> ComesTo(c, n) \/ \E k \in DOMAIN dirs \ {Depth} : ComesTo(dirs[k], n)
  BY <1>1, StackReplaced
<1>3. \A n \in Nodes : PendingIn(dirs', n) => Pending(n)
  BY <1>1, <1>2, PendingSplits
<1>4. cut' \in SUBSET Nodes /\ cut \subseteq cut' /\ \A n : Due(n)' <=> Due(n)
  BY DEF WalkInv, WalkTypeOK, files, Due, Visible, Reached, Path
<1>5. \A n \in there : Due(n)' /\ Pending(n) => PendingIn(dirs', n)
  BY <1>1, <1>2, <1>4, PendingSplits
<1> QED
  BY <1>2, <1>3, <1>4, <1>5, QuietStep

-----------------------------------------------------------------------------
(***************************************************************************)
(* The steps.                                                              *)
(***************************************************************************)
\* Opened, a directory has what was below it below its entries.
LEMMA OpenKeeps == WalkInv /\ OpenDir => WalkInv'
<1> SUFFICES ASSUME WalkInv, OpenDir PROVE WalkInv'
  OBVIOUS
<1> DEFINE c == [This EXCEPT !.open = TRUE, !.left = Entries(This.dir)]
           d == This.dir
<1>1. /\ status = "walking" /\ ~This.open
      /\ UNCHANGED <<files, filters, cut>>
  BY DEF OpenDir
<1>2. /\ Typed /\ Tree /\ Stacked /\ Depth \in DOMAIN dirs /\ d \in Nodes /\ This \in Calls
      /\ This.left \in SUBSET Nodes /\ CallOK(This)
  BY <1>1, Innermost
<1>3. Entries(d) \in SUBSET Nodes
  BY <1>2 DEF Entries, Tree, WalkInv, WalkTypeOK
<1>4. c \in Calls /\ c.dir = d /\ c.open = TRUE /\ c.left = Entries(d) /\ c.de = This.de
  BY <1>2, <1>3 DEF Calls
<1>5. This.de = NoEntry
  BY <1>1, <1>2 DEF CallOK
<1>6. CASE /\ d \in there
           /\ dirs' = [dirs EXCEPT ![Depth].open = TRUE, ![Depth].left = Entries(d)]
           /\ UNCHANGED <<printed, status>>
  <2>1. dirs' = [dirs EXCEPT ![Depth] = c]
    BY <1>2, <1>6 DEF This
  <2> HIDE DEF c, d
  <2>2. CallOK(c)
    <3>1. ASSUME NEW a \in Entries(d)
          PROVE  a \in {d, tree.above[d]} \/ Child(a, d)
      BY <1>2 DEF Entries, Child, Tree
    <3> QED
      BY <1>4, <1>5, <3>1 DEF CallOK
  <2>3. ASSUME NEW n \in Nodes, ComesTo(c, n)
        PROVE  ComesTo(This, n)
    <3>1. n # NoEntry
      BY <1>2 DEF Tree
    <3>2. PICK a \in c.left \cap Path(n) : Child(a, d)
      BY <1>4, <1>5, <2>3, <3>1 DEF ComesTo
    <3>3. a \in Nodes /\ d \in Path(a) /\ a \notin Path(d)
      BY <1>2, <1>3, <1>4, <3>2, NoChildAbove
    <3>4. d \in Path(n) /\ n # d
      BY <1>2, <3>2, <3>3, PathTransitive
    <3> QED
      BY <1>1, <3>4 DEF ComesTo, d
  <2>4. ASSUME NEW n \in there, ComesTo(This, n)
        PROVE  ComesTo(c, n)
    <3>1. n \in Nodes /\ n # NoEntry /\ there \in SUBSET Nodes /\ Rooted
      BY <1>2 DEF WalkInv, WalkTypeOK, Tree
    <3>2. CASE n # d /\ d \in Path(n)
      <4>1. PICK a \in Path(n) : Child(a, d)
        BY <1>2, <3>1, <3>2, ChildOnPath
      <4>2. a \in there
        BY <1>2, <3>1, <4>1, PathIsThere
      <4>3. a \in Entries(d)
        BY <4>1, <4>2 DEF Entries, Child
      <4> QED
        BY <1>4, <4>1, <4>3 DEF ComesTo
    <3>3. CASE \E a \in This.left \cap Path(n) : Child(a, d)
      <4>1. PICK a \in This.left \cap Path(n) : Child(a, d)
        BY <3>3
      <4>2. a \in there
        BY <1>2, <3>1, <4>1, PathIsThere
      <4>3. a \in Entries(d)
        BY <4>1, <4>2 DEF Entries, Child
      <4> QED
        BY <1>4, <4>1, <4>3 DEF ComesTo
    <3> QED
      BY <1>5, <2>4, <3>1, <3>2, <3>3 DEF ComesTo, d
  <2> QED
    BY <1>1, <1>4, <1>6, <2>1, <2>2, <2>3, <2>4, ReplaceStep DEF d
<1>7. CASE Ends("crashed")
  BY <1>1, <1>7, EndStep DEF Ended
<1> QED
  BY <1>6, <1>7 DEF OpenDir

\* What a call comes to when it reads n.
LEMMA ReadComesTo ==
  ASSUME WalkInv, Reading, NEW n \in This.left, NEW c \in Calls,
         c.dir = This.dir, c.open, c.left = This.left \ {n}, c.de \in {NoEntry, n}
  PROVE  /\ \A m \in Nodes : ComesTo(c, m) => ComesTo(This, m) \/ m = c.de
         /\ \A m \in Nodes : ComesTo(This, m) =>
              ComesTo(c, m) \/ (n \in Path(m) /\ Child(n, This.dir))
<1>1. This.open /\ This.de = NoEntry /\ Tree
  BY Innermost DEF Reading
<1>2. \A m \in Nodes : m # NoEntry
  BY <1>1 DEF Tree
<1> QED
  BY <1>1, <1>2 DEF ComesTo

\* An entry read is hidden, and so is what is below it; or it is to be printed,
\* and a call made for what is below it.
LEMMA ReadKeeps == WalkInv /\ ReadDir => WalkInv'
<1> SUFFICES ASSUME WalkInv, ReadDir PROVE WalkInv'
  OBVIOUS
<1> DEFINE d == This.dir
<1>1. /\ Reading /\ status = "walking" /\ This.open /\ This.de = NoEntry
      /\ UNCHANGED <<files, filters, cut>>
  BY DEF ReadDir, Reading
<1>2. /\ Typed /\ Tree /\ Stacked /\ Depth \in DOMAIN dirs /\ d \in Nodes /\ This \in Calls
      /\ This.left \in SUBSET Nodes /\ CallOK(This) /\ dirs \in Seq(Calls)
  BY <1>1, Innermost
<1>3. PICK n \in This.left :
        LET rest == [dirs EXCEPT ![Depth].left = @ \ {n}]
            read == [rest EXCEPT ![Depth].de = n]
        IN  IF Hidden(n, d) THEN dirs' = rest /\ UNCHANGED <<printed, status>>
            ELSE IF ~Descends(n) THEN dirs' = read /\ UNCHANGED <<printed, status>>
            ELSE IF Depth < MaxDepth THEN dirs' = Append(read, Call(n)) /\ UNCHANGED <<printed, status>>
            ELSE Ends("undefined")
  BY DEF ReadDir
<1> DEFINE rest == [dirs EXCEPT ![Depth].left = @ \ {n}]
           read == [rest EXCEPT ![Depth].de = n]
           skipped == [This EXCEPT !.left = @ \ {n}]
           taken == [This EXCEPT !.left = @ \ {n}, !.de = n]
<1>4. n \in Nodes /\ n # NoEntry /\ \A m \in Nodes : m # NoEntry
  BY <1>2 DEF Tree
<1>5. /\ skipped \in Calls /\ skipped.dir = d /\ skipped.open
      /\ skipped.left = This.left \ {n} /\ skipped.de = NoEntry
  BY <1>1, <1>2 DEF Calls
<1>6. /\ taken \in Calls /\ taken.dir = d /\ taken.open
      /\ taken.left = This.left \ {n} /\ taken.de = n
  BY <1>1, <1>2, <1>4 DEF Calls
<1>7. rest = [dirs EXCEPT ![Depth] = skipped] /\ read = [dirs EXCEPT ![Depth] = taken]
  BY <1>2 DEF This
<1> HIDE DEF skipped, taken, rest, read, d
<1>8. CASE Hidden(n, d)
  <2>1. dirs' = rest /\ UNCHANGED <<printed, status>>
    BY <1>3, <1>8 DEF rest, read
  <2>2. CallOK(skipped)
    BY <1>2, <1>5 DEF CallOK, d
  <2>3. \A m \in Nodes : ComesTo(skipped, m) => ComesTo(This, m)
    BY <1>1, <1>4, <1>5, ReadComesTo DEF d
  <2>4. ASSUME NEW m \in there, Due(m), ComesTo(This, m)
        PROVE  ComesTo(skipped, m)
    <3>1. m \in Nodes
      BY DEF WalkInv, WalkTypeOK
    <3>2. ASSUME n \in Path(m), Child(n, d)
          PROVE  FALSE
      <4>1. n # d /\ n # tree.above[d] /\ n # "top"
        BY <1>2, <1>4, <3>2, NoChildAbove DEF Child
      <4>2. tree.hidden[n]
        BY <1>8, <4>1 DEF Hidden
      <4> QED
        BY <2>4, <3>2, <4>1, <4>2 DEF Due, Visible
    <3> QED
      BY <1>1, <1>5, <2>4, <3>1, <3>2, ReadComesTo DEF d
  <2> QED
    BY <1>1, <1>5, <1>7, <2>1, <2>2, <2>3, <2>4, ReplaceStep DEF d
<1>9. ASSUME ~Hidden(n, d)
      PROVE  /\ Child(n, d) /\ CallOK(taken) /\ n \in Path(n)
             /\ \A m \in Nodes : n \in Path(m) => ComesTo(This, m)
             /\ \A m \in Nodes : ComesTo(taken, m) => ComesTo(This, m)
             /\ \A m \in Nodes : ComesTo(This, m) => ComesTo(taken, m) \/ (m # n /\ n \in Path(m))
  <2>1. Child(n, d) /\ ~tree.hidden[n]
    BY <1>2, <1>9 DEF CallOK, Hidden, d
  <2>2. CallOK(taken)
    BY <1>2, <1>6, <2>1 DEF CallOK, d
  <2>3. n \in Path(n)
    BY <1>2, <1>4, PathHas
  <2>4. \A m \in Nodes : n \in Path(m) => ComesTo(This, m)
    BY <2>1 DEF ComesTo, d
  <2>5. \A m \in Nodes : ComesTo(taken, m) => ComesTo(This, m) \/ m = n
    BY <1>1, <1>6, ReadComesTo DEF d
  <2>6. \A m \in Nodes : ComesTo(This, m) => ComesTo(taken, m) \/ n \in Path(m)
    BY <1>1, <1>6, ReadComesTo DEF d
  <2>7. ComesTo(taken, n)
    BY <1>6 DEF ComesTo
  <2> QED
    BY <1>4, <2>1, <2>2, <2>3, <2>4, <2>5, <2>6, <2>7
<1>10. CASE ~Hidden(n, d) /\ ~Descends(n)
  <2>1. dirs' = read /\ UNCHANGED <<printed, status>>
    BY <1>3, <1>10 DEF rest, read
  <2>2. ASSUME NEW m \in there, Due(m), ComesTo(This, m)
        PROVE  ComesTo(taken, m)
    <3>1. m \in Nodes
      BY DEF WalkInv, WalkTypeOK
    <3>2. ASSUME m # n, n \in Path(m)
          PROVE  FALSE
      <4>1. PICK a \in Path(m) : Child(a, n)
        BY <1>2, <3>1, <3>2, ChildOnPath
      <4>2. a \in Nodes
        BY <1>2, <3>1, PathHas
      <4>3. tree.kind[n] = "dir"
        BY <1>2, <4>1, <4>2 DEF Child, Tree
      <4>4. tree.typed[n]
        BY <1>9, <1>10, <2>2, <3>2 DEF Due, Reached, Child
      <4> QED
        BY <1>10, <4>3, <4>4 DEF Descends
    <3> QED
      BY <1>9, <1>10, <2>2, <3>1, <3>2
  <2> QED
    BY <1>1, <1>6, <1>7, <1>9, <1>10, <2>1, <2>2, ReplaceStep DEF d
<1>11. CASE ~Hidden(n, d) /\ dirs' = Append(read, Call(n)) /\ UNCHANGED <<printed, status>>
  <2>1. /\ read \in Seq(Calls) /\ Len(read) = Depth /\ read # <<>> /\ read[Depth] = taken
        /\ StackOf(read)
        /\ \A m : PendingIn(read, m)
                 <=> ComesTo(taken, m) \/ \E k \in DOMAIN dirs \ {Depth} : ComesTo(dirs[k], m)
    BY <1>2, <1>6, <1>7, <1>9, <1>11, StackReplaced DEF d
  <2>2. read[Len(read)].de = n
    BY <1>6, <2>1
  <2>3. /\ dirs' \in Seq(Calls) /\ StackOf(dirs')
        /\ \A m : PendingIn(dirs', m) <=> PendingIn(read, m) \/ ComesTo(Call(n), m)
    BY <1>2, <1>4, <1>11, <2>1, <2>2, StackPushed
  <2>4. dirs' # <<>>
    BY <1>11, <2>1
  <2>5. \A m \in Nodes : ComesTo(Call(n), m) <=> m # n /\ n \in Path(m)
    BY <1>4 DEF ComesTo, Call
  <2>6. \A m \in Nodes : PendingIn(dirs', m) => Pending(m)
    BY <1>2, <1>9, <1>11, <2>1, <2>3, <2>5, PendingSplits
  <2>7. ASSUME NEW m \in there, Pending(m)
        PROVE  PendingIn(dirs', m)
    <3>1. m \in Nodes
      BY DEF WalkInv, WalkTypeOK
    <3>2. ComesTo(This, m) => ComesTo(taken, m) \/ ComesTo(Call(n), m)
      BY <1>9, <1>11, <2>5, <3>1
    <3> QED
      BY <1>2, <2>1, <2>3, <2>7, <3>2, PendingSplits
  <2>8. cut' \in SUBSET Nodes /\ cut \subseteq cut'
    BY <1>1 DEF WalkInv, WalkTypeOK
  <2> QED
    BY <1>1, <1>11, <2>3, <2>4, <2>6, <2>7, <2>8, QuietStep
<1>12. CASE Ends("undefined")
  BY <1>1, <1>12, EndStep DEF Ended
<1> QED
  BY <1>3, <1>8, <1>10, <1>11, <1>12 DEF rest, read

\* A directory is closed when nothing is left in it, or what is left is lost.
LEMMA CloseKeeps == WalkInv /\ CloseDir => WalkInv'
<1> SUFFICES ASSUME WalkInv, CloseDir PROVE WalkInv'
  OBVIOUS
<1>1. /\ status = "walking" /\ This.open /\ This.de = NoEntry
      /\ cut' = IF This.left \cap there = {} THEN cut ELSE cut \cup {This.dir}
      /\ dirs' = Front(dirs) /\ status' = IF Depth = 1 THEN "done" ELSE "walking"
      /\ UNCHANGED <<files, filters, printed>>
  BY DEF CloseDir, Reading
<1>2. Typed /\ Tree /\ Stacked /\ dirs # <<>> /\ This.dir \in Nodes /\ This.left \in SUBSET Nodes
  BY <1>1, Innermost
<1>3. /\ dirs' \in Seq(Calls) /\ (Depth # 1 => dirs' # <<>>) /\ (Depth = 1 => dirs' = <<>>)
      /\ StackOf(dirs')
      /\ \A m : PendingIn(dirs, m) <=> PendingIn(dirs', m) \/ ComesTo(This, m)
  BY <1>1, <1>2, StackPopped
<1>4. cut \subseteq cut' /\ cut' \in SUBSET Nodes
  BY <1>1, <1>2 DEF WalkInv, WalkTypeOK
<1>5. ASSUME NEW m \in there, Due(m)', ComesTo(This, m)
      PROVE  FALSE
  <2>1. m \in Nodes /\ m # NoEntry /\ Path(m) \subseteq there
    BY <1>2, PathIsThere DEF WalkInv, WalkTypeOK, Tree
  <2>2. PICK a \in This.left \cap Path(m) : Child(a, This.dir)
    BY <1>1, <1>5, <2>1 DEF ComesTo
  <2>3. This.dir \in Path(a) /\ a \notin Path(This.dir)
    BY <1>2, <2>2, NoChildAbove
  <2>4. This.dir \in Path(m) /\ m # This.dir
    BY <1>2, <2>1, <2>2, <2>3, PathTransitive
  <2>5. This.dir \in cut'
    BY <1>1, <2>1, <2>2
  <2>6. Path(m)' = Path(m)
    BY <1>1 DEF files, Path
  <2> QED
    BY <1>5, <2>4, <2>5, <2>6 DEF Due, Reached
<1>6. \A m \in Nodes : PendingIn(dirs', m) => Pending(m)
  BY <1>3 DEF Pending
<1>7. \A m \in there : Due(m)' /\ Pending(m) => PendingIn(dirs', m)
  BY <1>3, <1>5 DEF Pending
<1>8. /\ status' \in Ended \cup {"walking"}
      /\ status' = "walking" => dirs' # <<>>
      /\ status' = "done" => dirs' = <<>>
  BY <1>1, <1>3 DEF Ended
<1> QED
  BY <1>1, <1>3, <1>4, <1>6, <1>7, <1>8, QuietStep

-----------------------------------------------------------------------------
\* The filter of the code is the one the user means.
LEMMA Display ==
  ASSUME Typed, NEW n \in Nodes
  PROVE  toDisplay(n) <=> Passes(n)
<1>1. mtime[n] \in Int /\ timeFilter \in Int /\ now \in Int
  BY DEF Typed, WalkTypeOK
<1> DEFINE m == mtime[n]
<1> HIDE DEF m
<1>2. /\ timeFilter > 0 => (m < now - timeFilter <=> now - m > timeFilter)
      /\ timeFilter < 0 => (m > now + timeFilter <=> now - m < -timeFilter)
      /\ timeFilter = 0 \/ timeFilter > 0 \/ timeFilter < 0
      /\ ~(timeFilter > 0 /\ timeFilter < 0) /\ (timeFilter = 0 => ~(timeFilter > 0) /\ ~(timeFilter < 0))
  BY <1>1 DEF m
<1> QED
  BY <1>2 DEF toDisplay, Passes, m

\* Each directory an entry just read is in was read by a call that waits.
LEMMA ReadPath ==
  ASSUME Typed, Stacked, Depth \in DOMAIN dirs, This.de # NoEntry,
         NEW m \in Path(This.de), m # "top"
  PROVE  ~tree.hidden[m] /\ Pending(m)
<1>1. PICK k \in DOMAIN dirs : dirs[k].de = m /\ m # NoEntry
  <2>1. This.de \in Nodes /\ Child(This.de, This.dir)
    BY CallFacts DEF This
  <2>2. m = This.de \/ m \in Path(This.dir)
    BY <2>1, PathStep DEF Child, Typed
  <2>3. CASE m = This.de
    BY <2>3 DEF This
  <2>4. CASE m \in Path(This.dir)
    <3>1. PICK j \in 1 .. Depth : m = dirs[j].dir
      BY <2>4, StackPath DEF This
    <3>2. j \in DOMAIN dirs
      BY CallFacts
    <3>3. j > 1
      BY <3>1, <3>2, CallFacts
    <3> QED
      BY <3>1, <3>2, <3>3, CallFacts
  <2> QED
    BY <2>2, <2>3, <2>4
<1> QED
  BY <1>1, CallFacts DEF Pending, PendingIn, ComesTo

LEMMA AppendedSet ==
  ASSUME NEW S, NEW s \in Seq(S), NEW e \in S
  PROVE  ToSet(Append(s, e)) = ToSet(s) \cup {e}
<1> DEFINE t == Append(s, e)
<1>1. /\ DOMAIN s = 1 .. Len(s) /\ DOMAIN t = 1 .. Len(s) + 1 /\ Len(s) \in Nat
      /\ t[Len(s) + 1] = e /\ \A i \in 1 .. Len(s) : t[i] = s[i]
  OBVIOUS
<1> HIDE DEF t
<1>2. /\ \A i \in DOMAIN t : i \in DOMAIN s \/ i = Len(s) + 1
      /\ DOMAIN s \subseteq DOMAIN t /\ Len(s) + 1 \in DOMAIN t
  BY <1>1
<1>3. ToSet(t) = ToSet(s) \cup {e}
  BY <1>1, <1>2 DEF ToSet
<1> QED
  BY <1>3 DEF t

\* The entry read last is printed, or does not pass.
LEMMA PrintKeeps == WalkInv /\ PrintData => WalkInv'
<1> SUFFICES ASSUME WalkInv, PrintData PROVE WalkInv'
  OBVIOUS
<1> DEFINE n == This.de
           c == [This EXCEPT !.de = NoEntry]
<1>1. /\ status = "walking" /\ This.open /\ n # NoEntry
      /\ UNCHANGED <<files, filters, cut>>
  BY DEF PrintData
<1>0. UNCHANGED <<tree, there, mtime, now, once, always, userFilter, timeFilter, cut>>
  BY <1>1 DEF files, filters
<1>2. /\ Typed /\ Tree /\ Stacked /\ Depth \in DOMAIN dirs /\ This \in Calls /\ CallOK(This)
      /\ n \in Nodes /\ \A m \in Nodes : m # NoEntry
  BY <1>1, Innermost DEF Tree
<1>3. /\ c \in Calls /\ c.dir = This.dir /\ c.open /\ c.left = This.left /\ c.de = NoEntry
  BY <1>1, <1>2 DEF Calls
<1>4. CallOK(c)
  BY <1>2, <1>3 DEF CallOK
<1> HIDE DEF c, n
<1>5. /\ \A m \in Nodes : ComesTo(c, m) => ComesTo(This, m)
      /\ \A m \in Nodes : ComesTo(This, m) /\ m # n => ComesTo(c, m)
  BY <1>1, <1>2, <1>3 DEF ComesTo, n
<1>6. CASE Ends("failed") \/ Ends("crashed")
  BY <1>1, <1>6, EndStep DEF Ended
<1>7. CASE /\ printed' = IF toDisplay(n) THEN Append(printed, n) ELSE printed
           /\ dirs' = [dirs EXCEPT ![Depth].de = NoEntry]
           /\ status' = status
  <2>1. dirs' = [dirs EXCEPT ![Depth] = c]
    BY <1>2, <1>7 DEF This, c
  <2>2. /\ dirs' \in Seq(Calls) /\ dirs' # <<>> /\ StackOf(dirs')
        /\ \A m : PendingIn(dirs', m)
                 <=> ComesTo(c, m) \/ \E k \in DOMAIN dirs \ {Depth} : ComesTo(dirs[k], m)
    BY <1>2, <1>3, <1>4, <2>1, StackReplaced
  <2>3. ~PendingIn(dirs', n)
    <3>1. ~ComesTo(c, n)
      BY <1>1, <1>2, <1>3, ReadIsPendingOnce DEF ComesTo, This, n
    <3>2. \A k \in DOMAIN dirs \ {Depth} : ~ComesTo(dirs[k], n)
      BY <1>1, <1>2, ReadIsPendingOnce DEF ComesTo, n
    <3> QED
      BY <2>2, <3>1, <3>2
  <2>4. \A m \in Nodes : PendingIn(dirs', m) => Pending(m)
    BY <1>2, <1>5, <2>2, PendingSplits
  <2>5. \A m \in Nodes : Pending(m) => PendingIn(dirs', m) \/ m = n
    BY <1>2, <1>5, <2>2, PendingSplits
  <2>6. printed \in Seq(Nodes) /\ ToSet(printed) \subseteq Nodes
    <3>1. printed \in Seq(Nodes)
      BY DEF WalkInv, WalkTypeOK
    <3> QED
      BY <3>1 DEF ToSet
  <2>7. /\ printed' \in Seq(Nodes)
        /\ ToSet(printed)' = ToSet(printed) \cup (IF toDisplay(n) THEN {n} ELSE {})
    <3>1. CASE toDisplay(n)
      <4>1. printed' = Append(printed, n)
        BY <1>7, <3>1
      <4>2. ToSet(Append(printed, n)) = ToSet(printed) \cup {n}
        BY <1>2, <2>6, AppendedSet
      <4> QED
        BY <1>2, <2>6, <3>1, <4>1, <4>2 DEF ToSet, n
    <3>2. CASE ~toDisplay(n)
      BY <1>7, <2>6, <3>2 DEF ToSet
    <3> QED
      BY <3>1, <3>2
  <2>8. toDisplay(n) <=> Passes(n)
    BY <1>2, Display DEF n
  <2>9. /\ Passes(n) => n \in once
        /\ n \in always => Passes(n)
    BY <1>2 DEF WalkInv, Kept, Passing, n
  <2>10. WalkTypeOK' /\ Rooted' /\ Stacked' /\ (status # "done")'
    BY <1>0, <1>1, <1>7, <2>2, <2>7, SameTree DEF WalkInv, WalkTypeOK, Rooted
  <2>11. NoneTwice'
    <3> SUFFICES ASSUME NEW m \in ToSet(printed)' PROVE ~PendingIn(dirs', m)
      BY <1>0, SameTree DEF NoneTwice
    <3>1. CASE m = n
      BY <2>3, <3>1
    <3>2. CASE m \in ToSet(printed)
      BY <2>4, <2>6, <3>2 DEF WalkInv, NoneTwice
    <3> QED
      BY <2>7, <3>1, <3>2
  <2>12. NoneMissed'
    <3>1. \A m : Due(m)' <=> Due(m)
      BY <1>0 DEF Due, Visible, Reached, Path
    <3> SUFFICES ASSUME NEW m \in there, Due(m)
                 PROVE  m \in ToSet(printed)' \/ PendingIn(dirs', m)
      BY <1>0, <3>1, SameTree DEF NoneMissed
    <3>2. m \in ToSet(printed) \/ Pending(m)
      BY DEF WalkInv, NoneMissed
    <3>3. m \in Nodes
      BY DEF WalkInv, WalkTypeOK
    <3>4. m = n => m \in ToSet(printed)'
      BY <2>7, <2>8, <2>9 DEF Due
    <3> QED
      BY <2>5, <2>7, <3>2, <3>3, <3>4
  <2>13. ListedAsAsked'
    <3>1. ASSUME NEW p \in ToSet(printed)
          PROVE  p \notin Path(n)
      <4>1. p # "top"
        BY DEF WalkInv, ListedAsAsked, Visible, ToSet
      <4>2. ~Pending(p)
        BY DEF WalkInv, NoneTwice
      <4> QED
        BY <1>1, <1>2, <4>1, <4>2, ReadPath DEF n
    <3>2. Visible(n)
      <4>1. n # "top"
        BY <1>1, <1>2 DEF CallOK, Child, n
      <4> QED
        BY <1>1, <1>2, <4>1, ReadPath DEF Visible, n
    <3> SUFFICES ASSUME NEW i \in DOMAIN printed'
                 PROVE  /\ Visible(printed'[i])
                        /\ printed'[i] \in once
                        /\ \A j \in 1 .. i - 1 : printed'[j] \notin Path(printed'[i])
      BY <1>0 DEF ListedAsAsked, Visible, Path
    <3>3. CASE i \in DOMAIN printed
      <4>1. printed'[i] = printed[i] /\ \A j \in 1 .. i - 1 : printed'[j] = printed[j]
        BY <1>2, <1>7, <2>6, <3>3
      <4>2. /\ Visible(printed[i])
            /\ printed[i] \in once
            /\ \A j \in 1 .. i - 1 : printed[j] \notin Path(printed[i])
        BY <3>3 DEF WalkInv, ListedAsAsked
      <4> QED
        BY <4>1, <4>2
    <3>4. CASE i \notin DOMAIN printed
      <4>1. toDisplay(n) /\ printed' = Append(printed, n)
        BY <1>7, <3>4
      <4>2. printed'[i] = n /\ \A j \in 1 .. i - 1 : j \in DOMAIN printed /\ printed'[j] = printed[j]
        BY <1>2, <2>6, <3>4, <4>1 DEF n
      <4>3. \A j \in DOMAIN printed : printed[j] \in ToSet(printed)
        BY DEF ToSet
      <4> QED
        BY <2>8, <2>9, <3>1, <3>2, <4>1, <4>2, <4>3
    <3> QED
      BY <3>3, <3>4
  <2>14. Kept'
    BY <1>0 DEF WalkInv, Kept, Passing, Passes, Nodes
  <2> QED
    BY <2>10, <2>11, <2>12, <2>13, <2>14 DEF WalkInv
<1> QED
  BY <1>6, <1>7 DEF PrintData, n

\* The files change, and the history with them.
LEMMA FilesChange ==
  ASSUME WalkInv, UNCHANGED <<tree, filters, dirs, printed, status, cut>>,
         there' \subseteq there, Rooted', (mtime \in [Nodes -> Int])', now' \in Nat,
         once' = once \cup Passing', always' = always \cap Passing'
  PROVE  WalkInv'
<1>1. \A m : Pending(m) <=> PendingIn(dirs', m)
  BY DEF Pending
<1>2. NoneTwice' /\ NoneMissed' /\ ListedAsAsked'
  BY <1>1, ListStays
<1>3. Kept'
  BY DEF Kept
<1>4. Stacked'
  BY SameTree DEF WalkInv, Stacked
<1>5. WalkTypeOK' /\ (status = "done" => dirs = <<>>)'
  BY SameTree DEF WalkInv, WalkTypeOK, filters
<1> QED
  BY <1>2, <1>3, <1>4, <1>5 DEF WalkInv

\* What is removed leaves what is above it.
LEMMA UnlinkKeeps == \A n \in Nodes : WalkInv /\ Unlink(n) => WalkInv'
<1> SUFFICES ASSUME WalkInv, NEW n \in Nodes, Unlink(n) PROVE WalkInv'
  OBVIOUS
<1>1. /\ n \in there /\ there' = there \ {n} /\ \A m \in there \ {n} : tree.above[m] # n
      /\ mtime' = [mtime EXCEPT ![tree.above[n]] = now]
      /\ UNCHANGED <<tree, now, filters, dirs, printed, status, cut>>
      /\ once' = once \cup Passing' /\ always' = always \cap Passing'
  BY DEF Unlink
<1>2. Rooted'
  BY <1>1 DEF WalkInv, Rooted
<1>3. mtime \in [Nodes -> Int] /\ now \in Nat /\ now \in Int
  BY DEF WalkInv, WalkTypeOK
<1>4. (mtime \in [Nodes -> Int])' /\ now' \in Nat
  BY <1>1, <1>3, SameTree
<1>5. there' \subseteq there
  BY <1>1
<1> QED
  BY <1>1, <1>2, <1>4, <1>5, FilesChange

LEMMA TimeKeeps == WalkInv /\ TimePasses => WalkInv'
<1> SUFFICES ASSUME WalkInv, TimePasses PROVE WalkInv'
  OBVIOUS
<1>1. /\ now' = now + 1
      /\ UNCHANGED <<tree, there, mtime, filters, dirs, printed, status, cut>>
      /\ once' = once \cup Passing' /\ always' = always \cap Passing'
  BY DEF TimePasses
<1>2. Rooted' /\ (mtime \in [Nodes -> Int])' /\ now' \in Nat
  BY <1>1, SameTree DEF WalkInv, WalkTypeOK, Rooted
<1> QED
  BY <1>1, <1>2, FilesChange

LEMMA WalkStep == WalkInv /\ [Next]_vars => WalkInv'
<1> SUFFICES ASSUME WalkInv, [Next]_vars PROVE WalkInv'
  OBVIOUS
<1>1. CASE OpenDir
  BY <1>1, OpenKeeps
<1>2. CASE ReadDir
  BY <1>2, ReadKeeps
<1>3. CASE CloseDir
  BY <1>3, CloseKeeps
<1>4. CASE PrintData
  BY <1>4, PrintKeeps
<1>5. CASE TimePasses
  BY <1>5, TimeKeeps
<1>6. CASE \E n \in Nodes : Unlink(n)
  BY <1>6, UnlinkKeeps
<1>7. CASE UNCHANGED vars
  <2>1. UNCHANGED <<files, filters, dirs, printed, status, cut>>
    BY <1>7 DEF vars
  <2>2. dirs \in Seq(Calls) /\ StackOf(dirs) /\ \A m : Pending(m) <=> PendingIn(dirs', m)
    BY <2>1 DEF WalkInv, WalkTypeOK, Stacked, Pending
  <2>3. status \in Ended \cup {"walking"} /\ (status = "walking" => dirs # <<>>)
    BY DEF WalkInv, WalkTypeOK, Ended
  <2>4. cut' \in SUBSET Nodes /\ cut \subseteq cut'
    BY <2>1 DEF WalkInv, WalkTypeOK
  <2> QED
    BY <2>1, <2>2, <2>3, <2>4, QuietStep DEF WalkInv
<1> QED
  BY <1>1, <1>2, <1>3, <1>4, <1>5, <1>6, <1>7 DEF Next, Walk

-----------------------------------------------------------------------------
(***************************************************************************)
(* The theorems.                                                           *)
(***************************************************************************)
\* The invariant of the walk holds in every state (main.c:50-127).
THEOREM WalkInvariance == Spec => []WalkInv
<1>1. Init => WalkInv
  BY WalkInit
<1>2. WalkInv /\ [Next]_vars => WalkInv'
  BY WalkStep
<1> QED
  BY <1>1, <1>2, PTL DEF Spec

\* What is printed passes the filters, is not hidden or in a hidden directory,
\* is printed once, and before the directories it is in (main.c:61-75, 250-290).
THEOREM ListsWhatWasAsked == Spec => []ListedAsAsked
<1>1. WalkInv => ListedAsAsked
  BY DEF WalkInv
<1> QED
  BY <1>1, WalkInvariance, PTL

\* A walk that ends well has missed nothing that stayed, passed all along and
\* could be reached, whatever was removed around it (main.c:61-77, 86-94).
THEOREM NothingIsMissed == Spec => []Complete
<1>1. WalkInv => Complete
  <2> SUFFICES ASSUME WalkInv, status = "done",
                      NEW n \in there \cap always, Visible(n), Reached(n)
               PROVE  n \in ToSet(printed)
    BY DEF Complete
  <2>1. n \in ToSet(printed) \/ Pending(n)
    BY DEF WalkInv, NoneMissed, Due
  <2>2. ~Pending(n)
    BY DEF WalkInv, Pending, PendingIn
  <2> QED
    BY <2>1, <2>2
<1> QED
  BY <1>1, WalkInvariance, PTL

=============================================================================
