--------------------------- MODULE CopyCatProofs ---------------------------
(***************************************************************************)
(* Proofs about CopyCat, for all command lines, files and sizes of the     *)
(* buffer and whatever reads and writes return: when the options come      *)
(* first the inputs are what the user asked for, and the output holds the  *)
(* start of their content.                                                 *)
(***************************************************************************)
EXTENDS CopyCat, SequenceTheorems, FiniteSetTheorems, WellFoundedInduction, TLAPS

-----------------------------------------------------------------------------
(***************************************************************************)
(* The inductive invariant.                                                *)
(***************************************************************************)
Streams == Names \cup {"stdout"}

CatTypeOK ==
  /\ argv \in CommandLines
  /\ content \in [Streams -> Seq(Bytes)]
  /\ inpos \in [Streams -> Nat]
  /\ outfd \in (Streams \ {"stdin"}) \cup {None}
  /\ i \in Nat \ {0}
  /\ buf \in Seq(Bytes)
  /\ pc \in {"start", "open", "read", "write", "done", "error", "crashed"}
  /\ pc \in {"read", "write"} => i <= Len(inputFiles) /\ infd \in Names \ {"stdout"}

\* The first state.
AtStart ==
  pc = "start" =>
    /\ outfd = None /\ i = 1 /\ inpos["stdin"] = 0 /\ content["stdout"] = <<>>
    /\ \A f \in Names \ {"stdout"} : content[f] = Contents[f]

\* What is copied is what was asked for: the hypotheses of CopiedInOrder.
AsksWell ==
  /\ pc # "start" /\ outfd # None
  /\ OptionsFirst
  /\ \A k \in DOMAIN Asked : Asked[k] # outfd

\* The content of the first k inputs.
Upto(k) == FlattenSeq([n \in 1 .. k |-> ContentOf(n)])

\* What is left of the input.
Rest == SubSeq(content[infd], inpos[infd] + 1, Len(content[infd]))

Starts(s, t) == Len(s) <= Len(t) /\ s = SubSeq(t, 1, Len(s))

\* The inputs are as they were.
InputsStay == \A f \in Names \ {"stdout"} : f # outfd => content[f] = Contents[f]

Stream(k) == IF Asked[k] = "-" THEN "stdin" ELSE Asked[k]

\* The standard input was read whole if it is one of the first k inputs.
StdinAfter(k) ==
  inpos["stdin"] = IF \E j \in 1 .. k : Asked[j] = "-" THEN Len(Contents["stdin"]) ELSE 0

Places ==
  /\ i <= Len(Asked) + 1
  /\ pc \in {"read", "write"} => i <= Len(Asked) /\ infd = Stream(i)
  /\ inpos["stdin"] <= Len(Contents["stdin"])

\* What was copied, what is in the buffer and what is left of the input make
\* up the first inputs.
Copied ==
  /\ pc = "open" \/ (pc \in {"read", "write"} /\ infd # "stdin") => StdinAfter(i - 1)
  /\ CASE pc = "open" -> content[outfd] = Upto(i - 1)
       [] pc = "read" -> content[outfd] \o Rest = Upto(i)
       [] pc = "write" -> content[outfd] \o (buf \o Rest) = Upto(i)
       [] pc = "done" -> content[outfd] = AskedContent
       [] OTHER -> Starts(content[outfd], AskedContent)

CopySoFar ==
  /\ InputsStay /\ Places
  /\ IF bufferSize = 0 THEN content[outfd] = <<>> /\ pc # "write" ELSE Copied

CatInv == CatTypeOK /\ AtStart /\ (AsksWell => CopySoFar)

-----------------------------------------------------------------------------
(***************************************************************************)
(* Induction over numbers, and the concatenation of a sequence of          *)
(* sequences.                                                              *)
(***************************************************************************)
\* The least-number principle, from the library's order on finite sets.
LEMMA LeastNumber ==
  ASSUME NEW S \in SUBSET Nat, S # {}
  PROVE  \E n \in S : \A m \in S : n <= m
<1> DEFINE T == {1 .. n : n \in S}
<1>1. T \subseteq FiniteSubsetsOf(Nat)
  <2>1. \A n \in S : IsFiniteSet(1 .. n) /\ 1 .. n \in SUBSET Nat
    BY FS_Interval
  <2>2. QED
    BY <2>1 DEF FiniteSubsetsOf
<1>2. T # {}
  OBVIOUS
<1>3. PICK x \in T : \A y \in T : <<y, x>> \notin StrictSubsetOrdering(Nat)
  <2>1. IsWellFoundedOn(StrictSubsetOrdering(Nat), FiniteSubsetsOf(Nat))
    BY FS_StrictSubsetOrderingWellFounded
  <2> HIDE DEF T
  <2>2. QED
    BY <1>1, <1>2, <2>1, WFMin
<1>4. PICK n \in S : x = 1 .. n
  OBVIOUS
<1>5. ASSUME NEW m \in S, m < n
      PROVE  FALSE
  <2>1. /\ 1 .. m \in SUBSET Nat /\ 1 .. n \in SUBSET Nat
        /\ 1 .. m \subseteq 1 .. n
    BY <1>5
  <2>2. n \in 1 .. n /\ n \notin 1 .. m
    BY <1>5
  <2>3. <<1 .. m, x>> \in StrictSubsetOrdering(Nat)
    BY <2>1, <2>2, <1>4 DEF StrictSubsetOrdering
  <2>4. QED
    BY <2>3, <1>3
<1>6. QED
  BY <1>5

\* Induction up to a number, for sets of numbers.
LEMMA Upwards ==
  ASSUME NEW n \in Nat, NEW T, 0 \in T, \A k \in 1 .. n : k - 1 \in T => k \in T
  PROVE  \A k \in 0 .. n : k \in T
<1> DEFINE Missing == {k \in 0 .. n : k \notin T}
<1>1. SUFFICES ASSUME Missing # {} PROVE FALSE
  OBVIOUS
<1>2. Missing \in SUBSET Nat
  OBVIOUS
<1>3. PICK k \in Missing : \A m \in Missing : k <= m
  <2> HIDE DEF Missing
  <2>1. QED
    BY <1>1, <1>2, LeastNumber
<1>4. k \in 1 .. n /\ k - 1 \in 0 .. n /\ ~(k <= k - 1)
  OBVIOUS
<1>5. k - 1 \in T
  BY <1>3, <1>4
<1>6. QED
  BY <1>4, <1>5

\* f[k] is the concatenation of the first k sequences of p.
Joins(f, p, n) == f[0] = <<>> /\ \A k \in 1 .. n : f[k] = f[k - 1] \o p[k]

\* There are concatenations of the first sequences.
LEMMA JoinExists ==
  ASSUME NEW S, NEW n \in Nat, NEW p \in [1 .. n -> Seq(S)]
  PROVE  \E f \in [0 .. n -> Seq(S)] : Joins(f, p, n)
<1> DEFINE T == {m \in 0 .. n : \E f \in [0 .. m -> Seq(S)] : Joins(f, p, m)}
<1>1. 0 \in T
  <2> DEFINE f == [k \in 0 .. 0 |-> <<>>]
  <2>1. f \in [0 .. 0 -> Seq(S)] /\ Joins(f, p, 0)
    BY DEF Joins
  <2>2. 0 \in 0 .. n
    OBVIOUS
  <2> HIDE DEF f
  <2>3. QED
    BY <2>1, <2>2
<1>2. ASSUME NEW m \in 1 .. n, m - 1 \in T
      PROVE  m \in T
  <2>1. PICK f \in [0 .. m - 1 -> Seq(S)] : Joins(f, p, m - 1)
    BY <1>2
  <2> DEFINE g == [k \in 0 .. m |-> IF k = m THEN f[m - 1] \o p[m] ELSE f[k]]
  <2>2. f[m - 1] \in Seq(S) /\ p[m] \in Seq(S) /\ f[m - 1] \o p[m] \in Seq(S)
    BY ConcatProperties
  <2>3. g \in [0 .. m -> Seq(S)]
    BY <2>2
  <2>4. ASSUME NEW k \in 1 .. m
        PROVE  g[k] = g[k - 1] \o p[k]
    <3>1. k - 1 \in 0 .. m /\ k \in 0 .. m /\ k - 1 # m
      OBVIOUS
    <3>2. g[k - 1] = f[k - 1]
      BY <3>1
    <3>3. CASE k = m
      BY <3>1, <3>2, <3>3
    <3>4. CASE k # m
      <4>1. k \in 1 .. m - 1
        BY <3>4
      <4>2. f[k] = f[k - 1] \o p[k]
        BY <2>1, <4>1 DEF Joins
      <4>3. QED
        BY <3>1, <3>2, <3>4, <4>2
    <3>5. QED
      BY <3>3, <3>4
  <2>5. g[0] = <<>>
    BY <2>1 DEF Joins
  <2> HIDE DEF g
  <2>6. Joins(g, p, m)
    BY <2>4, <2>5 DEF Joins
  <2>7. QED
    BY <2>3, <2>6
<1>3. n \in T
  <2> HIDE DEF T
  <2>1. \A k \in 1 .. n : k - 1 \in T => k \in T
    BY <1>2
  <2>2. n \in 0 .. n
    OBVIOUS
  <2>3. \A k \in 0 .. n : k \in T
    BY <1>1, <2>1, Upwards, Zenon
  <2>4. QED
    BY <2>2, <2>3
<1>4. QED
  BY <1>3

\* FlattenSeq gives the last of them.
LEMMA FlattenIsJoin ==
  ASSUME NEW S, NEW n \in Nat, NEW p \in [1 .. n -> Seq(S)],
         NEW f \in [0 .. n -> Seq(S)], Joins(f, p, n)
  PROVE  FlattenSeq(p) = f[n]
<1>1. p \in Seq(Seq(S)) /\ Len(p) = n
  OBVIOUS
<1>2. CASE n = 0
  <2>1. p = <<>>
    BY <1>1, <1>2
  <2>2. QED
    BY <1>1, <1>2, <2>1 DEF FlattenSeq, Joins
<1>3. CASE n # 0
  <2> DEFINE IsIt(h) == h = [k \in 1 .. Len(p) |-> IF k = 1 THEN p[k] ELSE h[k - 1] \o p[k]]
             h == CHOOSE h : IsIt(h)
  <2>1. FlattenSeq(p) = h[n]
    BY <1>1, <1>3 DEF FlattenSeq
  <2> DEFINE g == [k \in 1 .. n |-> f[k]]
  <2>2. f[1] = p[1]
    <3>1. 1 \in 1 .. n /\ 1 - 1 = 0
      BY <1>3
    <3>2. f[1] = <<>> \o p[1] /\ p[1] \in Seq(S)
      BY <3>1 DEF Joins
    <3>3. QED
      BY <3>2, ConcatEmptySeq
  <2>3. ASSUME NEW k \in 1 .. n
        PROVE  g[k] = IF k = 1 THEN p[k] ELSE g[k - 1] \o p[k]
    <3>1. CASE k = 1
      BY <2>2, <3>1
    <3>2. CASE k # 1
      <4>1. k - 1 \in 1 .. n
        BY <3>2
      <4>2. f[k] = f[k - 1] \o p[k]
        BY DEF Joins
      <4>3. QED
        BY <3>2, <4>1, <4>2
    <3>3. QED
      BY <3>1, <3>2
  <2>4. IsIt(g)
    BY <1>1, <2>3
  <2>5. IsIt(h)
    <3> HIDE DEF IsIt
    <3>1. QED
      BY <2>4
  <2> HIDE DEF h
  <2> DEFINE T == {m \in 0 .. n : m > 0 => h[m] = f[m]}
  <2>6. 0 \in T
    OBVIOUS
  <2>7. ASSUME NEW m \in 1 .. n, m - 1 \in T
        PROVE  m \in T
    <3>1. h[m] = IF m = 1 THEN p[m] ELSE h[m - 1] \o p[m]
      BY <1>1, <2>5
    <3>2. m \in 0 .. n
      OBVIOUS
    <3>3. CASE m = 1
      BY <2>2, <3>1, <3>2, <3>3
    <3>4. CASE m # 1
      <4>1. m - 1 > 0
        BY <3>4
      <4>2. h[m - 1] = f[m - 1]
        BY <2>7, <4>1
      <4>3. f[m] = f[m - 1] \o p[m]
        BY DEF Joins
      <4>4. QED
        BY <3>1, <3>2, <3>4, <4>2, <4>3
    <3>5. QED
      BY <3>3, <3>4
  <2>8. n \in T
    <3> HIDE DEF T
    <3>1. \A k \in 1 .. n : k - 1 \in T => k \in T
      BY <2>7
    <3>2. n \in 0 .. n
      OBVIOUS
    <3>3. \A k \in 0 .. n : k \in T
      BY <2>6, <3>1, Upwards, Zenon
    <3>4. QED
      BY <3>2, <3>3
  <2>9. QED
    BY <1>3, <2>1, <2>8
<1>4. QED
  BY <1>2, <1>3

\* One sequence more is appended.
LEMMA FlattenStep ==
  ASSUME NEW S, NEW n \in Nat, NEW m \in 1 .. n,
         NEW p \in [1 .. n -> Seq(S)]
  PROVE  /\ FlattenSeq([k \in 1 .. m |-> p[k]]) = FlattenSeq([k \in 1 .. m - 1 |-> p[k]]) \o p[m]
         /\ FlattenSeq([k \in 1 .. m |-> p[k]]) \in Seq(S)
         /\ FlattenSeq([k \in 1 .. m - 1 |-> p[k]]) \in Seq(S)
<1>1. PICK f \in [0 .. n -> Seq(S)] : Joins(f, p, n)
  BY JoinExists
<1>2. ASSUME NEW l \in 0 .. n
      PROVE  FlattenSeq([k \in 1 .. l |-> p[k]]) = f[l]
  <2> DEFINE q == [k \in 1 .. l |-> p[k]]
             g == [k \in 0 .. l |-> f[k]]
  <2>1. q \in [1 .. l -> Seq(S)] /\ g \in [0 .. l -> Seq(S)] /\ l \in Nat
    OBVIOUS
  <2>2. Joins(g, q, l)
    <3>1. g[0] = <<>>
      BY <1>1 DEF Joins
    <3>2. ASSUME NEW k \in 1 .. l
          PROVE  g[k] = g[k - 1] \o q[k]
      <4>1. k \in 1 .. n /\ k \in 0 .. l /\ k - 1 \in 0 .. l
        OBVIOUS
      <4>2. f[k] = f[k - 1] \o p[k]
        BY <1>1, <4>1 DEF Joins
      <4>3. QED
        BY <4>1, <4>2
    <3> HIDE DEF g, q
    <3>3. QED
      BY <3>1, <3>2 DEF Joins
  <2> HIDE DEF q, g
  <2>3. FlattenSeq(q) = g[l]
    BY <2>1, <2>2, FlattenIsJoin
  <2>4. QED
    BY <2>3 DEF q, g
<1>3. f[m] = f[m - 1] \o p[m]
  BY <1>1 DEF Joins
<1>4. m \in 0 .. n /\ m - 1 \in 0 .. n
  OBVIOUS
<1>5. QED
  BY <1>2, <1>3, <1>4

-----------------------------------------------------------------------------
(***************************************************************************)
(* The options.                                                            *)
(***************************************************************************)
\* f marks the options among the first m arguments.
Finds(f, m) ==
  \A k \in 1 .. m : f[k] = (argv[k] \in {"-o", "-b"} /\ (k > 1 => ~f[k - 1]))

\* The loop of main finds the options one after the other.
LEMMA OptionsFound ==
  ASSUME NEW S, argv \in Seq(S)
  PROVE  /\ IsOption \in [1 .. Len(argv) -> BOOLEAN]
         /\ Finds(IsOption, Len(argv))
         /\ IsFiniteSet(Options) /\ Cardinality(Options) \in Nat
<1> DEFINE n == Len(argv)
<1>1. n \in Nat /\ DOMAIN argv = 1 .. n
  OBVIOUS
<1> HIDE DEF n
<1> DEFINE T == {m \in 0 .. n : \E f \in [1 .. m -> BOOLEAN] : Finds(f, m)}
<1>2. 0 \in T
  <2> DEFINE f == [k \in 1 .. 0 |-> TRUE]
  <2>1. f \in [1 .. 0 -> BOOLEAN] /\ Finds(f, 0)
    BY DEF Finds
  <2>2. 0 \in 0 .. n
    BY <1>1
  <2> HIDE DEF f
  <2>3. QED
    BY <2>1, <2>2
<1>3. ASSUME NEW m \in 1 .. n, m - 1 \in T
      PROVE  m \in T
  <2>1. PICK f \in [1 .. m - 1 -> BOOLEAN] : Finds(f, m - 1)
    BY <1>3
  <2> DEFINE v == argv[m] \in {"-o", "-b"} /\ (m > 1 => ~f[m - 1])
             g == [k \in 1 .. m |-> IF k = m THEN v ELSE f[k]]
  <2>2. v \in BOOLEAN
    OBVIOUS
  <2>3. ASSUME NEW k \in 1 .. m
        PROVE  g[k] = (argv[k] \in {"-o", "-b"} /\ (k > 1 => ~g[k - 1]))
    <3>1. k > 1 => k - 1 \in 1 .. m /\ k - 1 # m
      BY <1>1
    <3>2. k > 1 => g[k - 1] = f[k - 1]
      BY <3>1
    <3>3. CASE k = m
      BY <3>2, <3>3
    <3>4. CASE k # m
      <4>1. k \in 1 .. m - 1
        BY <3>4, <1>1
      <4>2. f[k] = (argv[k] \in {"-o", "-b"} /\ (k > 1 => ~f[k - 1]))
        BY <2>1, <4>1 DEF Finds
      <4>3. g[k] = f[k]
        BY <3>4
      <4>4. QED
        BY <3>2, <4>2, <4>3
    <3>5. QED
      BY <3>3, <3>4
  <2>4. g \in [1 .. m -> BOOLEAN]
    <3>1. \A k \in 1 .. m : k # m => k \in 1 .. m - 1
      BY <1>1
    <3> HIDE DEF v
    <3>2. QED
      BY <2>2, <3>1
  <2> HIDE DEF g
  <2>5. Finds(g, m)
    BY <2>3 DEF Finds
  <2>6. m \in 0 .. n
    BY <1>1
  <2>7. QED
    BY <2>4, <2>5, <2>6
<1>4. n \in T
  <2> HIDE DEF T
  <2>1. \A k \in 1 .. n : k - 1 \in T => k \in T
    BY <1>3
  <2>2. n \in 0 .. n
    BY <1>1
  <2>3. \A k \in 0 .. n : k \in T
    BY <1>1, <1>2, <2>1, Upwards, Zenon
  <2>4. QED
    BY <2>2, <2>3
<1> DEFINE IsIt(h) == h = [k \in 1 .. n |-> argv[k] \in {"-o", "-b"} /\ (k > 1 => ~h[k - 1])]
           h == CHOOSE h : IsIt(h)
<1>5. PICK f \in [1 .. n -> BOOLEAN] : Finds(f, n)
  BY <1>4
<1>6. IsIt(f)
  BY <1>5 DEF Finds
<1>7. IsOption = h
  BY DEF IsOption, n
<1>8. IsIt(h)
  <2> HIDE DEF IsIt
  <2>1. QED
    BY <1>6
<1> HIDE DEF h
<1>9. IsOption \in [1 .. n -> BOOLEAN] /\ Finds(IsOption, n)
  BY <1>7, <1>8 DEF Finds
<1>10. IsFiniteSet(Options) /\ Cardinality(Options) \in Nat
  <2>1. IsFiniteSet(1 .. n)
    BY <1>1, FS_Interval
  <2>2. Options \subseteq 1 .. n
    BY <1>1 DEF Options
  <2>3. QED
    BY <2>1, <2>2, FS_Subset, FS_CardinalityType
<1>11. QED
  BY <1>9, <1>10 DEF n

\* When the options come first they are every other argument up to the first
\* input.
LEMMA OptionsAlternate ==
  ASSUME NEW S, argv \in Seq(S), OptionsFirst
  PROVE  /\ numToRemove \in 0 .. Len(argv)
         /\ \A k \in DOMAIN argv : IsInput(k) <=> k > numToRemove
<1> DEFINE n == Len(argv)
           Inputs == {k \in 1 .. n : IsInput(k)}
<1>1. n \in Nat /\ DOMAIN argv = 1 .. n
  OBVIOUS
<1>2. IsOption \in [1 .. n -> BOOLEAN] /\ Finds(IsOption, n)
  BY OptionsFound
<1> HIDE DEF n
<1>3. \A k \in Options : k < n /\ \A j \in Inputs : k < j
  BY <1>1 DEF OptionsFirst, n
<1>4. Options = {k \in 1 .. n : IsOption[k]}
  BY <1>1 DEF Options
<1>5. PICK m \in 0 .. n :
        /\ \A k \in 1 .. m : ~IsInput(k)
        /\ m < n => IsInput(m + 1)
  <2>1. CASE Inputs = {}
    <3>1. n \in 0 .. n
      BY <1>1
    <3>2. \A k \in 1 .. n : ~IsInput(k)
      BY <2>1
    <3>3. QED
      BY <1>1, <3>1, <3>2
  <2>2. CASE Inputs # {}
    <3>1. Inputs \in SUBSET Nat
      BY <1>1
    <3>2. PICK j \in Inputs : \A k \in Inputs : j <= k
      <4> HIDE DEF Inputs
      <4>1. QED
        BY <2>2, <3>1, LeastNumber
    <3>3. j - 1 \in 0 .. n /\ j - 1 + 1 = j /\ IsInput(j) /\ j \in 1 .. n
      BY <1>1
    <3>4. ASSUME NEW k \in 1 .. j - 1
          PROVE  ~IsInput(k)
      <4>1. k \in 1 .. n /\ ~(j <= k)
        BY <1>1, <3>3
      <4>2. QED
        BY <3>2, <4>1
    <3>5. QED
      BY <3>3, <3>4
  <2>3. QED
    BY <2>1, <2>2
<1>6. ASSUME NEW k \in 1 .. n, k > m
      PROVE  IsInput(k)
  <2>1. m < n /\ m + 1 \in 1 .. n /\ m + 1 <= k
    BY <1>1, <1>6
  <2>2. m + 1 \in Inputs
    BY <1>5, <2>1
  <2>3. ASSUME NEW l \in 1 .. n, m + 1 <= l
        PROVE  ~IsOption[l]
    BY <1>1, <1>3, <1>4, <2>2, <2>3
  <2>4. CASE k = m + 1
    BY <2>2, <2>4
  <2>5. CASE k # m + 1
    <3>1. k - 1 \in 1 .. n /\ m + 1 <= k - 1
      BY <1>1, <2>1, <2>5
    <3>2. ~IsOption[k] /\ ~IsOption[k - 1]
      BY <2>1, <2>3, <3>1
    <3>3. QED
      BY <3>2 DEF IsInput
  <2>6. QED
    BY <2>4, <2>5
<1> DEFINE T == {k \in 0 .. m : k > 0 => IsOption[k] = (k % 2 = 1)}
<1>7. ASSUME NEW k \in 1 .. m, k - 1 \in T
      PROVE  k \in T
  <2>1. k \in 1 .. n /\ k \in 0 .. m
    BY <1>1
  <2>2. IsOption[k] \in BOOLEAN
    BY <1>2, <2>1
  <2>3. IsOption[k] \/ (k > 1 /\ IsOption[k - 1])
    BY <1>5 DEF IsInput
  <2>4. IsOption[k] => (k > 1 => ~IsOption[k - 1])
    BY <1>2, <2>1 DEF Finds
  <2>5. CASE k = 1
    BY <2>1, <2>2, <2>3, <2>5
  <2>6. CASE k # 1
    <3>1. k > 1 /\ k - 1 > 0
      BY <2>6
    <3>2. IsOption[k - 1] = ((k - 1) % 2 = 1)
      BY <1>7, <3>1
    <3>3. ((k - 1) % 2 = 1) = ~(k % 2 = 1)
      BY <3>1
    <3>4. QED
      BY <2>1, <2>2, <2>3, <2>4, <3>1, <3>2, <3>3
  <2>7. QED
    BY <2>5, <2>6
<1>8. ASSUME NEW k \in 1 .. m
      PROVE  IsOption[k] = (k % 2 = 1)
  <2>1. 0 \in T
    BY <1>1
  <2>2. \A l \in 0 .. m : l \in T
    <3> HIDE DEF T
    <3>1. \A l \in 1 .. m : l - 1 \in T => l \in T
      BY <1>7
    <3>2. m \in Nat
      BY <1>1
    <3>3. QED
      BY <2>1, <3>1, <3>2, Upwards, Zenon
  <2>3. k \in T /\ k > 0
    BY <2>2
  <2>4. QED
    BY <2>3
<1>9. m % 2 = 0
  <2>1. SUFFICES ASSUME m % 2 = 1 PROVE FALSE
    BY <1>1
  <2>2. m \in 1 .. m /\ m \in 1 .. n
    BY <1>1, <2>1
  <2>3. m \in Options
    BY <1>4, <1>8, <2>1, <2>2
  <2>4. m < n
    BY <1>3, <2>3
  <2>5. m + 1 > 1 /\ m + 1 - 1 = m
    BY <2>2
  <2>6. QED
    BY <1>4, <1>5, <2>3, <2>4, <2>5 DEF IsInput
<1>10. PICK c \in Nat : m = 2 * c
  <2>1. m \div 2 \in Nat /\ m = 2 * (m \div 2)
    BY <1>1, <1>9
  <2>2. QED
    BY <2>1
<1>11. Cardinality(Options) = c
  <2> DEFINE f == [k \in 1 .. c |-> 2 * k - 1]
  <2>1. ASSUME NEW k \in 1 .. c
        PROVE  2 * k - 1 \in Options
    <3>1. 2 * k - 1 \in 1 .. m /\ (2 * k - 1) % 2 = 1 /\ 2 * k - 1 \in 1 .. n
      BY <1>1, <1>10
    <3>2. QED
      BY <1>4, <1>8, <3>1
  <2>2. ASSUME NEW o \in Options
        PROVE  \E k \in 1 .. c : 2 * k - 1 = o
    <3>1. o \in 1 .. n /\ IsOption[o]
      BY <1>4
    <3>2. ~(o > m)
      BY <1>6, <3>1 DEF IsInput
    <3>3. o \in 1 .. m
      BY <1>1, <3>1, <3>2
    <3>4. o % 2 = 1
      BY <1>8, <3>1, <3>3
    <3>5. (o + 1) \div 2 \in 1 .. c /\ 2 * ((o + 1) \div 2) - 1 = o
      BY <1>10, <3>3, <3>4
    <3>6. QED
      BY <3>5
  <2>3. f \in Bijection(1 .. c, Options)
    <3>1. f \in [1 .. c -> Options]
      BY <2>1
    <3>2. \A k, l \in 1 .. c : f[k] = f[l] => k = l
      OBVIOUS
    <3>3. \A o \in Options : \E k \in 1 .. c : f[k] = o
      BY <2>2
    <3> HIDE DEF f
    <3>4. QED
      BY <3>1, <3>2, <3>3 DEF Bijection, Injection, Surjection, IsInjective
  <2>4. ExistsBijection(1 .. c, Options)
    <3> HIDE DEF f
    <3>1. QED
      BY <2>3 DEF ExistsBijection
  <2>5. QED
    BY <2>4, FS_CountingElements
<1>12. numToRemove = m
  BY <1>10, <1>11 DEF numToRemove
<1>13. QED
  <2>1. \A k \in 1 .. n : k <= m => k \in 1 .. m
    BY <1>1
  <2>2. \A k \in 1 .. n : IsInput(k) <=> k > m
    BY <1>1, <1>5, <1>6, <2>1
  <2>3. QED
    BY <1>1, <1>12, <2>2 DEF n

\* Then the inputs copycat takes are those that were asked for.
LEMMA InputsAsAsked ==
  ASSUME NEW S, argv \in Seq(S), OptionsFirst
  PROVE  inputFiles = Asked
<1> DEFINE n == Len(argv)
           m == numToRemove
           p == [k \in 1 .. n |-> IF IsInput(k) THEN <<argv[k]>> ELSE <<>>]
           T == {k \in 0 .. n : FlattenSeq([l \in 1 .. k |-> p[l]]) = SubSeq(argv, m + 1, k)}
<1>1. n \in Nat /\ DOMAIN argv = 1 .. n /\ m \in 0 .. n
  BY OptionsAlternate
<1>2. \A k \in 1 .. n : IsInput(k) <=> k > m
  BY <1>1, OptionsAlternate
<1>3. p \in [1 .. n -> Seq(S)]
  <2>1. \A k \in 1 .. n : argv[k] \in S
    OBVIOUS
  <2>2. \A k \in 1 .. n : <<argv[k]>> \in Seq(S) /\ <<>> \in Seq(S)
    BY <2>1
  <2>3. QED
    BY <2>2
<1> HIDE DEF m
<1>4. 0 \in T
  <2>1. [l \in 1 .. 0 |-> p[l]] = <<>>
    OBVIOUS
  <2>2. FlattenSeq(<<>>) = <<>>
    BY DEF FlattenSeq
  <2>3. SubSeq(argv, m + 1, 0) = <<>> /\ 0 \in 0 .. n
    BY <1>1
  <2> HIDE DEF p
  <2>4. QED
    BY <2>1, <2>2, <2>3
<1>5. ASSUME NEW k \in 1 .. n, k - 1 \in T
      PROVE  k \in T
  <2> HIDE DEF p
  <2>1. FlattenSeq([l \in 1 .. k |-> p[l]]) = SubSeq(argv, m + 1, k - 1) \o p[k]
    <3>1. FlattenSeq([l \in 1 .. k |-> p[l]]) = FlattenSeq([l \in 1 .. k - 1 |-> p[l]]) \o p[k]
      BY <1>1, <1>3, FlattenStep
    <3>2. QED
      BY <1>5, <3>1
  <2>2. k \in 0 .. n
    BY <1>1
  <2>3. CASE k > m
    <3>1. p[k] = <<argv[k]>>
      BY <1>2, <2>3 DEF p
    <3>2. m + 1 \in 1 .. Len(argv) /\ k \in m + 1 .. Len(argv)
      BY <1>1, <2>3
    <3>3. SubSeq(argv, m + 1, k) = SubSeq(argv, m + 1, k - 1) \o <<argv[k]>>
      BY <3>2, SubSeqRecursiveSecond
    <3>4. QED
      BY <2>1, <2>2, <3>1, <3>3
  <2>4. CASE ~(k > m)
    <3>1. p[k] = <<>>
      BY <1>2, <2>4 DEF p
    <3>2. SubSeq(argv, m + 1, k - 1) = <<>> /\ SubSeq(argv, m + 1, k) = <<>>
      BY <1>1, <2>4, SubSeqEmpty
    <3>3. <<>> \o <<>> = <<>>
      OBVIOUS
    <3>4. QED
      BY <2>1, <2>2, <3>1, <3>2, <3>3
  <2>5. QED
    BY <2>3, <2>4
<1>6. n \in T
  <2> HIDE DEF T
  <2>1. \A k \in 1 .. n : k - 1 \in T => k \in T
    BY <1>5
  <2>2. n \in 0 .. n
    BY <1>1
  <2>3. \A k \in 0 .. n : k \in T
    BY <1>1, <1>4, <2>1, Upwards, Zenon
  <2>4. QED
    BY <2>2, <2>3
<1>7. FlattenSeq(p) = SubSeq(argv, m + 1, n)
  <2>1. [l \in 1 .. n |-> p[l]] = p
    OBVIOUS
  <2> HIDE DEF p
  <2>2. QED
    BY <1>6, <2>1
<1>8. Asked = IF SubSeq(argv, m + 1, n) = <<>> THEN <<"-">> ELSE SubSeq(argv, m + 1, n)
  <2>1. [k \in DOMAIN argv |-> IF IsInput(k) THEN <<argv[k]>> ELSE <<>>] = p
    BY <1>1
  <2> HIDE DEF p
  <2>2. QED
    BY <1>7, <2>1 DEF Asked
<1>9. SubSeq(argv, m + 1, n) = <<>> <=> n = m
  <2>1. CASE n = m
    BY <1>1, <2>1
  <2>2. CASE n # m
    <3>1. \A k \in m + 1 .. n : argv[k] \in S
      BY <1>1
    <3>2. m + 1 \in Int /\ n \in Int /\ m + 1 <= n
      <4> HIDE DEF n
      <4>1. QED
        BY <1>1, <2>2
    <3>3. Len(SubSeq(argv, m + 1, n)) = n - (m + 1) + 1
      BY <3>1, <3>2, SubSeqProperties
    <3>4. Len(SubSeq(argv, m + 1, n)) # 0
      <4> HIDE DEF n
      <4>1. QED
        BY <3>2, <3>3
    <3>5. Len(<<>>) = 0
      OBVIOUS
    <3>6. QED
      BY <2>2, <3>4, <3>5, Zenon
  <2>3. QED
    BY <2>1, <2>2
<1>10. QED
  BY <1>8, <1>9 DEF inputFiles, m

\* The arguments are names of files.
LEMMA ArgvType ==
  ASSUME argv \in CommandLines
  PROVE  /\ argv \in Seq(Names \ {"stdin", "stdout", None})
         /\ Len(argv) \in Nat /\ DOMAIN argv = 1 .. Len(argv)
         /\ \A k \in 1 .. Len(argv) : argv[k] \in Names \ {"stdin", "stdout", None}
<1>1. argv \in Seq(Names \ {"stdin", "stdout", None})
  BY CopyCatAssumption
<1>2. QED
  BY <1>1

\* So are the inputs, or "-".
LEMMA InputsType ==
  ASSUME argv \in CommandLines
  PROVE  /\ inputFiles \in Seq((Names \ {"stdin", "stdout", None}) \cup {"-"})
         /\ Len(inputFiles) \in Nat /\ DOMAIN inputFiles = 1 .. Len(inputFiles)
         /\ \A k \in 1 .. Len(inputFiles) :
              inputFiles[k] \in (Names \ {"stdin", "stdout", None}) \cup {"-"}
<1> DEFINE S == (Names \ {"stdin", "stdout", None}) \cup {"-"}
           m == numToRemove
<1>1. m \in Nat
  <2>1. Cardinality(Options) \in Nat
    BY ArgvType, OptionsFound
  <2>2. QED
    BY <2>1 DEF numToRemove
<1> HIDE DEF m
<1>2. Len(argv) \in Nat /\ \A k \in m + 1 .. Len(argv) : argv[k] \in S
  BY <1>1, ArgvType
<1> HIDE DEF S
<1>3. SubSeq(argv, m + 1, Len(argv)) \in Seq(S)
  <2>1. m + 1 \in Int /\ Len(argv) \in Int
    BY <1>1, <1>2
  <2>2. QED
    BY <1>2, <2>1, SubSeqProperties
<1>4. <<"-">> \in Seq(S)
  <2>1. "-" \in S
    BY DEF S
  <2>2. QED
    BY <2>1
<1>5. inputFiles \in Seq(S)
  BY <1>3, <1>4 DEF inputFiles, m
<1>6. QED
  BY <1>5 DEF S

\* The output is a file, or there is no argument for it.
LEMMA OutfileType ==
  ASSUME argv \in CommandLines
  PROVE  /\ outfile \in (Names \ {"stdin", "stdout", None}) \cup {None}
         /\ bufferSize \in Int
<1>1. ASSUME NEW option, NEW default
      PROVE  Given(option, default) \in (Names \ {"stdin", "stdout", None}) \cup {None, default}
  <2> DEFINE at == {k \in Options : argv[k] = option}
             n == Len(argv)
  <2>1. at \subseteq 1 .. n /\ n \in Nat
    BY ArgvType DEF Options
  <2> HIDE DEF n
  <2>2. CASE at = {}
    BY <2>2 DEF Given
  <2>3. CASE at # {}
    <3> DEFINE back == {n - k : k \in at}
    <3>1. back \in SUBSET Nat /\ back # {}
      BY <2>1, <2>3
    <3>2. PICK b \in back : \A c \in back : b <= c
      <4> HIDE DEF back
      <4>1. QED
        BY <3>1, LeastNumber
    <3>3. PICK k \in at : b = n - k
      BY <3>2
    <3>4. ASSUME NEW j \in at
          PROVE  j <= k
      <4>1. n - k <= n - j
        BY <3>2, <3>3
      <4>2. j \in Int /\ k \in Int
        BY <2>1
      <4>3. QED
        BY <2>1, <4>1, <4>2
    <3> DEFINE k0 == CHOOSE a \in at : \A b0 \in at : b0 <= a
    <3>5. k0 \in at
      <4> HIDE DEF at
      <4>1. QED
        BY <3>3, <3>4
    <3>6. Given(option, default) = IF k0 = n THEN None ELSE argv[k0 + 1]
      BY <2>3 DEF Given, n
    <3> HIDE DEF k0
    <3>7. k0 # n => k0 + 1 \in 1 .. n
      BY <2>1, <3>5
    <3>8. QED
      BY <3>6, <3>7, ArgvType DEF n
  <2>4. QED
    BY <2>2, <2>3
<1>2. outfile \in (Names \ {"stdin", "stdout", None}) \cup {None}
  BY <1>1 DEF outfile
<1>3. bufferSize \in Int
  BY CopyCatAssumption DEF bufferSize
<1>4. QED
  BY <1>2, <1>3

\* What is computed from the arguments stays as it is.
LEMMA SameArguments ==
  ASSUME argv' = argv
  PROVE  /\ inputFiles' = inputFiles /\ outfile' = outfile /\ bufferSize' = bufferSize
         /\ Asked' = Asked /\ AskedContent' = AskedContent
         /\ OptionsFirst' = OptionsFirst
         /\ \A k : Upto(k)' = Upto(k)
         /\ \A k : Stream(k)' = Stream(k)
<1>1. IsOption' = IsOption
  BY DEF IsOption
<1>2. Options' = Options
  BY <1>1 DEF Options
<1>3. inputFiles' = inputFiles /\ outfile' = outfile /\ bufferSize' = bufferSize
  BY <1>1, <1>2 DEF inputFiles, outfile, bufferSize, numToRemove, Given
<1>4. Asked' = Asked
  BY <1>1, <1>2 DEF Asked, IsInput
<1>5. \A k : ContentOf(k)' = ContentOf(k)
  BY <1>4 DEF ContentOf
<1>6. AskedContent' = AskedContent /\ \A k : Upto(k)' = Upto(k)
  BY <1>4, <1>5 DEF AskedContent, Upto
<1>7. OptionsFirst' = OptionsFirst
  BY <1>1, <1>2 DEF OptionsFirst, IsInput
<1>8. QED
  BY <1>3, <1>4, <1>6, <1>7 DEF Stream

-----------------------------------------------------------------------------
(***************************************************************************)
(* What was asked for.                                                     *)
(***************************************************************************)
\* The inputs that were asked for have contents, which are joined.
LEMMA AskedTypes ==
  ASSUME argv \in CommandLines, OptionsFirst
  PROVE  /\ Asked = inputFiles
         /\ Len(Asked) \in Nat /\ DOMAIN Asked = 1 .. Len(Asked)
         /\ \A k \in 1 .. Len(Asked) :
              /\ Asked[k] \in (Names \ {"stdin", "stdout", None}) \cup {"-"}
              /\ Stream(k) \in Names \ {"stdout"}
              /\ ContentOf(k) \in Seq(Bytes)
<1>1. Asked = inputFiles
  BY ArgvType, InputsAsAsked
<1>2. \A k \in 1 .. Len(Asked) : Asked[k] \in (Names \ {"stdin", "stdout", None}) \cup {"-"}
  BY <1>1, InputsType
<1>3. \A k \in 1 .. Len(Asked) : ContentOf(k) \in Seq(Bytes)
  BY <1>2, CopyCatAssumption DEF ContentOf
<1>4. \A k \in 1 .. Len(Asked) : Stream(k) \in Names \ {"stdout"}
  BY <1>2, CopyCatAssumption DEF Stream
<1>5. QED
  BY <1>1, <1>2, <1>3, <1>4, InputsType

\* The first k inputs are the first k - 1 and one more.
LEMMA UptoStep ==
  ASSUME argv \in CommandLines, OptionsFirst
  PROVE  /\ Upto(0) = <<>>
         /\ AskedContent = Upto(Len(Asked))
         /\ \A k \in 1 .. Len(Asked) : Upto(k) = Upto(k - 1) \o ContentOf(k)
         /\ \A k \in 0 .. Len(Asked) : Upto(k) \in Seq(Bytes)
<1> DEFINE n == Len(Asked)
           p == [k \in 1 .. n |-> ContentOf(k)]
<1>1. n \in Nat /\ DOMAIN Asked = 1 .. n /\ p \in [1 .. n -> Seq(Bytes)]
  BY AskedTypes
<1>2. AskedContent = Upto(n)
  BY <1>1 DEF AskedContent, Upto
<1> HIDE DEF n
<1>3. ASSUME NEW k \in 0 .. n
      PROVE  Upto(k) = FlattenSeq([l \in 1 .. k |-> p[l]])
  <2>1. \A l \in 1 .. k : l \in 1 .. n
    BY <1>1
  <2>2. [l \in 1 .. k |-> p[l]] = [l \in 1 .. k |-> ContentOf(l)]
    BY <2>1
  <2>3. QED
    BY <2>2 DEF Upto
<1>4. Upto(0) = <<>>
  <2>1. [l \in 1 .. 0 |-> ContentOf(l)] = <<>>
    OBVIOUS
  <2>2. FlattenSeq(<<>>) = <<>>
    BY DEF FlattenSeq
  <2>3. QED
    BY <2>1, <2>2 DEF Upto
<1>5. ASSUME NEW k \in 1 .. n
      PROVE  Upto(k) = Upto(k - 1) \o ContentOf(k) /\ Upto(k) \in Seq(Bytes)
  <2>1. k \in 0 .. n /\ k - 1 \in 0 .. n /\ p[k] = ContentOf(k)
    BY <1>1
  <2> HIDE DEF p
  <2>2. /\ FlattenSeq([l \in 1 .. k |-> p[l]]) = FlattenSeq([l \in 1 .. k - 1 |-> p[l]]) \o p[k]
        /\ FlattenSeq([l \in 1 .. k |-> p[l]]) \in Seq(Bytes)
    BY <1>1, FlattenStep
  <2>3. QED
    BY <1>3, <2>1, <2>2
<1>6. \A k \in 0 .. n : Upto(k) \in Seq(Bytes)
  <2>1. <<>> \in Seq(Bytes) /\ \A k \in 0 .. n : k # 0 => k \in 1 .. n
    BY <1>1
  <2>2. QED
    BY <1>4, <1>5, <2>1
<1>7. QED
  BY <1>2, <1>4, <1>5, <1>6 DEF n

\* A sequence starts with the first part of what it is made of.
LEMMA StartsConcat ==
  ASSUME NEW S, NEW s \in Seq(S), NEW t \in Seq(S)
  PROVE  Starts(s, s \o t)
<1>1. /\ s \o t \in Seq(S) /\ Len(s \o t) = Len(s) + Len(t)
      /\ \A k \in 1 .. Len(s) + Len(t) : (s \o t)[k] = IF k <= Len(s) THEN s[k] ELSE t[k - Len(s)]
  BY ConcatProperties
<1>2. Len(s) \in Nat /\ Len(t) \in Nat
  OBVIOUS
<1>3. \A k \in 1 .. Len(s) : s[k] \in S /\ k \in 1 .. Len(s) + Len(t) /\ k <= Len(s)
  BY <1>2
<1>4. \A k \in 1 .. Len(s) : (s \o t)[k] = s[k]
  BY <1>1, <1>3
<1> DEFINE u == SubSeq(s \o t, 1, Len(s))
<1>5. u \in Seq(S) /\ Len(u) = Len(s) /\ \A k \in 1 .. Len(s) : u[k] = s[k]
  <2>1. \A k \in 1 .. Len(s) : (s \o t)[k] \in S
    BY <1>3, <1>4
  <2>2. /\ u \in Seq(S) /\ Len(u) = IF 1 <= Len(s) THEN Len(s) - 1 + 1 ELSE 0
        /\ \A k \in 1 .. Len(s) - 1 + 1 : u[k] = (s \o t)[1 + k - 1]
    BY <1>2, <2>1, SubSeqProperties
  <2>3. QED
    BY <1>2, <1>4, <2>2
<1> HIDE DEF u
<1>6. u = s
  BY <1>5, SeqEqual
<1>7. QED
  BY <1>1, <1>2, <1>6 DEF Starts, u

\* Concatenation is associative.
LEMMA Associative == \A s, t, u \in Seq(Bytes) : (s \o t) \o u = s \o (t \o u)
  BY ConcatAssociative

\* The first part of the first inputs is one of all.
LEMMA PartsStart ==
  ASSUME argv \in CommandLines, OptionsFirst, NEW k \in 0 .. Len(Asked),
         NEW s \in Seq(Bytes), NEW t \in Seq(Bytes), s \o t = Upto(k)
  PROVE  Starts(s, AskedContent)
<1> DEFINE n == Len(Asked)
           T == {l \in 0 .. n : \E r \in Seq(Bytes) : AskedContent = Upto(n - l) \o r}
<1>1. n \in Nat
  BY AskedTypes
<1>2. /\ AskedContent = Upto(n)
      /\ \A l \in 0 .. n : Upto(l) \in Seq(Bytes)
      /\ \A l \in 1 .. n : Upto(l) = Upto(l - 1) \o ContentOf(l)
  BY UptoStep
<1>3. \A l \in 1 .. n : ContentOf(l) \in Seq(Bytes)
  BY AskedTypes
<1>4. k \in 0 .. n
  OBVIOUS
<1> HIDE DEF n
<1>5. 0 \in T
  <2>1. Upto(n) \in Seq(Bytes) /\ n - 0 = n /\ 0 \in 0 .. n
    BY <1>1, <1>2
  <2>2. AskedContent = Upto(n) \o <<>> /\ <<>> \in Seq(Bytes)
    BY <1>2, <2>1, ConcatEmptySeq
  <2>3. QED
    BY <2>1, <2>2
<1>6. ASSUME NEW l \in 1 .. n, l - 1 \in T
      PROVE  l \in T
  <2>1. PICK r \in Seq(Bytes) : AskedContent = Upto(n - (l - 1)) \o r
    BY <1>6
  <2>2. PICK m \in 1 .. n : m = n - (l - 1) /\ m - 1 = n - l /\ m - 1 \in 0 .. n /\ l \in 0 .. n
    BY <1>1
  <2>3. /\ Upto(m) = Upto(m - 1) \o ContentOf(m)
        /\ Upto(m - 1) \in Seq(Bytes) /\ ContentOf(m) \in Seq(Bytes)
    BY <1>2, <1>3, <2>2
  <2>4. AskedContent = Upto(m - 1) \o (ContentOf(m) \o r)
    <3>1. (Upto(m - 1) \o ContentOf(m)) \o r = Upto(m - 1) \o (ContentOf(m) \o r)
      BY <2>3, Associative, Zenon
    <3>2. AskedContent = Upto(m) \o r
      BY <2>1, <2>2
    <3>3. QED
      BY <2>3, <3>1, <3>2
  <2>5. ContentOf(m) \o r \in Seq(Bytes)
    BY <2>3, ConcatProperties
  <2>6. QED
    BY <2>2, <2>4, <2>5
<1>7. \A l \in 0 .. n : l \in T
  <2> HIDE DEF T
  <2>1. \A l \in 1 .. n : l - 1 \in T => l \in T
    BY <1>6
  <2>2. QED
    BY <1>1, <1>5, <2>1, Upwards, Zenon
<1>8. n - k \in 0 .. n /\ n - (n - k) = k
  BY <1>1, <1>4
<1>9. PICK r \in Seq(Bytes) : AskedContent = Upto(k) \o r
  BY <1>7, <1>8
<1>10. AskedContent = s \o (t \o r) /\ t \o r \in Seq(Bytes)
  <2>1. (s \o t) \o r = s \o (t \o r)
    BY Associative, Zenon
  <2>2. t \o r \in Seq(Bytes)
    BY <1>9, ConcatProperties
  <2>3. QED
    BY <1>9, <2>1, <2>2
<1>11. QED
  BY <1>10, StartsConcat

\* What is left of an input is a sequence.
LEMMA RestType ==
  ASSUME NEW S, NEW c \in Seq(S), NEW a \in Nat
  PROVE  /\ SubSeq(c, a + 1, Len(c)) \in Seq(S)
         /\ Len(SubSeq(c, a + 1, Len(c))) \in Nat
<1>1. a + 1 \in Int /\ Len(c) \in Int /\ \A k \in a + 1 .. Len(c) : c[k] \in S
  OBVIOUS
<1>2. SubSeq(c, a + 1, Len(c)) \in Seq(S)
  BY <1>1, SubSeqProperties
<1>3. QED
  BY <1>2

\* A read takes the first n bytes of what is left.
LEMMA RestSplits ==
  ASSUME NEW S, NEW c \in Seq(S), NEW a \in Nat,
         NEW n \in 1 .. Len(SubSeq(c, a + 1, Len(c)))
  PROVE  /\ SubSeq(SubSeq(c, a + 1, Len(c)), 1, n) \o SubSeq(c, a + n + 1, Len(c))
              = SubSeq(c, a + 1, Len(c))
         /\ a + n <= Len(c)
<1> DEFINE L == Len(c)
<1>1. L \in Nat /\ \A k \in a + 1 .. L : c[k] \in S
  OBVIOUS
<1>2. Len(SubSeq(c, a + 1, L)) = IF a + 1 <= L THEN L - (a + 1) + 1 ELSE 0
  <2>1. a + 1 \in Int /\ L \in Int
    BY <1>1
  <2> HIDE DEF L
  <2>2. QED
    BY <1>1, <2>1, SubSeqProperties
<1>3. n \in 1 .. Len(SubSeq(c, a + 1, L))
  OBVIOUS
<1> HIDE DEF L
<1>4. a + 1 <= L /\ n \in 1 .. L - a
  BY <1>1, <1>2, <1>3
<1>5. SubSeq(SubSeq(c, a + 1, L), 1, n) = SubSeq(c, a + 1, a + n)
  <2>1. /\ a + 1 \in 1 .. L /\ L \in 1 .. L
        /\ 1 \in 1 .. L - (a + 1) + 1 /\ n \in 1 .. L - (a + 1) + 1
        /\ a + 1 + 1 - 1 = a + 1 /\ a + 1 + n - 1 = a + n
    BY <1>1, <1>4
  <2>2. SubSeq(SubSeq(c, a + 1, L), 1, n) = SubSeq(c, a + 1 + 1 - 1, a + 1 + n - 1)
    BY <2>1, SubSeqOfSubSeq DEF L
  <2>3. QED
    BY <2>1, <2>2
<1>6. SubSeq(c, a + 1, a + n) \o SubSeq(c, a + n + 1, L) = SubSeq(c, a + 1, L)
  <2>1. a + 1 \in 1 .. L + 1 /\ a + n \in a + 1 - 1 .. L /\ L \in a + n .. L
    BY <1>1, <1>4
  <2>2. QED
    BY <2>1, ConcatAdjacentSubSeq DEF L
<1>7. QED
  BY <1>1, <1>4, <1>5, <1>6 DEF L

\* A write takes the first n bytes of the buffer.
LEMMA BufferSplits ==
  ASSUME NEW S, NEW c \in Seq(S), NEW n \in 0 .. Len(c)
  PROVE  /\ SubSeq(c, 1, n) \o SubSeq(c, n + 1, Len(c)) = c
         /\ SubSeq(c, 1, n) \in Seq(S) /\ SubSeq(c, n + 1, Len(c)) \in Seq(S)
         /\ n = Len(c) => SubSeq(c, 1, n) = c
<1>1. Len(c) \in Nat /\ \A k \in 1 .. Len(c) : c[k] \in S
  OBVIOUS
<1>2. SubSeq(c, 1, n) \o SubSeq(c, n + 1, Len(c)) = SubSeq(c, 1, Len(c))
  <2>1. 1 \in 1 .. Len(c) + 1 /\ n \in 1 - 1 .. Len(c) /\ Len(c) \in n .. Len(c)
    BY <1>1
  <2>2. QED
    BY <2>1, ConcatAdjacentSubSeq
<1>3. SubSeq(c, 1, Len(c)) = c
  BY SubSeqFull
<1>4. SubSeq(c, 1, n) \in Seq(S)
  <2>1. 1 \in Int /\ n \in Int /\ \A k \in 1 .. n : c[k] \in S
    BY <1>1
  <2>2. QED
    BY <2>1, SubSeqProperties
<1>5. SubSeq(c, n + 1, Len(c)) \in Seq(S)
  <2>1. n + 1 \in Int /\ Len(c) \in Int /\ \A k \in n + 1 .. Len(c) : c[k] \in S
    BY <1>1
  <2>2. QED
    BY <2>1, SubSeqProperties
<1>6. QED
  BY <1>2, <1>3, <1>4, <1>5

-----------------------------------------------------------------------------
(***************************************************************************)
(* Types.                                                                  *)
(***************************************************************************)
\* The first state is well typed, and nothing was copied.
LEMMA CatInit == Init => CatInv
<1> SUFFICES ASSUME Init
             PROVE  CatInv
  OBVIOUS
<1>1. "stdin" \in Names /\ \A f \in Names : Contents[f] \in Seq(Bytes)
  BY CopyCatAssumption
<1>2. \A f \in Streams : content[f] = IF f = "stdout" THEN <<>> ELSE Contents[f]
  BY DEF Init, Streams
<1>3. content \in [Streams -> Seq(Bytes)]
  <2>1. \A f \in Streams : content[f] \in Seq(Bytes)
    <3>1. <<>> \in Seq(Bytes)
      OBVIOUS
    <3>2. QED
      BY <1>1, <1>2, <3>1, Zenon DEF Streams
  <2>2. content = [f \in Streams |-> content[f]]
    BY DEF Init, Streams
  <2>3. QED
    BY <2>1, <2>2
<1>4. CatTypeOK
  BY <1>3 DEF CatTypeOK, Init, Streams
<1>5. AtStart
  BY <1>1, <1>2 DEF AtStart, Init, Streams
<1>6. ~AsksWell
  BY DEF AsksWell, Init
<1>7. QED
  BY <1>4, <1>5, <1>6 DEF CatInv

\* Steps keep the types.
LEMMA TypesKept ==
  ASSUME CatTypeOK, [Next]_vars
  PROVE  CatTypeOK'
<1> USE DEF CatTypeOK
<1>1. argv' = argv
  BY DEF Next, Start, OpenInput, Read, Write, Close, vars
<1>2. inputFiles' = inputFiles
  BY <1>1, SameArguments
<1>3. outfile \in (Names \ {"stdin", "stdout", None}) \cup {None}
  BY OutfileType
<1>4. \A k \in 1 .. Len(inputFiles) :
        inputFiles[k] \in (Names \ {"stdin", "stdout", None}) \cup {"-"}
  BY InputsType
<1>5. Len(inputFiles) \in Nat
  BY InputsType
<1>6. CASE Start
  <2>1. CASE pc' = "crashed"
    BY <1>1, <1>6, <2>1 DEF Start, Ends
  <2>2. CASE pc' # "crashed"
    <3>1. pc' = "open" /\ UNCHANGED <<i, infd, inpos, buf>>
      BY <1>6, <2>2 DEF Start, Ends
    <3>2. CASE outfile = None
      <4>1. outfd' \in {"stdout", outfd} /\ content' = content
        BY <1>6, <2>2, <3>2 DEF Start, Ends
      <4>2. QED
        BY <1>1, <3>1, <4>1 DEF Streams
    <3>3. CASE outfile # None
      <4>1. \/ outfd' = outfile /\ content' = [content EXCEPT ![outfile] = <<>>]
            \/ UNCHANGED <<outfd, content>>
        BY <1>6, <2>2, <3>3 DEF Start, Ends
      <4>2. outfile \in Streams \ {"stdin"}
        BY <1>3, <3>3 DEF Streams
      <4>3. <<>> \in Seq(Bytes)
        OBVIOUS
      <4>4. QED
        BY <1>1, <3>1, <4>1, <4>2, <4>3
    <3>4. QED
      BY <3>2, <3>3
  <2>3. QED
    BY <2>1, <2>2
<1>7. CASE OpenInput
  <2>1. i \in 1 .. Len(inputFiles)
    BY <1>5, <1>7 DEF OpenInput
  <2>2. CASE pc' = "error"
    BY <1>1, <1>7, <2>2 DEF OpenInput, Ends
  <2>3. CASE pc' # "error"
    <3>1. /\ infd' = IF inputFiles[i] = "-" THEN "stdin" ELSE inputFiles[i]
          /\ inpos' = IF inputFiles[i] = "-" THEN inpos ELSE [inpos EXCEPT ![inputFiles[i]] = 0]
          /\ pc' = "read" /\ UNCHANGED <<content, outfd, i, buf>>
      BY <1>7, <2>3 DEF OpenInput, Ends
    <3>2. infd' \in Names \ {"stdout"}
      BY <1>4, <2>1, <3>1, CopyCatAssumption
    <3>3. inpos' \in [Streams -> Nat]
      BY <1>4, <2>1, <3>1 DEF Streams
    <3>4. i' <= Len(inputFiles')
      BY <1>2, <1>5, <2>1, <3>1
    <3>5. QED
      BY <1>1, <3>1, <3>2, <3>3, <3>4
  <2>4. QED
    BY <2>2, <2>3
<1>8. CASE Read
  <2>1. infd \in Streams /\ content[infd] \in Seq(Bytes) /\ inpos[infd] \in Nat
    BY <1>8 DEF Read, Streams
  <2>2. Len(Rest) \in Nat /\ Rest \in Seq(Bytes)
    BY <2>1, RestType DEF Rest
  <2>3. CASE pc' = "write"
    <3>1. PICK n \in 1 .. Len(Rest) :
            /\ buf' = SubSeq(Rest, 1, n) /\ inpos' = [inpos EXCEPT ![infd] = @ + n]
            /\ UNCHANGED <<content, outfd, i, infd>>
      BY <1>8, <2>3 DEF Read, Ends, Rest
    <3>2. n \in 0 .. Len(Rest)
      BY <2>2
    <3>3. buf' \in Seq(Bytes)
      BY <2>2, <3>1, <3>2, BufferSplits
    <3>4. inpos[infd] + n \in Nat
      BY <2>1, <3>1
    <3>5. inpos' \in [Streams -> Nat]
      BY <2>1, <3>1, <3>4
    <3>6. pc = "read"
      BY <1>8 DEF Read
    <3>7. QED
      BY <1>1, <1>2, <2>3, <3>1, <3>3, <3>5, <3>6
  <2>4. CASE pc' # "write"
    BY <1>1, <1>8, <2>4 DEF Read, Ends
  <2>5. QED
    BY <2>3, <2>4
<1>9. CASE Write
  <2>1. PICK n \in 0 .. Len(buf) :
          /\ n > 0 => outfd # None
          /\ content' = IF n = 0 THEN content ELSE [content EXCEPT ![outfd] = @ \o SubSeq(buf, 1, n)]
    BY <1>9 DEF Write
  <2>2. SubSeq(buf, 1, n) \in Seq(Bytes)
    BY BufferSplits
  <2>3. content' \in [Streams -> Seq(Bytes)]
    <3>1. CASE n = 0
      BY <2>1, <3>1
    <3>2. CASE n # 0
      <4>1. outfd \in Streams /\ content[outfd] \in Seq(Bytes)
        BY <2>1, <3>2
      <4>2. content[outfd] \o SubSeq(buf, 1, n) \in Seq(Bytes)
        BY <2>2, <4>1, ConcatProperties
      <4>3. QED
        BY <2>1, <3>2, <4>1, <4>2
    <3>3. QED
      BY <3>1, <3>2
  <2>4. /\ buf' = <<>> /\ UNCHANGED <<outfd, i, infd, inpos>>
        /\ pc = "write" /\ pc' \in {"read", "error"}
    BY <1>9 DEF Write
  <2>5. QED
    BY <1>1, <1>2, <2>3, <2>4
<1>10. CASE Close \/ UNCHANGED vars
  BY <1>1, <1>2, <1>10 DEF Close, Ends, vars
<1>11. QED
  BY <1>6, <1>7, <1>8, <1>9, <1>10 DEF Next

\* No step leads back to the start.
LEMMA StartKept ==
  ASSUME AtStart, [Next]_vars
  PROVE  AtStart'
<1>1. CASE UNCHANGED vars
  BY <1>1 DEF AtStart, vars
<1>2. CASE Next
  BY <1>2 DEF AtStart, Next, Start, OpenInput, Read, Write, Close, Ends
<1>3. QED
  BY <1>1, <1>2

-----------------------------------------------------------------------------
(***************************************************************************)
(* The copy.                                                               *)
(***************************************************************************)
\* What is known of a run that copies what was asked for.
LEMMA CopyFacts ==
  ASSUME CatInv, AsksWell
  PROVE  /\ argv \in CommandLines /\ OptionsFirst /\ CopySoFar
         /\ outfd \in Streams \ {"stdin"} /\ content[outfd] \in Seq(Bytes)
         /\ content["stdin"] = Contents["stdin"]
         /\ Len(Contents["stdin"]) \in Nat /\ inpos["stdin"] \in Nat
         /\ i \in 1 .. Len(Asked) + 1
         /\ \A k \in 1 .. Len(Asked) :
              /\ Stream(k) # outfd
              /\ content[Stream(k)] = Contents[Stream(k)]
              /\ content[Stream(k)] \in Seq(Bytes)
              /\ Asked[k] # "stdin"
<1>1. /\ argv \in CommandLines /\ OptionsFirst /\ CopySoFar
      /\ outfd \in Streams \ {"stdin"}
  BY DEF CatInv, AsksWell, CatTypeOK
<1>2. content \in [Streams -> Seq(Bytes)] /\ inpos \in [Streams -> Nat] /\ i \in Nat \ {0}
  BY DEF CatInv, CatTypeOK
<1>3. "stdin" \in Streams /\ "stdin" \in Names \ {"stdout"} /\ Contents["stdin"] \in Seq(Bytes)
  BY CopyCatAssumption DEF Streams
<1>4. content["stdin"] = Contents["stdin"] /\ i <= Len(Asked) + 1
  BY <1>1, <1>3 DEF CopySoFar, InputsStay, Places
<1>5. Len(Asked) \in Nat
  BY <1>1, AskedTypes
<1>6. i \in 1 .. Len(Asked) + 1
  BY <1>2, <1>4, <1>5
<1>7. ASSUME NEW k \in 1 .. Len(Asked)
      PROVE  /\ Stream(k) # outfd
             /\ content[Stream(k)] = Contents[Stream(k)]
             /\ content[Stream(k)] \in Seq(Bytes)
             /\ Asked[k] # "stdin"
  <2>1. /\ Asked[k] \in (Names \ {"stdin", "stdout", None}) \cup {"-"}
        /\ Stream(k) \in Names \ {"stdout"} /\ k \in DOMAIN Asked
    BY <1>1, AskedTypes
  <2>2. Stream(k) # outfd
    BY <1>1, <2>1 DEF Stream, AsksWell
  <2>3. content[Stream(k)] = Contents[Stream(k)]
    BY <1>1, <2>1, <2>2 DEF CopySoFar, InputsStay
  <2>4. QED
    BY <1>2, <2>1, <2>2, <2>3 DEF Streams
<1>8. QED
  BY <1>1, <1>2, <1>3, <1>4, <1>6, <1>7

\* The output is opened and empty.
LEMMA StartCopies ==
  ASSUME CatInv, Start, AsksWell'
  PROVE  CopySoFar'
<1>1. argv' = argv /\ argv \in CommandLines /\ OptionsFirst
  <2>1. argv' = argv /\ argv \in CommandLines
    BY DEF Start, CatInv, CatTypeOK
  <2>2. QED
    BY <2>1, SameArguments DEF AsksWell
<1>2. /\ outfd = None /\ i = 1 /\ inpos["stdin"] = 0 /\ content["stdout"] = <<>>
      /\ \A f \in Names \ {"stdout"} : content[f] = Contents[f]
      /\ content \in [Streams -> Seq(Bytes)]
  BY DEF Start, CatInv, AtStart, CatTypeOK
<1>3. /\ outfd' = IF outfile = None THEN "stdout" ELSE outfile
      /\ content' = IF outfile = None THEN content ELSE [content EXCEPT ![outfile] = <<>>]
      /\ pc' = "open" /\ UNCHANGED <<i, infd, inpos, buf>>
  BY <1>2 DEF Start, Ends, AsksWell
<1>4. outfile \in (Names \ {"stdin", "stdout", None}) \cup {None}
  BY <1>1, OutfileType
<1>5. content'[outfd'] = <<>>
  BY <1>2, <1>3, <1>4 DEF Streams
<1>6. InputsStay'
  <2>1. \A f \in Names \ {"stdout"} : f # outfd' => content'[f] = Contents[f]
    BY <1>2, <1>3, <1>4 DEF Streams
  <2>2. QED
    BY <2>1 DEF InputsStay
<1>7. Len(Asked) \in Nat /\ Len(Contents["stdin"]) \in Nat
  BY <1>1, AskedTypes, CopyCatAssumption
<1>8. Asked' = Asked /\ bufferSize' = bufferSize /\ Upto(i - 1)' = Upto(i' - 1)
  BY <1>1, SameArguments
<1>9. Places'
  BY <1>2, <1>3, <1>7, <1>8 DEF Places
<1>10. Copied'
  <2>1. Upto(i' - 1) = <<>>
    <3>1. i' - 1 = 0
      BY <1>2, <1>3
    <3>2. QED
      BY <1>1, <3>1, UptoStep
  <2>2. StdinAfter(i - 1)'
    <3>1. i' - 1 = 0 /\ inpos'["stdin"] = 0
      BY <1>2, <1>3
    <3>2. ~ \E j \in 1 .. i' - 1 : Asked'[j] = "-"
      BY <3>1
    <3>3. QED
      BY <3>1, <3>2 DEF StdinAfter
  <2>3. QED
    BY <1>3, <1>5, <1>8, <2>1, <2>2 DEF Copied
<1>11. QED
  BY <1>3, <1>5, <1>6, <1>9, <1>10 DEF CopySoFar

\* A step after the start copies what was asked for if the state before did.
LEMMA StillAsks ==
  ASSUME CatInv, [Next]_vars, pc # "start", AsksWell'
  PROVE  /\ AsksWell
         /\ outfd' = outfd /\ argv' = argv
         /\ inputFiles' = inputFiles /\ bufferSize' = bufferSize /\ Asked' = Asked
         /\ AskedContent' = AskedContent
         /\ \A k : Upto(k)' = Upto(k) /\ Stream(k)' = Stream(k)
<1>1. argv' = argv /\ outfd' = outfd
  BY DEF Next, Start, OpenInput, Read, Write, Close, Ends, vars
<1>2. /\ inputFiles' = inputFiles /\ bufferSize' = bufferSize /\ Asked' = Asked
      /\ AskedContent' = AskedContent /\ OptionsFirst' = OptionsFirst
      /\ \A k : Upto(k)' = Upto(k) /\ Stream(k)' = Stream(k)
  BY <1>1, SameArguments
<1>3. AsksWell
  BY <1>1, <1>2 DEF AsksWell
<1>4. QED
  BY <1>1, <1>2, <1>3

\* An input is opened at its start, unless it is the standard input.
LEMMA OpenCopies ==
  ASSUME CatInv, OpenInput, AsksWell'
  PROVE  CopySoFar'
<1>1. pc = "open" /\ [Next]_vars
  BY DEF OpenInput, Next
<1>2. AsksWell
  BY <1>1, StillAsks
<1>3. /\ outfd' = outfd /\ bufferSize' = bufferSize /\ Asked' = Asked
      /\ AskedContent' = AskedContent
      /\ \A k : Upto(k)' = Upto(k) /\ Stream(k)' = Stream(k)
  BY <1>1, StillAsks
<1>4. /\ argv \in CommandLines /\ OptionsFirst /\ CopySoFar
      /\ content[outfd] \in Seq(Bytes)
      /\ content["stdin"] = Contents["stdin"]
      /\ Len(Contents["stdin"]) \in Nat /\ inpos["stdin"] \in Nat
  BY <1>2, CopyFacts
<1>5. Asked = inputFiles /\ Len(Asked) \in Nat
  BY <1>4, AskedTypes
<1>6. i \in 1 .. Len(Asked)
  <2>1. i \in 1 .. Len(Asked) + 1
    BY <1>2, CopyFacts
  <2>2. i <= Len(Asked)
    BY <1>5 DEF OpenInput
  <2>3. QED
    BY <1>5, <2>1, <2>2
<1>7. content' = content /\ i' = i
  BY DEF OpenInput, Ends
<1>8. InputsStay'
  BY <1>3, <1>4, <1>7 DEF CopySoFar, InputsStay
<1>9. /\ Stream(i) # outfd /\ content[Stream(i)] = Contents[Stream(i)]
      /\ content[Stream(i)] \in Seq(Bytes) /\ Asked[i] # "stdin"
      /\ Stream(i) \in Names \ {"stdout"}
  BY <1>2, <1>4, <1>6, CopyFacts, AskedTypes
<1>10. CASE pc' = "error"
  <2>1. inpos' = inpos
    BY <1>10 DEF OpenInput, Ends
  <2>2. Places'
    BY <1>3, <1>4, <1>7, <1>10, <2>1 DEF CopySoFar, Places
  <2>3. bufferSize # 0 => Copied'
    <3>1. SUFFICES ASSUME bufferSize # 0 PROVE Copied'
      OBVIOUS
    <3>2. content[outfd] = Upto(i - 1)
      BY <1>1, <1>4, <3>1 DEF CopySoFar, Copied
    <3>3. i - 1 \in 0 .. Len(Asked) /\ content[outfd] \o <<>> = Upto(i - 1) /\ <<>> \in Seq(Bytes)
      BY <1>4, <1>5, <1>6, <3>2, ConcatEmptySeq
    <3>4. Starts(content[outfd], AskedContent)
      BY <1>4, <3>3, PartsStart
    <3>5. Starts(content[outfd], AskedContent)'
      BY <1>3, <1>7, <3>4 DEF Starts
    <3>6. QED
      BY <1>10, <3>5 DEF Copied
  <2>4. QED
    BY <1>3, <1>4, <1>7, <1>8, <1>10, <2>2, <2>3 DEF CopySoFar
<1>11. CASE pc' # "error"
  <2>1. /\ infd' = Stream(i)
        /\ inpos' = IF Asked[i] = "-" THEN inpos ELSE [inpos EXCEPT ![Asked[i]] = 0]
        /\ pc' = "read"
    BY <1>5, <1>11 DEF OpenInput, Ends, Stream
  <2>2. inpos \in [Streams -> Nat]
    BY DEF CatInv, CatTypeOK
  <2>3. inpos'["stdin"] = inpos["stdin"]
    BY <1>9, <2>1, <2>2
  <2>4. Places'
    BY <1>3, <1>4, <1>5, <1>6, <1>7, <2>1, <2>3 DEF CopySoFar, Places
  <2>5. bufferSize # 0 => Copied'
    <3>1. SUFFICES ASSUME bufferSize # 0 PROVE Copied'
      OBVIOUS
    <3>2. content[outfd] = Upto(i - 1) /\ StdinAfter(i - 1)
      BY <1>1, <1>4, <3>1 DEF CopySoFar, Copied
    <3>3. StdinAfter(i - 1)'
      BY <1>3, <1>7, <2>3, <3>2 DEF StdinAfter
    <3>4. Rest' = ContentOf(i)
      <4>1. Rest' = SubSeq(content[Stream(i)], inpos'[Stream(i)] + 1, Len(content[Stream(i)]))
        BY <1>7, <2>1 DEF Rest
      <4>2. \A c \in Seq(Bytes) : SubSeq(c, 0 + 1, Len(c)) = c
        BY SubSeqFull
      <4>3. CASE Asked[i] # "-"
        <5>1. Stream(i) = Asked[i]
          BY <4>3 DEF Stream
        <5>2. inpos'[Stream(i)] = 0
          BY <1>9, <2>1, <2>2, <4>3, <5>1 DEF Streams
        <5>3. Rest' = content[Stream(i)]
          BY <1>9, <4>1, <4>2, <5>2
        <5>4. QED
          BY <1>9, <4>3, <5>1, <5>3 DEF ContentOf
      <4>4. CASE Asked[i] = "-"
        <5>1. Stream(i) = "stdin"
          BY <4>4 DEF Stream
        <5>2. Rest' = SubSeq(Contents["stdin"], inpos["stdin"] + 1, Len(Contents["stdin"]))
          BY <1>4, <2>3, <4>1, <5>1
        <5>3. CASE \E j \in 1 .. i - 1 : Asked[j] = "-"
          <6>1. inpos["stdin"] = Len(Contents["stdin"])
            BY <3>2, <5>3 DEF StdinAfter
          <6>2. Rest' = <<>>
            BY <1>4, <5>2, <6>1, SubSeqEmpty
          <6>3. QED
            BY <4>4, <5>3, <6>2 DEF ContentOf
        <5>4. CASE ~ \E j \in 1 .. i - 1 : Asked[j] = "-"
          <6>1. inpos["stdin"] = 0
            BY <3>2, <5>4 DEF StdinAfter
          <6>2. Rest' = Contents["stdin"]
            BY <1>9, <4>2, <5>1, <5>2, <6>1
          <6>3. QED
            BY <4>4, <5>4, <6>2 DEF ContentOf
        <5>5. QED
          BY <5>3, <5>4
      <4>5. QED
        BY <4>3, <4>4
    <3>5. Upto(i) = Upto(i - 1) \o ContentOf(i)
      BY <1>4, <1>6, UptoStep
    <3>6. content'[outfd'] \o Rest' = Upto(i')
      BY <1>3, <1>7, <3>2, <3>4, <3>5
    <3>7. QED
      BY <1>3, <2>1, <3>3, <3>6 DEF Copied
  <2>6. QED
    BY <1>3, <1>4, <1>7, <1>8, <2>1, <2>4, <2>5 DEF CopySoFar
<1>12. QED
  BY <1>10, <1>11

\* At the end of the last input all is copied.
LEMMA CloseCopies ==
  ASSUME CatInv, Close, AsksWell'
  PROVE  CopySoFar'
<1>1. /\ pc = "open" /\ [Next]_vars /\ i > Len(inputFiles)
      /\ pc' = "done" /\ UNCHANGED <<content, i, infd, inpos>>
  BY DEF Close, Ends, Next
<1>2. AsksWell
  BY <1>1, StillAsks
<1>3. /\ outfd' = outfd /\ bufferSize' = bufferSize /\ Asked' = Asked
      /\ AskedContent' = AskedContent
  BY <1>1, StillAsks
<1>4. argv \in CommandLines /\ OptionsFirst /\ CopySoFar /\ i \in 1 .. Len(Asked) + 1
  BY <1>2, CopyFacts
<1>5. i - 1 = Len(Asked)
  <2>1. Asked = inputFiles /\ Len(Asked) \in Nat
    BY <1>4, AskedTypes
  <2>2. QED
    BY <1>1, <1>4, <2>1
<1>6. InputsStay'
  BY <1>1, <1>3, <1>4 DEF CopySoFar, InputsStay
<1>7. Places'
  BY <1>1, <1>3, <1>4 DEF CopySoFar, Places
<1>8. bufferSize # 0 => Copied'
  <2>1. bufferSize # 0 => content[outfd] = Upto(Len(Asked))
    BY <1>1, <1>4, <1>5 DEF CopySoFar, Copied
  <2>2. AskedContent = Upto(Len(Asked))
    BY <1>4, UptoStep
  <2>3. QED
    BY <1>1, <1>3, <2>1, <2>2 DEF Copied
<1>9. QED
  BY <1>1, <1>3, <1>4, <1>6, <1>7, <1>8 DEF CopySoFar

\* A read takes the start of what is left of the input into the buffer.
LEMMA ReadCopies ==
  ASSUME CatInv, Read, AsksWell'
  PROVE  CopySoFar'
<1>1. pc = "read" /\ [Next]_vars
  BY DEF Read, Next
<1>2. AsksWell
  BY <1>1, StillAsks
<1>3. /\ outfd' = outfd /\ bufferSize' = bufferSize /\ Asked' = Asked
      /\ AskedContent' = AskedContent
      /\ \A k : Upto(k)' = Upto(k) /\ Stream(k)' = Stream(k)
  BY <1>1, StillAsks
<1>4. /\ argv \in CommandLines /\ OptionsFirst /\ CopySoFar
      /\ content[outfd] \in Seq(Bytes)
      /\ content["stdin"] = Contents["stdin"]
      /\ Len(Contents["stdin"]) \in Nat /\ inpos["stdin"] \in Nat
  BY <1>2, CopyFacts
<1>5. Len(Asked) \in Nat /\ bufferSize \in Int
  BY <1>4, AskedTypes, OutfileType
<1>6. i \in 1 .. Len(Asked) /\ infd = Stream(i)
  <2>1. i \in 1 .. Len(Asked) + 1
    BY <1>2, CopyFacts
  <2>2. i <= Len(Asked) /\ infd = Stream(i)
    BY <1>1, <1>4 DEF CopySoFar, Places
  <2>3. QED
    BY <1>5, <2>1, <2>2
<1>7. content[infd] \in Seq(Bytes) /\ Asked[i] # "stdin"
  BY <1>2, <1>6, CopyFacts
<1>8. infd \in Streams /\ inpos \in [Streams -> Nat] /\ inpos[infd] \in Nat
  BY <1>1 DEF CatInv, CatTypeOK, Streams
<1>9. content' = content
  BY DEF Read, Ends
<1>10. InputsStay'
  BY <1>3, <1>4, <1>9 DEF CopySoFar, InputsStay
<1>11. Rest \in Seq(Bytes) /\ Len(Rest) \in Nat
  BY <1>7, <1>8, RestType DEF Rest
<1>12. inpos["stdin"] <= Len(Contents["stdin"])
  BY <1>4 DEF CopySoFar, Places
<1>13. CASE pc' = "write"
  <2>1. PICK n \in 1 .. Len(Rest) :
          /\ bufferSize < 0 \/ n <= bufferSize
          /\ buf' = SubSeq(Rest, 1, n) /\ inpos' = [inpos EXCEPT ![infd] = @ + n]
          /\ UNCHANGED <<i, infd>>
    BY <1>13 DEF Read, Ends, Rest
  <2>2. bufferSize # 0
    BY <2>1
  <2>3. /\ SubSeq(Rest, 1, n) \o SubSeq(content[infd], inpos[infd] + n + 1, Len(content[infd])) = Rest
        /\ inpos[infd] + n <= Len(content[infd])
    BY <1>7, <1>8, RestSplits DEF Rest
  <2>4. inpos'[infd] = inpos[infd] + n /\ \A f \in Streams : f # infd => inpos'[f] = inpos[f]
    BY <1>8, <2>1
  <2>5. buf' \o Rest' = Rest
    BY <1>9, <2>1, <2>3, <2>4 DEF Rest
  <2>6. "stdin" \in Streams
    BY CopyCatAssumption DEF Streams
  <2>7. inpos'["stdin"] <= Len(Contents["stdin"])
    BY <1>4, <1>12, <2>3, <2>4, <2>6
  <2>8. Places'
    BY <1>3, <1>5, <1>6, <1>13, <2>1, <2>7 DEF Places
  <2>9. Copied'
    <3>1. content[outfd] \o Rest = Upto(i) /\ (infd # "stdin" => StdinAfter(i - 1))
      BY <1>1, <1>4, <2>2 DEF CopySoFar, Copied
    <3>2. infd' # "stdin" => StdinAfter(i - 1)'
      BY <1>3, <2>1, <2>4, <2>6, <3>1 DEF StdinAfter
    <3>3. content'[outfd'] \o (buf' \o Rest') = Upto(i')
      BY <1>3, <1>9, <2>1, <2>5, <3>1
    <3>4. QED
      BY <1>3, <1>13, <3>2, <3>3 DEF Copied
  <2>10. QED
    BY <1>3, <1>10, <2>2, <2>8, <2>9 DEF CopySoFar
<1>14. CASE pc' = "open"
  <2>1. /\ bufferSize = 0 \/ Rest = <<>>
        /\ i' = i + 1 /\ UNCHANGED <<infd, inpos, buf>>
    BY <1>14 DEF Read, Ends, Rest
  <2>2. Places'
    BY <1>3, <1>5, <1>6, <1>12, <1>14, <2>1 DEF Places
  <2>3. bufferSize # 0 => Copied'
    <3>1. SUFFICES ASSUME bufferSize # 0 PROVE Copied'
      OBVIOUS
    <3>2. content[outfd] \o Rest = Upto(i) /\ (infd # "stdin" => StdinAfter(i - 1))
      BY <1>1, <1>4, <3>1 DEF CopySoFar, Copied
    <3>3. Rest = <<>> /\ content[outfd] = Upto(i)
      <4>1. Rest = <<>>
        BY <2>1, <3>1
      <4>2. content[outfd] \o <<>> = content[outfd]
        BY <1>4, ConcatEmptySeq
      <4>3. QED
        BY <3>2, <4>1, <4>2
    <3>4. StdinAfter(i)
      <4>1. CASE infd = "stdin"
        <5>1. Asked[i] = "-" /\ i \in 1 .. i
          BY <1>6, <1>7, <4>1 DEF Stream
        <5>2. ~(inpos["stdin"] < Len(Contents["stdin"]))
          <6>1. SUFFICES ASSUME inpos["stdin"] < Len(Contents["stdin"]) PROVE FALSE
            OBVIOUS
          <6>2. content[infd] = Contents["stdin"]
            BY <1>4, <4>1
          <6>3. /\ inpos["stdin"] + 1 \in Int /\ Len(Contents["stdin"]) \in Int
                /\ inpos["stdin"] + 1 <= Len(Contents["stdin"])
                /\ \A k \in inpos["stdin"] + 1 .. Len(Contents["stdin"]) : Contents["stdin"][k] \in Bytes
            BY <1>4, <1>7, <6>1, <6>2
          <6>4. Rest = SubSeq(Contents["stdin"], inpos["stdin"] + 1, Len(Contents["stdin"]))
            BY <4>1, <6>2 DEF Rest
          <6>5. Len(Rest) = Len(Contents["stdin"]) - (inpos["stdin"] + 1) + 1
            BY <6>3, <6>4, SubSeqProperties
          <6>6. Len(Rest) = 0
            BY <3>3
          <6>7. QED
            BY <1>4, <6>1, <6>5, <6>6
        <5>3. inpos["stdin"] = Len(Contents["stdin"])
          BY <1>4, <1>12, <5>2
        <5>4. QED
          BY <5>1, <5>3 DEF StdinAfter
      <4>2. CASE infd # "stdin"
        <5>1. Asked[i] # "-"
          BY <1>6, <4>2 DEF Stream
        <5>2. \A j \in 1 .. i : j # i => j \in 1 .. i - 1
          BY <1>5, <1>6
        <5>3. \A j \in 1 .. i - 1 : j \in 1 .. i
          BY <1>5, <1>6
        <5>4. (\E j \in 1 .. i : Asked[j] = "-") <=> \E j \in 1 .. i - 1 : Asked[j] = "-"
          BY <5>1, <5>2, <5>3
        <5>5. StdinAfter(i - 1)
          BY <3>2, <4>2
        <5>6. QED
          BY <5>4, <5>5 DEF StdinAfter
      <4>3. QED
        BY <4>1, <4>2
    <3>5. i' - 1 = i
      BY <1>6, <2>1
    <3>6. StdinAfter(i - 1)'
      BY <1>3, <2>1, <3>4, <3>5 DEF StdinAfter
    <3>7. content'[outfd'] = Upto(i' - 1)
      BY <1>3, <1>9, <3>3, <3>5
    <3>8. QED
      BY <1>3, <1>14, <3>6, <3>7 DEF Copied
  <2>4. QED
    BY <1>3, <1>4, <1>9, <1>10, <1>14, <2>2, <2>3 DEF CopySoFar
<1>15. CASE pc' \in {"error", "crashed"}
  <2>1. UNCHANGED <<i, infd, inpos, buf>>
    BY <1>15 DEF Read, Ends
  <2>2. Places'
    BY <1>3, <1>5, <1>6, <1>12, <1>15, <2>1 DEF Places
  <2>3. bufferSize # 0 => Copied'
    <3>1. SUFFICES ASSUME bufferSize # 0 PROVE Copied'
      OBVIOUS
    <3>2. content[outfd] \o Rest = Upto(i)
      BY <1>1, <1>4, <3>1 DEF CopySoFar, Copied
    <3>3. i \in 0 .. Len(Asked)
      BY <1>5, <1>6
    <3>4. Starts(content[outfd], AskedContent)
      BY <1>4, <1>11, <3>2, <3>3, PartsStart
    <3>5. Starts(content[outfd], AskedContent)'
      BY <1>3, <1>9, <3>4 DEF Starts
    <3>6. QED
      BY <1>15, <3>5 DEF Copied
  <2>4. QED
    BY <1>3, <1>4, <1>9, <1>10, <1>15, <2>2, <2>3 DEF CopySoFar
<1>16. pc' \in {"write", "open", "error", "crashed"}
  BY DEF Read, Ends
<1>17. QED
  BY <1>13, <1>14, <1>15, <1>16

\* A write appends the start of the buffer to the output.
LEMMA WriteCopies ==
  ASSUME CatInv, Write, AsksWell'
  PROVE  CopySoFar'
<1>1. pc = "write" /\ [Next]_vars /\ UNCHANGED <<i, infd, inpos>>
  BY DEF Write, Next
<1>2. AsksWell
  BY <1>1, StillAsks
<1>3. /\ outfd' = outfd /\ bufferSize' = bufferSize /\ Asked' = Asked
      /\ AskedContent' = AskedContent
      /\ \A k : Upto(k)' = Upto(k) /\ Stream(k)' = Stream(k)
  BY <1>1, StillAsks
<1>4. /\ argv \in CommandLines /\ OptionsFirst /\ CopySoFar
      /\ outfd \in Streams /\ content[outfd] \in Seq(Bytes)
  BY <1>2, CopyFacts
<1>5. Len(Asked) \in Nat
  BY <1>4, AskedTypes
<1>6. i \in 1 .. Len(Asked) /\ infd = Stream(i)
  <2>1. i \in 1 .. Len(Asked) + 1
    BY <1>2, CopyFacts
  <2>2. i <= Len(Asked) /\ infd = Stream(i)
    BY <1>1, <1>4 DEF CopySoFar, Places
  <2>3. QED
    BY <1>5, <2>1, <2>2
<1>7. infd # outfd /\ content[infd] \in Seq(Bytes) /\ inpos[infd] \in Nat /\ buf \in Seq(Bytes)
  <2>1. infd # outfd /\ content[infd] \in Seq(Bytes)
    BY <1>2, <1>6, CopyFacts
  <2>2. QED
    BY <1>1, <2>1 DEF CatInv, CatTypeOK, Streams
<1>8. bufferSize # 0
  BY <1>1, <1>4 DEF CopySoFar
<1>9. content[outfd] \o (buf \o Rest) = Upto(i) /\ (infd # "stdin" => StdinAfter(i - 1))
  BY <1>1, <1>4, <1>8 DEF CopySoFar, Copied
<1>10. PICK n \in 0 .. Len(buf) :
          /\ content' = IF n = 0 THEN content ELSE [content EXCEPT ![outfd] = @ \o SubSeq(buf, 1, n)]
          /\ pc' = IF n = Len(buf) THEN "read" ELSE "error"
  BY DEF Write
<1>11. /\ SubSeq(buf, 1, n) \o SubSeq(buf, n + 1, Len(buf)) = buf
       /\ SubSeq(buf, 1, n) \in Seq(Bytes) /\ SubSeq(buf, n + 1, Len(buf)) \in Seq(Bytes)
       /\ n = Len(buf) => SubSeq(buf, 1, n) = buf
  BY <1>7, BufferSplits
<1>12. content \in [Streams -> Seq(Bytes)]
  BY DEF CatInv, CatTypeOK
<1>13. content'[outfd] = content[outfd] \o SubSeq(buf, 1, n)
  <2>1. CASE n = 0
    <3>1. SubSeq(buf, 1, n) = <<>>
      BY <2>1, SubSeqEmpty
    <3>2. content[outfd] \o <<>> = content[outfd]
      BY <1>4, ConcatEmptySeq
    <3>3. QED
      BY <1>10, <2>1, <3>1, <3>2
  <2>2. CASE n # 0
    BY <1>4, <1>10, <1>12, <2>2
  <2>3. QED
    BY <2>1, <2>2
<1>14. \A f \in Streams : f # outfd => content'[f] = content[f]
  BY <1>10, <1>12
<1>15. infd \in Streams /\ Names \subseteq Streams
  BY <1>1 DEF CatInv, CatTypeOK, Streams
<1>16. Rest' = Rest
  BY <1>1, <1>7, <1>14, <1>15 DEF Rest
<1>17. Rest \in Seq(Bytes)
  BY <1>7, RestType DEF Rest
<1>18. InputsStay'
  BY <1>3, <1>4, <1>14, <1>15 DEF CopySoFar, InputsStay
<1>19. Places'
  BY <1>1, <1>3, <1>4, <1>5, <1>6 DEF CopySoFar, Places
<1>20. Copied'
  <2>1. CASE n = Len(buf)
    <3>1. (content[outfd] \o buf) \o Rest = content[outfd] \o (buf \o Rest)
      BY <1>4, <1>7, <1>17, Associative, Zenon
    <3>2. content'[outfd'] \o Rest' = Upto(i')
      BY <1>1, <1>3, <1>9, <1>11, <1>13, <1>16, <2>1, <3>1
    <3>3. infd' # "stdin" => StdinAfter(i - 1)'
      BY <1>1, <1>3, <1>9 DEF StdinAfter
    <3>4. pc' = "read"
      BY <1>10, <2>1
    <3>5. QED
      BY <1>3, <3>2, <3>3, <3>4 DEF Copied
  <2>2. CASE n # Len(buf)
    <3> DEFINE s == SubSeq(buf, 1, n)
               t == SubSeq(buf, n + 1, Len(buf))
    <3>1. s \in Seq(Bytes) /\ t \in Seq(Bytes) /\ s \o t = buf
      BY <1>11
    <3>2. content'[outfd] = content[outfd] \o s
      BY <1>13
    <3> HIDE DEF s, t
    <3>3. t \o Rest \in Seq(Bytes) /\ content[outfd] \o s \in Seq(Bytes)
      BY <1>4, <1>17, <3>1, ConcatProperties
    <3>4. (s \o t) \o Rest = s \o (t \o Rest)
      BY <1>17, <3>1, Associative, Zenon
    <3>5. (content[outfd] \o s) \o (t \o Rest) = content[outfd] \o (s \o (t \o Rest))
      BY <1>4, <3>1, <3>3, Associative, Zenon
    <3>6. (content[outfd] \o s) \o (t \o Rest) = Upto(i)
      BY <1>9, <3>1, <3>4, <3>5
    <3>7. i \in 0 .. Len(Asked)
      BY <1>5, <1>6
    <3>8. Starts(content[outfd] \o s, AskedContent)
      BY <1>4, <3>3, <3>6, <3>7, PartsStart
    <3>9. Starts(content[outfd], AskedContent)'
      BY <1>3, <3>2, <3>8 DEF Starts
    <3>10. pc' = "error"
      BY <1>10, <2>2
    <3>11. QED
      BY <3>9, <3>10 DEF Copied
  <2>3. QED
    BY <2>1, <2>2
<1>21. QED
  BY <1>3, <1>8, <1>18, <1>19, <1>20 DEF CopySoFar

-----------------------------------------------------------------------------
(***************************************************************************)
(* The theorems.                                                           *)
(***************************************************************************)
\* A step keeps what was copied.
LEMMA CatStep == CatInv /\ [Next]_vars => CatInv'
<1> SUFFICES ASSUME CatInv, [Next]_vars
             PROVE  CatInv'
  OBVIOUS
<1>1. CatTypeOK' /\ AtStart'
  BY TypesKept, StartKept DEF CatInv
<1>2. ASSUME AsksWell'
      PROVE  CopySoFar'
  <2>1. CASE Next
    BY <1>2, <2>1, StartCopies, OpenCopies, ReadCopies, WriteCopies, CloseCopies DEF Next
  <2>2. CASE UNCHANGED vars
    <3>1. UNCHANGED <<argv, content, outfd, i, infd, inpos, buf, pc>>
      BY <2>2 DEF vars
    <3>2. /\ bufferSize' = bufferSize /\ Asked' = Asked /\ AskedContent' = AskedContent
          /\ OptionsFirst' = OptionsFirst
          /\ \A k : Upto(k)' = Upto(k) /\ Stream(k)' = Stream(k)
      BY <3>1, SameArguments
    <3>3. AsksWell
      BY <1>2, <3>1, <3>2 DEF AsksWell
    <3>4. InputsStay /\ Places /\ (IF bufferSize = 0 THEN content[outfd] = <<>> /\ pc # "write" ELSE Copied)
      BY <3>3 DEF CatInv, CopySoFar
    <3>5. InputsStay'
      BY <3>1, <3>4 DEF InputsStay
    <3>6. Places'
      BY <3>1, <3>2, <3>4 DEF Places
    <3>7. Copied => Copied'
      BY <3>1, <3>2 DEF Copied, StdinAfter, Rest, Starts
    <3>8. QED
      BY <3>1, <3>2, <3>4, <3>5, <3>6, <3>7 DEF CopySoFar
  <2>3. QED
    BY <2>1, <2>2
<1>3. QED
  BY <1>1, <1>2 DEF CatInv

\* The invariant holds in every run of copycat (ps1/main.c:20-88).
THEOREM CatInvariance == Spec => []CatInv
<1>1. QED
  BY CatInit, CatStep, PTL DEF Spec

\* Types: whatever the options are and whichever calls fail, what is read is a file or
\* the standard input and what is written is not the standard input, and copycat
\* reads and writes only while it is at one of its inputs (ps1/main.c:54-88).
THEOREM TypeCorrect == Spec => []CatTypeOK
<1>1. CatInv => CatTypeOK
  BY DEF CatInv
<1>2. QED
  BY CatInvariance, <1>1, PTL

\* When the options come first and the output is none of the inputs, the output
\* holds the start of what was asked for whatever reads and writes return, and
\* all of it at the end (ps1/main.c:26-88).
THEOREM CopiesWhatWasAsked == Spec => []CopiedInOrder
<1>1. ASSUME CatInv
      PROVE  CopiedInOrder
  <2>1. SUFFICES ASSUME AsksWell
                 PROVE  /\ Starts(content[outfd], AskedContent)
                        /\ pc = "done" /\ bufferSize # 0 => content[outfd] = AskedContent
    BY DEF CopiedInOrder, AsksWell, Starts
  <2>2. /\ argv \in CommandLines /\ OptionsFirst /\ CopySoFar
        /\ content[outfd] \in Seq(Bytes) /\ i \in 1 .. Len(Asked) + 1
    BY <1>1, <2>1, CopyFacts
  <2>3. /\ Len(Asked) \in Nat /\ Upto(0) = <<>> /\ AskedContent = Upto(Len(Asked))
        /\ AskedContent \in Seq(Bytes)
    <3>1. Len(Asked) \in Nat
      BY <2>2, AskedTypes
    <3>2. Len(Asked) \in 0 .. Len(Asked)
      BY <3>1
    <3>3. QED
      BY <2>2, <3>1, <3>2, UptoStep
  <2>4. pc # "start" /\ pc \in {"start", "open", "read", "write", "done", "error", "crashed"}
    BY <1>1, <2>1 DEF CatInv, CatTypeOK, AsksWell
  <2>5. CASE bufferSize = 0
    <3>1. content[outfd] = <<>>
      BY <2>2, <2>5 DEF CopySoFar
    <3>2. <<>> \o AskedContent = AskedContent /\ <<>> \in Seq(Bytes)
      BY <2>3, ConcatEmptySeq
    <3>3. Starts(<<>>, AskedContent)
      BY <2>3, <3>2, StartsConcat
    <3>4. QED
      BY <2>5, <3>1, <3>3
  <2>6. CASE bufferSize # 0
    <3>1. Copied
      BY <2>2, <2>6 DEF CopySoFar
    <3>2. CASE pc \in {"open", "done"}
      <4>1. PICK k \in 0 .. Len(Asked) : content[outfd] = Upto(k)
        <5>1. i - 1 \in 0 .. Len(Asked) /\ Len(Asked) \in 0 .. Len(Asked)
          BY <2>2, <2>3
        <5>2. QED
          BY <2>3, <3>1, <3>2, <5>1 DEF Copied
      <4>2. content[outfd] \o <<>> = Upto(k) /\ <<>> \in Seq(Bytes)
        BY <2>2, <4>1, ConcatEmptySeq
      <4>3. Starts(content[outfd], AskedContent)
        BY <2>2, <4>2, PartsStart
      <4>4. QED
        BY <3>1, <4>3 DEF Copied
    <3>3. CASE pc \in {"read", "write"}
      <4>1. i \in 0 .. Len(Asked)
        <5>1. i <= Len(Asked)
          BY <2>2, <3>3 DEF CopySoFar, Places
        <5>2. QED
          BY <2>2, <2>3, <5>1
      <4>2. infd \in Streams /\ content[infd] \in Seq(Bytes) /\ inpos[infd] \in Nat /\ buf \in Seq(Bytes)
        BY <1>1, <3>3 DEF CatInv, CatTypeOK, Streams
      <4>3. Rest \in Seq(Bytes)
        BY <4>2, RestType DEF Rest
      <4>4. buf \o Rest \in Seq(Bytes)
        BY <4>2, <4>3, ConcatProperties
      <4>5. \/ content[outfd] \o Rest = Upto(i)
            \/ content[outfd] \o (buf \o Rest) = Upto(i)
        BY <3>1, <3>3 DEF Copied
      <4>6. QED
        BY <2>2, <3>3, <4>1, <4>3, <4>4, <4>5, PartsStart
    <3>4. CASE pc \in {"error", "crashed"}
      BY <3>1, <3>4 DEF Copied
    <3>5. QED
      BY <2>4, <3>2, <3>3, <3>4
  <2>7. QED
    BY <2>5, <2>6
<1>2. QED
  BY CatInvariance, <1>1, PTL

=============================================================================
