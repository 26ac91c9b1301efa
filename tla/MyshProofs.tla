----------------------------- MODULE MyshProofs -----------------------------
(***************************************************************************)
(* Proofs about Mysh, for all scripts and every number of processes: the   *)
(* processes form a stack and only the one on top goes on, a command runs  *)
(* with the descriptors its line asks for, and a line is executed no more  *)
(* often than the failed execs and the moved offset explain.               *)
(***************************************************************************)
EXTENDS Mysh, FiniteSetTheorems, TLAPS

-----------------------------------------------------------------------------
(***************************************************************************)
(* The processes form a stack: each was forked by the one below it, which  *)
(* waits for it, and only the one on top goes on.                          *)
(***************************************************************************)
Phases == {"none", "opening", "reading", "building", "forking", "waiting",
           "redirecting", "running", "ended"}

Modes == {"terminal", "script", "closed", "read", "truncate", "append"}

Targets == [mode : Modes, skip : Nat, arg : Arguments \cup {NoArg}]

MyshTypeOK ==
  /\ script \in Scripts
  /\ at \in [Procs -> Phases]
  /\ offset \in Nat /\ rewinds \in Nat
  /\ line \in [Procs -> Nat]
  /\ upto \in [Procs -> Nat]
  /\ redi \in [Procs -> Nat \ {0}]
  /\ fds \in [Procs -> [Descriptors -> Targets]]
  /\ parent \in [Procs -> Procs \cup {0}]
  /\ corrupt \in [Procs -> BOOLEAN]
  /\ forks \in [DOMAIN script -> Nat]

\* A process that deals with a line has one.
HasLine ==
  \A p \in Procs :
    at[p] \in {"building", "forking", "waiting", "redirecting", "running"} => line[p] \in DOMAIN script

There(p) == at[p] # "none"

\* The first shell is nobody's child, and nobody waits for it.
FirstShellStays ==
  /\ at[FirstShell] \notin {"none", "redirecting", "running"}
  /\ parent[FirstShell] = 0

RankedBy(rank) ==
  /\ \A p, q \in Procs : There(p) /\ There(q) /\ rank[p] = rank[q] => p = q
  /\ \A p, q \in Procs : There(p) /\ There(q) /\ at[p] # "waiting" => rank[q] <= rank[p]
  /\ \A p \in Procs : There(p) /\ p # FirstShell =>
       /\ parent[p] \in Procs /\ at[parent[p]] = "waiting"
       /\ rank[p] = rank[parent[p]] + 1

Stacked == \E rank \in [Procs -> Nat] : RankedBy(rank)

MyshInv == MyshTypeOK /\ HasLine /\ FirstShellStays /\ Stacked

-----------------------------------------------------------------------------
(***************************************************************************)
(* What the operators return.                                              *)
(***************************************************************************)
\* A line of a script is a sequence of arguments.
LEMMA LineType ==
  ASSUME MyshTypeOK, NEW n \in DOMAIN script
  PROVE  script[n] \in Seq(Arguments)
  BY MyshAssumption DEF MyshTypeOK

\* Words and redirections are counted.
LEMMA Counts ==
  ASSUME NEW args \in Seq(Arguments)
  PROVE  /\ getCommandArgCount(args) \in 0 .. Len(args)
         /\ getRedirectArgCount(args) \in 0 .. Len(args)
<1> DEFINE W == {k \in DOMAIN args : IsWord(args[k])}
<1>1. Len(args) \in Nat /\ DOMAIN args = 1 .. Len(args)
  OBVIOUS
<1>2. IsFiniteSet(1 .. Len(args)) /\ Cardinality(1 .. Len(args)) = Len(args)
  BY <1>1, FS_Interval
<1>3. IsFiniteSet(W) /\ Cardinality(W) <= Len(args) /\ Cardinality(W) \in Nat
  BY <1>1, <1>2, FS_Subset, FS_CardinalityType
<1>4. QED
  BY <1>1, <1>3 DEF getCommandArgCount, getRedirectArgCount

\* A descriptor is open on a target.
LEMMA TargetTypes ==
  /\ Terminal \in Targets /\ ScriptFile \in Targets /\ Closed \in Targets
  /\ \A form \in RedirectForms, arg \in Arguments :
       /\ Redirection(form).fileNum \in Descriptors
       /\ Target(Redirection(form).mode, Redirection(form).skip, arg) \in Targets
<1>1. Terminal \in Targets /\ ScriptFile \in Targets /\ Closed \in Targets
  BY DEF Terminal, ScriptFile, Closed, Targets, Target, Modes
<1>2. ASSUME NEW form \in RedirectForms, NEW arg \in Arguments
      PROVE  /\ Redirection(form).fileNum \in Descriptors
             /\ Target(Redirection(form).mode, Redirection(form).skip, arg) \in Targets
  <2>1. CASE form = "<"
    BY <2>1 DEF Redirection, Target, Targets, Modes, Descriptors
  <2>2. CASE form = ">"
    BY <2>2 DEF Redirection, Target, Targets, Modes, Descriptors
  <2>3. CASE form \in {"2>", "2>>"}
    BY <2>3 DEF Redirection, Target, Targets, Modes, Descriptors
  <2>4. CASE form = ">>"
    BY <2>4 DEF Redirection, Target, Targets, Modes, Descriptors
  <2>5. QED
    BY <2>1, <2>2, <2>3, <2>4 DEF RedirectForms
<1>3. QED
  BY <1>1, <1>2

\* A redirection leaves a process with three descriptors, open or closed.
LEMMA RedirectTypes ==
  ASSUME NEW was \in [Descriptors -> Targets]
  PROVE  /\ \A num \in Descriptors, target \in Targets :
              OpenedOn(was, num, target) \in [Descriptors -> Targets]
         /\ DupGarbage(was) \subseteq [Descriptors -> Targets]
<1>1. Closed \in Targets /\ ScriptFile \in Targets
  BY TargetTypes
<1>2. ASSUME NEW fd \in Descriptors \cup {3}, NEW fileNum \in Descriptors \cup {3}
      PROVE  [d \in Descriptors |->
                IF d = fd THEN Closed
                ELSE IF d = fileNum THEN (IF fd = 3 THEN ScriptFile ELSE was[fd]) ELSE was[d]]
              \in [Descriptors -> Targets]
  BY <1>1
<1>3. DupGarbage(was) \subseteq [Descriptors -> Targets]
  BY <1>2 DEF DupGarbage
<1>4. QED
  BY <1>1, <1>3 DEF OpenedOn

-----------------------------------------------------------------------------
(***************************************************************************)
(* The initial state.                                                      *)
(***************************************************************************)
\* The first shell is a process.
LEMMA ProcsFacts == Procs \subseteq Nat \ {0} /\ FirstShell \in Procs
  BY MyshAssumption DEF Procs, FirstShell

\* The shell starts alone.
LEMMA MyshInit == Init => MyshInv
<1> SUFFICES ASSUME Init
             PROVE  MyshInv
  OBVIOUS
<1>1. MyshTypeOK
  <2>1. Terminal \in Targets
    BY TargetTypes
  <2>2. \A p \in Procs : at[p] \in Phases
    BY DEF Init, Phases
  <2>3. QED
    BY <2>1, <2>2 DEF Init, MyshTypeOK
<1>2. HasLine
  BY DEF Init, HasLine
<1>3. FirstShellStays
  BY ProcsFacts DEF Init, FirstShellStays
<1>4. Stacked
  <2> DEFINE rank == [p \in Procs |-> 0]
  <2>1. \A p \in Procs : There(p) => p = FirstShell
    BY DEF Init, There
  <2>2. RankedBy(rank)
    BY <2>1 DEF RankedBy
  <2>3. QED
    BY <2>2 DEF Stacked
<1>5. QED
  BY <1>1, <1>2, <1>3, <1>4 DEF MyshInv

-----------------------------------------------------------------------------
(***************************************************************************)
(* Steps.                                                                  *)
(***************************************************************************)
\* A step of a process that neither comes nor goes nor waits leaves the stack
\* as it is.
GoesOn(p) ==
  /\ at[p] \notin {"none", "waiting"}
  /\ \E to \in Phases \ {"none", "waiting"} : at' = [at EXCEPT ![p] = to]
  /\ UNCHANGED parent

\* The exits move nothing but the offset.
LEMMA ExitsGoOn ==
  ASSUME MyshInv, NEW p \in Procs, NEW from \in Phases \ {"none", "waiting"}, Exits(p, from)
  PROVE  /\ at[p] = from /\ at' = [at EXCEPT ![p] = "ended"]
         /\ offset' \in Nat /\ rewinds' \in Nat /\ UNCHANGED <<line, upto>>
<1>1. /\ offset \in Nat /\ rewinds \in Nat /\ upto[p] \in Nat /\ line[p] \in Nat
  BY DEF MyshInv, MyshTypeOK
<1>2. upto[p] - line[p] > 0 /\ upto[p] - line[p] <= offset => offset - (upto[p] - line[p]) \in Nat
  BY <1>1
<1>3. QED
  BY <1>1, <1>2 DEF Exits, Goes, Counting

\* The stack stays when a process goes on.
LEMMA StackStays ==
  ASSUME MyshInv, NEW p \in Procs, GoesOn(p)
  PROVE  Stacked'
<1>1. PICK rank \in [Procs -> Nat] : RankedBy(rank)
  BY DEF MyshInv, Stacked
<1>2. /\ at \in [Procs -> Phases]
      /\ \A q \in Procs : /\ at'[q] = "none" <=> at[q] = "none"
                          /\ at'[q] = "waiting" <=> at[q] = "waiting"
      /\ UNCHANGED parent
  BY DEF MyshInv, MyshTypeOK, GoesOn
<1>3. RankedBy(rank)'
  BY <1>1, <1>2 DEF RankedBy, There
<1>4. QED
  BY <1>3 DEF Stacked

\* An exit keeps the invariant.
LEMMA ExitKeeps ==
  ASSUME MyshInv, NEW p \in Procs, NEW from \in {"building", "forking", "redirecting"},
         Exits(p, from),
         UNCHANGED <<script, redi, fds, parent, corrupt, forks>>
  PROVE  MyshInv'
<1>1. /\ at[p] = from /\ at' = [at EXCEPT ![p] = "ended"]
      /\ offset' \in Nat /\ rewinds' \in Nat /\ UNCHANGED <<line, upto>>
  <2>1. from \in Phases \ {"none", "waiting"}
    BY DEF Phases
  <2>2. QED
    BY <2>1, ExitsGoOn
<1>2. GoesOn(p)
  BY <1>1 DEF GoesOn, Phases
<1>3. MyshTypeOK' /\ HasLine' /\ FirstShellStays'
  BY <1>1 DEF MyshInv, MyshTypeOK, Phases, HasLine, FirstShellStays
<1>4. QED
  BY <1>2, <1>3, StackStays DEF MyshInv

\* There is one process on top of the stack.
LEMMA OneOnTop ==
  ASSUME MyshInv, NEW p \in Procs, NEW q \in Procs,
         at[p] \notin {"none", "waiting"}, at[q] \notin {"none", "waiting"}
  PROVE  p = q
<1>1. PICK rank \in [Procs -> Nat] : RankedBy(rank)
  BY DEF MyshInv, Stacked
<1>2. rank[p] <= rank[q] /\ rank[q] <= rank[p] /\ There(p) /\ There(q)
  BY <1>1 DEF RankedBy, There
<1>3. QED
  BY <1>1, <1>2 DEF RankedBy

\* Opening the script.
LEMMA OpenScriptKeeps ==
  ASSUME MyshInv, NEW p \in Procs, OpenScript(p)
  PROVE  MyshInv'
<1> USE DEF MyshInv
<1>1. PICK to \in {"reading", "ended"} : Goes(p, "opening", to)
  BY DEF OpenScript
<1>2. GoesOn(p)
  BY <1>1 DEF OpenScript, Goes, GoesOn, Phases
<1>3. MyshTypeOK'
  BY <1>1 DEF OpenScript, input, Goes, MyshTypeOK, Phases
<1>4. HasLine' /\ FirstShellStays'
  BY <1>1 DEF OpenScript, input, Goes, MyshTypeOK, HasLine, FirstShellStays
<1>5. QED
  BY <1>2, <1>3, <1>4, StackStays

\* Reading a line.
LEMMA ReadLineKeeps ==
  ASSUME MyshInv, NEW p \in Procs, ReadLine(p)
  PROVE  MyshInv'
<1> DEFINE n == NextLine(p)
<1>1. /\ at \in [Procs -> Phases] /\ line \in [Procs -> Nat] /\ upto \in [Procs -> Nat]
      /\ offset \in Nat /\ script \in Scripts
  BY DEF MyshInv, MyshTypeOK
<1>2. Len(script) \in Nat /\ n \in Nat
  BY <1>1, MyshAssumption DEF NextLine
<1>3. /\ at[p] = "reading"
      /\ UNCHANGED <<script, rewinds, redi, fds, parent, corrupt, forks>>
  BY DEF ReadLine
<1>4. CASE n \in DOMAIN script
  <2>1. PICK to \in {"reading", "building"} : Goes(p, "reading", to)
    BY <1>4 DEF ReadLine
  <2>2. /\ line' = [line EXCEPT ![p] = n]
        /\ upto' = upto \/ upto' = [upto EXCEPT ![p] = Len(script)]
        /\ offset' = offset \/ offset' = Len(script)
    BY <1>4 DEF ReadLine
  <2>3. GoesOn(p)
    BY <2>1, <1>3 DEF Goes, GoesOn, Phases
  <2>4. MyshTypeOK'
    <3>1. at' \in [Procs -> Phases]
      BY <2>1, <1>1 DEF Goes, Phases
    <3>2. line' \in [Procs -> Nat] /\ upto' \in [Procs -> Nat] /\ offset' \in Nat
      BY <2>2, <1>1, <1>2
    <3>3. QED
      BY <3>1, <3>2, <1>3 DEF MyshInv, MyshTypeOK
  <2>5. HasLine' /\ FirstShellStays'
    <3>1. \A q \in Procs : q # p => at'[q] = at[q] /\ line'[q] = line[q]
      BY <2>1, <2>2, <1>1 DEF Goes
    <3>2. at'[p] = to /\ line'[p] = n
      BY <2>1, <2>2, <1>1 DEF Goes
    <3>3. HasLine'
      BY <3>1, <3>2, <1>3, <1>4 DEF MyshInv, HasLine
    <3>4. FirstShellStays'
      BY <3>1, <3>2, <1>3, ProcsFacts DEF MyshInv, FirstShellStays
    <3>5. QED
      BY <3>3, <3>4
  <2>6. QED
    BY <2>3, <2>4, <2>5, StackStays DEF MyshInv
<1>5. CASE n \notin DOMAIN script
  <2>1. Goes(p, "reading", "ended") /\ UNCHANGED <<offset, line, upto>>
    BY <1>5 DEF ReadLine
  <2>2. GoesOn(p)
    BY <2>1, <1>3 DEF Goes, GoesOn, Phases
  <2>3. MyshTypeOK' /\ HasLine' /\ FirstShellStays'
    BY <2>1, <1>3 DEF Goes, MyshInv, MyshTypeOK, Phases, HasLine, FirstShellStays
  <2>4. QED
    BY <2>2, <2>3, StackStays DEF MyshInv
<1>6. QED
  BY <1>4, <1>5

\* Building the array of arguments.
LEMMA BuildKeeps ==
  ASSUME MyshInv, NEW p \in Procs, Build(p)
  PROVE  MyshInv'
<1> USE DEF MyshInv
<1>1. PICK to \in {"forking", "ended"} : Goes(p, "building", to)
  BY DEF Build
<1>2. GoesOn(p)
  BY <1>1 DEF Build, Goes, GoesOn, Phases
<1>3. UNCHANGED <<script, offset, line, upto, rewinds, redi, fds, parent, forks>>
  BY DEF Build, input
<1>4. corrupt' \in [Procs -> BOOLEAN]
  <2>1. (corrupt[p] \/ WritesPastEnd(getCommandArgCount(Args(p)))
                    \/ WritesPastEnd(getRedirectArgCount(Args(p)))) \in BOOLEAN
    OBVIOUS
  <2>2. corrupt \in [Procs -> BOOLEAN]
    BY DEF MyshTypeOK
  <2>3. QED
    BY <2>1, <2>2, Zenon DEF Build
<1>5. MyshTypeOK'
  BY <1>1, <1>3, <1>4 DEF Goes, MyshTypeOK, Phases
<1>6. HasLine' /\ FirstShellStays'
  BY <1>1, <1>3 DEF Goes, MyshTypeOK, HasLine, FirstShellStays
<1>7. QED
  BY <1>2, <1>5, <1>6, StackStays

\* A child goes on top of the stack.
ForksChild(p, child) ==
  /\ at[p] = "forking" /\ at[child] = "none"
  /\ at' = [at EXCEPT ![p] = "waiting", ![child] = "redirecting"]
  /\ line' = [line EXCEPT ![child] = line[p]]
  /\ upto' = [upto EXCEPT ![child] = upto[p]]
  /\ redi' = [redi EXCEPT ![child] = 1]
  /\ fds' = [fds EXCEPT ![child] = fds[p]]
  /\ parent' = [parent EXCEPT ![child] = p]
  /\ corrupt' = [corrupt EXCEPT ![child] = corrupt[p]]
  /\ forks' = IF Counting THEN [forks EXCEPT ![line[p]] = @ + 1] ELSE forks
  /\ UNCHANGED <<script, offset, rewinds>>

\* A fork makes a child or fails.
LEMMA ForkCases ==
  ASSUME MyshInv, NEW p \in Procs, Fork(p)
  PROVE  \/ \E child \in Procs : ForksChild(p, child)
         \/ Exits(p, "forking") /\ UNCHANGED <<script, redi, fds, parent, corrupt, forks>>
  BY DEF Fork, ForksChild, ParentGoesTo

\* The child goes on top of the stack.
LEMMA ForksChildKeeps ==
  ASSUME MyshInv, NEW p \in Procs, NEW child \in Procs, ForksChild(p, child)
  PROVE  MyshInv'
<1> USE DEF MyshInv
<1>1. /\ at \in [Procs -> Phases] /\ line \in [Procs -> Nat] /\ parent \in [Procs -> Procs \cup {0}]
      /\ at[p] = "forking" /\ at[child] = "none" /\ p # child /\ line[p] \in DOMAIN script
      /\ child # FirstShell
  BY DEF MyshTypeOK, HasLine, ForksChild, FirstShellStays
<1>2. MyshTypeOK'
  <2>1. at' \in [Procs -> Phases]
    BY <1>1 DEF ForksChild, Phases
  <2>2. /\ line' \in [Procs -> Nat] /\ upto' \in [Procs -> Nat] /\ redi' \in [Procs -> Nat \ {0}]
    BY DEF ForksChild, MyshTypeOK
  <2>3. fds' \in [Procs -> [Descriptors -> Targets]] /\ corrupt' \in [Procs -> BOOLEAN]
    <3>1. fds[p] \in [Descriptors -> Targets]
      BY DEF MyshTypeOK
    <3>2. fds' \in [Procs -> [Descriptors -> Targets]]
      BY <3>1 DEF ForksChild, MyshTypeOK
    <3>3. corrupt' \in [Procs -> BOOLEAN]
      BY Zenon DEF ForksChild, MyshTypeOK
    <3>4. QED
      BY <3>2, <3>3
  <2>4. parent' \in [Procs -> Procs \cup {0}] /\ forks' \in [DOMAIN script -> Nat]
    BY <1>1 DEF ForksChild, MyshTypeOK
  <2>5. UNCHANGED <<script, offset, rewinds>>
    BY DEF ForksChild
  <2>6. QED
    BY <2>1, <2>2, <2>3, <2>4, <2>5 DEF MyshTypeOK
<1>3. /\ at'[p] = "waiting" /\ at'[child] = "redirecting"
      /\ \A q \in Procs : q # p /\ q # child => at'[q] = at[q]
      /\ parent'[child] = p /\ line'[child] = line[p]
      /\ \A q \in Procs : q # child => parent'[q] = parent[q] /\ line'[q] = line[q]
  BY <1>1 DEF ForksChild
<1>4. HasLine'
  BY <1>1, <1>3 DEF HasLine, ForksChild
<1>5. FirstShellStays'
  BY <1>1, <1>3, ProcsFacts DEF FirstShellStays
<1>6. Stacked'
  <2>1. PICK rank \in [Procs -> Nat] : RankedBy(rank)
    BY DEF Stacked
  <2> DEFINE over == [rank EXCEPT ![child] = rank[p] + 1]
  <2>2. /\ over \in [Procs -> Nat]
        /\ over[child] = rank[p] + 1
        /\ \A q \in Procs : q # child => over[q] = rank[q]
    BY <2>1
  <2>3. \A q \in Procs : There(q) => rank[q] <= rank[p]
    BY <2>1, <1>1 DEF RankedBy, There
  <2>4. \A q \in Procs : There(q)' <=> There(q) \/ q = child
    BY <1>1, <1>3 DEF There
  <2>5. \A q \in Procs : There(q) => q # child
    BY <1>1 DEF There
  <2>6. \A q \in Procs : There(q) => rank[q] \in Nat
    BY <2>1
  <2> HIDE DEF over
  <2>7. ASSUME NEW q \in Procs, NEW r \in Procs, There(q)', There(r)', over[q] = over[r]
        PROVE  q = r
    BY <2>1, <2>2, <2>3, <2>4, <2>5, <2>7 DEF RankedBy
  <2>8. ASSUME NEW q \in Procs, NEW r \in Procs, There(q)', There(r)', at'[q] # "waiting"
        PROVE  over[r] <= over[q]
    <3>1. q = child
      <4>1. SUFFICES ASSUME q # child
                     PROVE  FALSE
        OBVIOUS
      <4>2. There(q) /\ q # p /\ at[q] # "waiting"
        BY <4>1, <2>4, <2>8, <1>3
      <4>3. rank[p] <= rank[q] /\ rank[q] <= rank[p] /\ There(p)
        BY <4>2, <2>1, <2>3, <1>1 DEF RankedBy, There
      <4>4. QED
        BY <4>2, <4>3, <2>1 DEF RankedBy
    <3>2. QED
      BY <3>1, <2>1, <2>2, <2>3, <2>4, <2>8
  <2>9. ASSUME NEW q \in Procs, There(q)', q # FirstShell
        PROVE  /\ parent'[q] \in Procs /\ at'[parent'[q]] = "waiting"
               /\ over[q] = over[parent'[q]] + 1
    <3>1. CASE q = child
      BY <3>1, <1>1, <1>3, <2>2
    <3>2. CASE q # child
      <4>1. There(q) /\ parent'[q] = parent[q]
        BY <3>2, <2>4, <2>9, <1>3
      <4>2. /\ parent[q] \in Procs /\ at[parent[q]] = "waiting"
            /\ rank[q] = rank[parent[q]] + 1
        BY <4>1, <2>1, <2>9 DEF RankedBy
      <4>3. parent[q] # child /\ parent[q] # p
        BY <4>2, <1>1
      <4>4. QED
        BY <4>1, <4>2, <4>3, <3>2, <2>2, <1>3
    <3>3. QED
      BY <3>1, <3>2
  <2>10. RankedBy(over)'
    BY <2>7, <2>8, <2>9 DEF RankedBy
  <2>11. QED
    BY <2>10, <2>2 DEF Stacked
<1>7. QED
  BY <1>2, <1>4, <1>5, <1>6

\* Fork: a child, or an exit.
LEMMA ForkKeeps ==
  ASSUME MyshInv, NEW p \in Procs, Fork(p)
  PROVE  MyshInv'
<1>1. CASE \E child \in Procs : ForksChild(p, child)
  BY <1>1, ForksChildKeeps
<1>2. CASE Exits(p, "forking") /\ UNCHANGED <<script, redi, fds, parent, corrupt, forks>>
  BY <1>2, ExitKeeps
<1>3. QED
  BY <1>1, <1>2, ForkCases

\* Opening a file and putting a descriptor on it.
LEMMA RedirectKeeps ==
  ASSUME MyshInv, NEW p \in Procs, Redirect(p)
  PROVE  MyshInv'
<1> USE DEF MyshInv
<1>1. /\ at[p] = "redirecting" /\ line[p] \in DOMAIN script
      /\ redi[p] \in Nat \ {0} /\ redi[p] <= getRedirectArgCount(Args(p))
  BY DEF Redirect, Redirecting, HasLine, MyshTypeOK
<1>2. UNCHANGED <<script, at, offset, line, upto, rewinds, parent, corrupt, forks>>
  BY DEF Redirect, input
<1>3. Args(p) \in Seq(Arguments)
  BY <1>1, LineType DEF Args
<1>4. redirectArg(Args(p), redi[p]) \in Arguments
  <2>1. /\ getCommandArgCount(Args(p)) \in Nat
        /\ Len(Args(p)) \in Nat
        /\ getCommandArgCount(Args(p)) + redi[p] \in 1 .. Len(Args(p))
    BY <1>1, <1>3, Counts DEF getRedirectArgCount
  <2>2. QED
    BY <2>1, <1>3 DEF redirectArg
<1>5. fds' \in [Procs -> [Descriptors -> Targets]]
  <2> DEFINE arg == redirectArg(Args(p), redi[p])
  <2>1. fds \in [Procs -> [Descriptors -> Targets]] /\ fds[p] \in [Descriptors -> Targets]
    BY DEF MyshTypeOK
  <2>2. CASE IsWord(arg)
    <3>1. PICK got \in DupGarbage(fds[p]) : fds' = [fds EXCEPT ![p] = got]
      BY <2>2 DEF Redirect
    <3>2. got \in [Descriptors -> Targets]
      BY <2>1, RedirectTypes
    <3>3. QED
      BY <3>1, <3>2, <2>1
  <2>3. CASE ~IsWord(arg)
    <3> DEFINE r == Redirection(arg.form)
               got == OpenedOn(fds[p], r.fileNum, Target(r.mode, r.skip, arg))
    <3>1. fds' = [fds EXCEPT ![p] = got]
      BY <2>3 DEF Redirect
    <3>2. arg.form \in RedirectForms
      BY <2>3 DEF IsWord
    <3>3. r.fileNum \in Descriptors /\ Target(r.mode, r.skip, arg) \in Targets
      BY <3>2, <1>4, TargetTypes
    <3>4. got \in [Descriptors -> Targets]
      BY <3>3, <2>1, RedirectTypes
    <3> HIDE DEF got
    <3>5. QED
      BY <3>1, <3>4, <2>1
  <2>4. QED
    BY <2>2, <2>3
<1>6. MyshTypeOK'
  <2>1. redi' \in [Procs -> Nat \ {0}]
    BY DEF Redirect, MyshTypeOK
  <2>2. QED
    BY <2>1, <1>2, <1>5 DEF MyshTypeOK
<1>7. HasLine' /\ FirstShellStays'
  BY <1>2 DEF HasLine, FirstShellStays
<1>8. Stacked'
  BY <1>2 DEF Stacked, RankedBy, There
<1>9. QED
  BY <1>6, <1>7, <1>8

\* Executing the command, or not.
LEMMA ExecKeeps ==
  ASSUME MyshInv, NEW p \in Procs, Exec(p)
  PROVE  MyshInv'
<1> USE DEF MyshInv
<1>1. PICK to \in {"running", "ended", "reading"} : Goes(p, "redirecting", to)
  BY DEF Exec
<1>2. UNCHANGED <<script, offset, line, upto, rewinds, redi, fds, parent, corrupt, forks>>
  BY DEF Exec, input
<1>3. GoesOn(p)
  BY <1>1, <1>2 DEF Goes, GoesOn, Phases
<1>4. MyshTypeOK'
  BY <1>1, <1>2 DEF Goes, MyshTypeOK, Phases
<1>5. HasLine' /\ FirstShellStays'
  BY <1>1, <1>2 DEF Goes, MyshTypeOK, HasLine, FirstShellStays
<1>6. QED
  BY <1>3, <1>4, <1>5, StackStays

\* The end of a command.
LEMMA RunCommandKeeps ==
  ASSUME MyshInv, NEW p \in Procs, RunCommand(p)
  PROVE  MyshInv'
<1> USE DEF MyshInv
<1>1. /\ Goes(p, "running", "ended")
      /\ UNCHANGED <<script, offset, line, upto, rewinds, redi, fds, parent, corrupt, forks>>
  BY DEF RunCommand, input
<1>2. GoesOn(p)
  BY <1>1 DEF Goes, GoesOn, Phases
<1>3. MyshTypeOK' /\ HasLine' /\ FirstShellStays'
  BY <1>1 DEF Goes, MyshTypeOK, Phases, HasLine, FirstShellStays
<1>4. QED
  BY <1>2, <1>3, StackStays

\* The child that a process waits for is the one above it, and the top.
Reaps(p, child, to) ==
  /\ at[p] = "waiting" /\ at[child] = "ended" /\ parent[child] = p
  /\ at' = [at EXCEPT ![child] = "none", ![p] = to]
  /\ line' = [line EXCEPT ![child] = 0]
  /\ upto' = [upto EXCEPT ![child] = 0]
  /\ redi' = [redi EXCEPT ![child] = 1]
  /\ fds' = [fds EXCEPT ![child] = [d \in Descriptors |-> Terminal]]
  /\ parent' = [parent EXCEPT ![child] = 0]
  /\ corrupt' = [corrupt EXCEPT ![child] = FALSE]
  /\ UNCHANGED <<script, offset, rewinds, forks>>

\* A wait takes an ended child off the table.
LEMMA WaitCases ==
  ASSUME NEW p \in Procs, Wait(p)
  PROVE  \E child \in Procs : \/ Reaps(p, child, "reading")
                              \/ Reaps(p, child, "ended") /\ corrupt[p]
  BY DEF Wait, Reaps

\* The process goes on, on top of the stack.
LEMMA ReapsKeeps ==
  ASSUME MyshInv, NEW p \in Procs, NEW child \in Procs, NEW to \in {"reading", "ended"},
         Reaps(p, child, to)
  PROVE  MyshInv'
<1> USE DEF MyshInv
<1>1. /\ at \in [Procs -> Phases] /\ line \in [Procs -> Nat] /\ parent \in [Procs -> Procs \cup {0}]
      /\ at[p] = "waiting" /\ at[child] = "ended" /\ p # child /\ parent[child] = p
      /\ child # FirstShell
  BY ProcsFacts DEF MyshTypeOK, Reaps, FirstShellStays
<1>2. MyshTypeOK'
  <2>1. at' \in [Procs -> Phases]
    BY <1>1 DEF Reaps, Phases
  <2>2. /\ line' \in [Procs -> Nat] /\ upto' \in [Procs -> Nat] /\ redi' \in [Procs -> Nat \ {0}]
    BY DEF Reaps, MyshTypeOK
  <2>3. [d \in Descriptors |-> Terminal] \in [Descriptors -> Targets]
    BY TargetTypes
  <2>4. fds' \in [Procs -> [Descriptors -> Targets]]
    BY <2>3 DEF Reaps, MyshTypeOK
  <2>5. corrupt' \in [Procs -> BOOLEAN]
    BY Zenon DEF Reaps, MyshTypeOK
  <2>6. parent' \in [Procs -> Procs \cup {0}]
    BY <1>1 DEF Reaps
  <2>7. UNCHANGED <<script, offset, rewinds, forks>>
    BY DEF Reaps
  <2>8. QED
    BY <2>1, <2>2, <2>4, <2>5, <2>6, <2>7 DEF MyshTypeOK
<1>3. /\ at'[p] = to /\ at'[child] = "none"
      /\ \A q \in Procs : q # p /\ q # child => at'[q] = at[q]
      /\ \A q \in Procs : q # child => parent'[q] = parent[q] /\ line'[q] = line[q]
  BY <1>1 DEF Reaps
<1>4. HasLine'
  BY <1>1, <1>3 DEF HasLine, Reaps
<1>5. FirstShellStays'
  BY <1>1, <1>3, ProcsFacts DEF FirstShellStays
<1>6. Stacked'
  <2>1. PICK rank \in [Procs -> Nat] : RankedBy(rank)
    BY DEF Stacked
  <2>2. There(child) /\ There(p) /\ rank[child] = rank[p] + 1
    BY <2>1, <1>1 DEF RankedBy, There
  <2>3. \A q \in Procs : There(q) => rank[q] <= rank[child] /\ (rank[q] = rank[child] => q = child)
    BY <2>1, <2>2, <1>1 DEF RankedBy
  <2>4. \A q \in Procs : There(q)' <=> There(q) /\ q # child
    BY <1>1, <1>3 DEF There
  <2>5. \A q \in Procs : There(q)' => rank[q] <= rank[p]
    BY <2>1, <2>2, <2>3, <2>4
  <2>6. ASSUME NEW q \in Procs, NEW r \in Procs, There(q)', There(r)', rank[q] = rank[r]
        PROVE  q = r
    BY <2>1, <2>4, <2>6 DEF RankedBy
  <2>7. ASSUME NEW q \in Procs, NEW r \in Procs, There(q)', There(r)', at'[q] # "waiting"
        PROVE  rank[r] <= rank[q]
    <3>1. q = p
      <4>1. SUFFICES ASSUME q # p
                     PROVE  FALSE
        OBVIOUS
      <4>2. There(q) /\ q # child /\ at[q] # "waiting"
        BY <4>1, <2>4, <2>7, <1>3
      <4>3. rank[child] <= rank[q]
        BY <4>2, <2>1, <2>2 DEF RankedBy
      <4>4. QED
        BY <4>2, <4>3, <2>1, <2>3
    <3>2. QED
      BY <3>1, <2>5, <2>7
  <2>8. ASSUME NEW q \in Procs, There(q)', q # FirstShell
        PROVE  /\ parent'[q] \in Procs /\ at'[parent'[q]] = "waiting"
               /\ rank[q] = rank[parent'[q]] + 1
    <3>1. There(q) /\ q # child /\ parent'[q] = parent[q]
      BY <2>4, <2>8, <1>3
    <3>2. /\ parent[q] \in Procs /\ at[parent[q]] = "waiting"
          /\ rank[q] = rank[parent[q]] + 1
      BY <3>1, <2>1, <2>8 DEF RankedBy
    <3>3. parent[q] # child /\ parent[q] # p
      BY <3>1, <3>2, <2>2, <2>3, <1>1
    <3>4. QED
      BY <3>1, <3>2, <3>3, <1>3
  <2>9. RankedBy(rank)'
    BY <2>6, <2>7, <2>8 DEF RankedBy
  <2>10. QED
    BY <2>9 DEF Stacked
<1>7. QED
  BY <1>2, <1>4, <1>5, <1>6

\* Every step keeps the invariant.
LEMMA MyshStep == MyshInv /\ [Next]_vars => MyshInv'
<1> SUFFICES ASSUME MyshInv, [Next]_vars
             PROVE  MyshInv'
  OBVIOUS
<1>1. ASSUME NEW p \in Procs, Step(p)
      PROVE  MyshInv'
  <2>1. CASE OpenScript(p)
    BY <2>1, OpenScriptKeeps
  <2>2. CASE ReadLine(p)
    BY <2>2, ReadLineKeeps
  <2>3. CASE Build(p)
    BY <2>3, BuildKeeps
  <2>4. CASE Fork(p)
    BY <2>4, ForkKeeps
  <2>5. CASE Redirect(p)
    BY <2>5, RedirectKeeps
  <2>6. CASE OpenFails(p) \/ ReallocFails(p)
    BY <2>6, ExitKeeps DEF OpenFails, ReallocFails
  <2>7. CASE Exec(p)
    BY <2>7, ExecKeeps
  <2>8. CASE RunCommand(p)
    BY <2>8, RunCommandKeeps
  <2>9. CASE Wait(p)
    BY <2>9, WaitCases, ReapsKeeps
  <2>10. QED
    BY <1>1, <2>1, <2>2, <2>3, <2>4, <2>5, <2>6, <2>7, <2>8, <2>9 DEF Step
<1>2. CASE UNCHANGED vars
  <2>1. UNCHANGED <<script, at, offset, line, upto, rewinds, redi, fds, parent, corrupt, forks>>
    BY <1>2 DEF vars, input
  <2>2. MyshTypeOK' /\ HasLine' /\ FirstShellStays'
    BY <2>1 DEF MyshInv, MyshTypeOK, HasLine, FirstShellStays
  <2>3. Stacked'
    BY <2>1 DEF MyshInv, Stacked, RankedBy, There
  <2>4. QED
    BY <2>2, <2>3 DEF MyshInv
<1>3. QED
  BY <1>1, <1>2 DEF Next

\* The processes are a stack at all times, whatever forks, opens and execs fail
\* (main.c:102-166).
THEOREM MyshInvariance == Spec => []MyshInv
<1>1. QED
  BY MyshInit, MyshStep, PTL DEF Spec

\* Of all the processes, the shells that failed execs left behind among them,
\* at most one goes on at a time (main.c:157-166).
THEOREM OneLineAtATime == Spec => []OneAtATime
<1>1. MyshInv => OneAtATime
  BY OneOnTop DEF OneAtATime
<1>2. QED
  BY <1>1, MyshInvariance, PTL

-----------------------------------------------------------------------------
(***************************************************************************)
(* Redirections.  A child has opened the first of the redirections of its  *)
(* line, and its descriptors are as these ask.                             *)
(***************************************************************************)
\* The redirections of a standard descriptor among the first m arguments.
AskedFor(args, m, d) ==
  {k \in 1 .. m : ~IsWord(args[k]) /\ Asked(args[k]).fileNum = d}

AsAsked(args, m, was, now) ==
  \A d \in Descriptors :
    IF AskedFor(args, m, d) = {}
    THEN now[d] = was[d]
    ELSE \E k \in AskedFor(args, m, d) : /\ \A l \in AskedFor(args, m, d) : l <= k
                                         /\ now[d] = Asked(args[k]).target

NoneClosed(was) == \A d \in Descriptors : was[d] # Closed

\* Where child p is on its line.
Place(p) == getCommandArgCount(Args(p)) + redi[p] - 1

RedirectedSoFar(p) ==
  at[p] \in {"redirecting", "running"} /\ Plain(Args(p)) /\ NoneClosed(fds[parent[p]]) =>
    /\ Place(p) <= Len(Args(p))
    /\ at[p] = "running" => Place(p) = Len(Args(p))
    /\ AsAsked(Args(p), Place(p), fds[parent[p]], fds[p])

Redirected == \A p \in Procs : RedirectedSoFar(p)

\* The words of a plain line come first.
LEMMA PlainWords ==
  ASSUME NEW args \in Seq(Arguments), Plain(args), NEW k \in DOMAIN args
  PROVE  IsWord(args[k]) <=> k <= getCommandArgCount(args)
<1> DEFINE W == {j \in DOMAIN args : IsWord(args[j])}
<1>1. Len(args) \in Nat /\ DOMAIN args = 1 .. Len(args) /\ k \in Nat
  OBVIOUS
<1>2. /\ IsFiniteSet(1 .. Len(args)) /\ IsFiniteSet(1 .. k) /\ IsFiniteSet(1 .. k - 1)
      /\ Cardinality(1 .. k) = k /\ Cardinality(1 .. k - 1) = k - 1
  <2>1. 1 \in Int /\ k \in Int /\ k - 1 \in Int /\ Len(args) \in Int /\ k >= 1
    BY <1>1
  <2>2. /\ IsFiniteSet(1 .. k) /\ Cardinality(1 .. k) = k
    BY <2>1, FS_Interval
  <2>3. /\ IsFiniteSet(1 .. k - 1) /\ Cardinality(1 .. k - 1) = k - 1
    BY <2>1, FS_Interval
  <2>4. IsFiniteSet(1 .. Len(args))
    BY <2>1, FS_Interval
  <2>5. QED
    BY <2>2, <2>3, <2>4
<1>3. IsFiniteSet(W) /\ Cardinality(W) \in Nat
  BY <1>1, <1>2, FS_Subset, FS_CardinalityType
<1>4. CASE IsWord(args[k])
  <2>1. 1 .. k \subseteq W
    BY <1>1, <1>4 DEF Plain
  <2>2. k <= Cardinality(W)
    BY <2>1, <1>2, <1>3, FS_Subset
  <2>3. QED
    BY <2>2, <1>4 DEF getCommandArgCount
<1>5. CASE ~IsWord(args[k])
  <2>1. W \subseteq 1 .. k - 1
    BY <1>1, <1>5 DEF Plain
  <2>2. Cardinality(W) <= k - 1
    BY <2>1, <1>2, <1>3, FS_Subset
  <2>3. QED
    BY <2>2, <1>1, <1>3, <1>5 DEF getCommandArgCount
<1>6. QED
  BY <1>4, <1>5

\* The branches do what their comments say, except the one for 2>> (main.c:111-143).
LEMMA BranchesDoAsAsked ==
  ASSUME NEW arg \in Arguments, ~IsWord(arg), arg.form # "2>>"
  PROVE  LET r == Redirection(arg.form)
         IN  /\ Asked(arg) = [fileNum |-> r.fileNum, target |-> Target(r.mode, r.skip, arg)]
             /\ r.fileNum \in Descriptors
             /\ Target(r.mode, r.skip, arg) # Closed
             /\ Target(r.mode, r.skip, arg) \in Targets
<1>1. arg.form \in {"<", ">", ">>", "2>"}
  BY DEF IsWord, RedirectForms
<1>2. /\ Redirection(arg.form).fileNum \in Descriptors
      /\ Target(Redirection(arg.form).mode, Redirection(arg.form).skip, arg) \in Targets
  BY <1>1, TargetTypes DEF RedirectForms
<1>3. CASE arg.form = "<"
  BY <1>2, <1>3 DEF Asked, Redirection, Target, Closed
<1>4. CASE arg.form = ">"
  BY <1>2, <1>4 DEF Asked, Redirection, Target, Closed
<1>5. CASE arg.form = ">>"
  BY <1>2, <1>5 DEF Asked, Redirection, Target, Closed
<1>6. CASE arg.form = "2>"
  BY <1>2, <1>6 DEF Asked, Redirection, Target, Closed
<1>7. QED
  BY <1>1, <1>3, <1>4, <1>5, <1>6

\* One redirection more.
LEMMA OneMore ==
  ASSUME NEW args \in Seq(Arguments), Plain(args),
         NEW m \in Nat, m + 1 \in DOMAIN args, ~IsWord(args[m + 1]),
         NEW was \in [Descriptors -> Targets], NoneClosed(was),
         NEW now \in [Descriptors -> Targets], AsAsked(args, m, was, now)
  PROVE  LET arg == args[m + 1]
             r == Redirection(arg.form)
         IN  AsAsked(args, m + 1, was, OpenedOn(now, r.fileNum, Target(r.mode, r.skip, arg)))
<1> DEFINE arg == args[m + 1]
           r == Redirection(arg.form)
           target == Target(r.mode, r.skip, arg)
           next == OpenedOn(now, r.fileNum, target)
<1>1. Len(args) \in Nat /\ DOMAIN args = 1 .. Len(args) /\ \A k \in DOMAIN args : args[k] \in Arguments
  OBVIOUS
<1>2. \A k \in DOMAIN args : args[k].form # "2>>"
  BY DEF Plain
<1>3. /\ Asked(arg).fileNum = r.fileNum /\ Asked(arg).target = target
      /\ r.fileNum \in Descriptors
  BY <1>1, <1>2, BranchesDoAsAsked
<1>4. \A d \in Descriptors : now[d] # Closed
  <2> SUFFICES ASSUME NEW d \in Descriptors
               PROVE  now[d] # Closed
    OBVIOUS
  <2>1. CASE AskedFor(args, m, d) = {}
    BY <2>1 DEF AsAsked, NoneClosed
  <2>2. CASE AskedFor(args, m, d) # {}
    <3>1. PICK k \in AskedFor(args, m, d) : now[d] = Asked(args[k]).target
      BY <2>2 DEF AsAsked
    <3>2. k \in DOMAIN args /\ ~IsWord(args[k])
      BY <3>1, <1>1 DEF AskedFor
    <3>3. Asked(args[k]).target # Closed
      BY <3>2, <1>1, <1>2, BranchesDoAsAsked
    <3>4. QED
      BY <3>1, <3>3
  <2>3. QED
    BY <2>1, <2>2
<1>5. /\ next[r.fileNum] = target
      /\ \A d \in Descriptors : d # r.fileNum => next[d] = now[d]
  BY <1>3, <1>4 DEF OpenedOn
<1> HIDE DEF next, target, r
<1>6. ASSUME NEW d \in Descriptors
      PROVE  IF AskedFor(args, m + 1, d) = {}
             THEN next[d] = was[d]
             ELSE \E k \in AskedFor(args, m + 1, d) : /\ \A l \in AskedFor(args, m + 1, d) : l <= k
                                                      /\ next[d] = Asked(args[k]).target
  <2>1. CASE d = r.fileNum
    <3>1. /\ m + 1 \in AskedFor(args, m + 1, d)
          /\ \A l \in AskedFor(args, m + 1, d) : l <= m + 1
      BY <2>1, <1>3 DEF AskedFor
    <3>2. next[d] = Asked(args[m + 1]).target
      BY <2>1, <1>3, <1>5
    <3>3. QED
      BY <3>1, <3>2
  <2>2. CASE d # r.fileNum
    <3>1. AskedFor(args, m + 1, d) = AskedFor(args, m, d)
      BY <2>2, <1>3 DEF AskedFor
    <3>2. next[d] = now[d]
      BY <2>2, <1>5
    <3>3. QED
      BY <3>1, <3>2 DEF AsAsked
  <2>3. QED
    BY <2>1, <2>2
<1>7. AsAsked(args, m + 1, was, next)
  BY <1>6 DEF AsAsked
<1>8. QED
  BY <1>7 DEF next, target, r

\* A child starts with the descriptors of its parent.
LEMMA ForkRedirected ==
  ASSUME MyshInv, Redirected, NEW p \in Procs, NEW child \in Procs, ForksChild(p, child)
  PROVE  Redirected'
<1>1. /\ at \in [Procs -> Phases] /\ line \in [Procs -> Nat] /\ parent \in [Procs -> Procs \cup {0}]
      /\ redi \in [Procs -> Nat \ {0}] /\ fds \in [Procs -> [Descriptors -> Targets]]
      /\ at[p] = "forking" /\ at[child] = "none" /\ p # child /\ line[p] \in DOMAIN script
  BY DEF MyshInv, MyshTypeOK, HasLine, ForksChild
<1>2. /\ at'[p] = "waiting" /\ at'[child] = "redirecting"
      /\ \A q \in Procs : q # p /\ q # child => at'[q] = at[q]
      /\ parent'[child] = p /\ line'[child] = line[p] /\ redi'[child] = 1
      /\ fds'[child] = fds[p] /\ fds'[p] = fds[p] /\ script' = script
  BY <1>1 DEF ForksChild
<1>3. ASSUME NEW q \in Procs, at'[q] \in {"redirecting", "running"}
      PROVE  q = child
  <2>1. q # p
    BY <1>2, <1>3
  <2>2. at[q] \in {"redirecting", "running"} => q = p
    BY <1>1, OneOnTop
  <2>3. QED
    BY <2>1, <2>2, <1>2, <1>3
<1>4. Args(child)' = Args(p) /\ Args(p) \in Seq(Arguments)
  BY <1>1, <1>2, LineType DEF Args, MyshInv
<1>5. RedirectedSoFar(child)'
  <2> SUFFICES ASSUME Plain(Args(p))
               PROVE  /\ Place(child)' <= Len(Args(p))
                      /\ AsAsked(Args(p), Place(child)', fds[p], fds[p])
    BY <1>2, <1>4 DEF RedirectedSoFar
  <2>1. /\ getCommandArgCount(Args(p)) \in 0 .. Len(Args(p)) /\ Len(Args(p)) \in Nat
    BY <1>4, Counts
  <2>2. Place(child)' = getCommandArgCount(Args(p))
    BY <2>1, <1>2, <1>4 DEF Place
  <2>3. \A d \in Descriptors : AskedFor(Args(p), getCommandArgCount(Args(p)), d) = {}
    <3>1. \A k \in 1 .. getCommandArgCount(Args(p)) : k \in DOMAIN Args(p)
      BY <2>1, <1>4
    <3>2. \A k \in 1 .. getCommandArgCount(Args(p)) : IsWord(Args(p)[k])
      BY <3>1, <1>4, <2>1, PlainWords
    <3>3. QED
      BY <3>2 DEF AskedFor
  <2>4. QED
    BY <2>1, <2>2, <2>3 DEF AsAsked
<1>6. QED
  BY <1>3, <1>5 DEF Redirected, RedirectedSoFar

\* A child opens the redirection it has come to.
LEMMA RedirectRedirected ==
  ASSUME MyshInv, Redirected, NEW p \in Procs, Redirect(p)
  PROVE  Redirected'
<1>1. /\ fds \in [Procs -> [Descriptors -> Targets]] /\ redi \in [Procs -> Nat \ {0}]
      /\ at[p] = "redirecting" /\ line[p] \in DOMAIN script
      /\ redi[p] <= getRedirectArgCount(Args(p))
      /\ UNCHANGED <<script, at, line, parent>>
      /\ redi' = [redi EXCEPT ![p] = @ + 1]
  BY DEF MyshInv, MyshTypeOK, HasLine, Redirect, Redirecting, input
<1>2. Args(p)' = Args(p) /\ Args(p) \in Seq(Arguments)
  BY <1>1, LineType DEF Args, MyshInv
<1>3. p # FirstShell /\ at[parent[p]] = "waiting" /\ parent[p] \in Procs /\ parent[p] # p
  BY <1>1 DEF MyshInv, FirstShellStays, Stacked, RankedBy, There
<1>4. ASSUME NEW q \in Procs, at'[q] \in {"redirecting", "running"}
      PROVE  q = p
  BY <1>1, <1>4, OneOnTop
<1>5. fds'[parent[p]] = fds[parent[p]]
  <2>1. PICK got : fds' = [fds EXCEPT ![p] = got]
    BY DEF Redirect
  <2>2. QED
    BY <2>1, <1>1, <1>3
<1>6. RedirectedSoFar(p)'
  <2> SUFFICES ASSUME Plain(Args(p)), NoneClosed(fds[parent[p]])
               PROVE  /\ Place(p)' <= Len(Args(p))
                      /\ AsAsked(Args(p), Place(p)', fds[parent[p]], fds'[p])
    BY <1>1, <1>2, <1>5 DEF RedirectedSoFar
  <2>1. /\ getCommandArgCount(Args(p)) \in 0 .. Len(Args(p)) /\ Len(Args(p)) \in Nat
        /\ redi[p] \in Nat \ {0} /\ redi'[p] = redi[p] + 1
    BY <1>1, <1>2, Counts
  <2>2. /\ Place(p)' = Place(p) + 1 /\ Place(p) \in Nat /\ Place(p) + 1 <= Len(Args(p))
        /\ Place(p) + 1 = getCommandArgCount(Args(p)) + redi[p]
    <3>1. Place(p)' = getCommandArgCount(Args(p)) + redi'[p] - 1
      BY <1>2 DEF Place
    <3>2. redi[p] <= Len(Args(p)) - getCommandArgCount(Args(p))
      BY <1>1 DEF getRedirectArgCount
    <3>3. QED
      BY <3>1, <3>2, <2>1 DEF Place
  <2>3. Place(p) + 1 \in DOMAIN Args(p) /\ ~(Place(p) + 1 <= getCommandArgCount(Args(p)))
    BY <2>1, <2>2, <1>2
  <2>4. ~IsWord(Args(p)[Place(p) + 1])
    BY <2>3, <1>2, PlainWords
  <2>5. AsAsked(Args(p), Place(p), fds[parent[p]], fds[p])
    BY <1>1 DEF Redirected, RedirectedSoFar
  <2>6. redirectArg(Args(p), redi[p]) = Args(p)[Place(p) + 1]
    BY <2>2 DEF redirectArg
  <2>7. LET arg == Args(p)[Place(p) + 1]
            r == Redirection(arg.form)
        IN  fds'[p] = OpenedOn(fds[p], r.fileNum, Target(r.mode, r.skip, arg))
    BY <2>4, <2>6, <1>1 DEF Redirect
  <2>8. fds[p] \in [Descriptors -> Targets] /\ fds[parent[p]] \in [Descriptors -> Targets]
    BY <1>1, <1>3
  <2>9. AsAsked(Args(p), Place(p) + 1, fds[parent[p]], fds'[p])
    BY <2>2, <2>3, <2>4, <2>5, <2>7, <2>8, <1>2, OneMore
  <2>10. QED
    BY <2>2, <2>9
<1>7. QED
  BY <1>4, <1>6 DEF Redirected, RedirectedSoFar

\* The command is executed when the last redirection is open.
LEMMA ExecRedirected ==
  ASSUME MyshInv, Redirected, NEW p \in Procs, Exec(p)
  PROVE  Redirected'
<1>1. /\ at \in [Procs -> Phases] /\ redi \in [Procs -> Nat \ {0}]
      /\ at[p] = "redirecting" /\ line[p] \in DOMAIN script
      /\ redi[p] > getRedirectArgCount(Args(p))
      /\ UNCHANGED <<script, line, redi, fds, parent>>
  BY DEF MyshInv, MyshTypeOK, HasLine, Exec, input
<1>2. /\ at'[p] \in {"running", "ended", "reading"}
      /\ \A q \in Procs : q # p => at'[q] = at[q]
  BY <1>1 DEF Exec, Goes
<1>3. Args(p)' = Args(p) /\ Args(p) \in Seq(Arguments)
  BY <1>1, LineType DEF Args, MyshInv
<1>4. ASSUME NEW q \in Procs, at'[q] \in {"redirecting", "running"}
      PROVE  q = p
  BY <1>1, <1>2, <1>4, OneOnTop
<1>5. RedirectedSoFar(p)'
  <2> SUFFICES ASSUME Plain(Args(p)), NoneClosed(fds[parent[p]])
               PROVE  /\ Place(p) = Len(Args(p))
                      /\ Len(Args(p)) <= Len(Args(p))
                      /\ AsAsked(Args(p), Place(p), fds[parent[p]], fds[p])
    BY <1>1, <1>3 DEF RedirectedSoFar, Place
  <2>1. /\ Place(p) <= Len(Args(p))
        /\ AsAsked(Args(p), Place(p), fds[parent[p]], fds[p])
    BY <1>1 DEF Redirected, RedirectedSoFar
  <2>2. /\ getCommandArgCount(Args(p)) \in Nat /\ Len(Args(p)) \in Nat /\ redi[p] \in Nat
    BY <1>1, <1>3, Counts
  <2>3. Place(p) = Len(Args(p))
    BY <2>1, <2>2, <1>1 DEF Place, getRedirectArgCount
  <2>4. QED
    BY <2>1, <2>2, <2>3
<1>6. QED
  BY <1>4, <1>5 DEF Redirected, RedirectedSoFar

\* In the other steps no process redirects or runs, before or after.
LEMMA OthersRedirected ==
  ASSUME MyshInv, Redirected, NEW p \in Procs,
         \/ OpenScript(p) \/ ReadLine(p) \/ Build(p) \/ ReallocFails(p) \/ Fork(p)
         \/ OpenFails(p) \/ RunCommand(p) \/ Wait(p),
         ~ \E child \in Procs : ForksChild(p, child)
  PROVE  Redirected'
<1> SUFFICES ASSUME NEW q \in Procs, at'[q] \in {"redirecting", "running"}
             PROVE  FALSE
  BY DEF Redirected, RedirectedSoFar
<1>1. at \in [Procs -> Phases]
  BY DEF MyshInv, MyshTypeOK
<1>2. CASE Wait(p)
  <2>1. PICK child \in Procs : at[child] = "ended" /\ \E to \in {"reading", "ended"} : Reaps(p, child, to)
    BY <1>2, WaitCases DEF Reaps
  <2>2. q # child /\ at[q] \in {"redirecting", "running"}
    BY <2>1, <1>1 DEF Reaps
  <2>3. QED
    BY <2>1, <2>2, OneOnTop
<1>3. CASE ~Wait(p)
  <2>1. /\ at[p] \notin {"none", "waiting"}
        /\ \E to \in {"reading", "building", "forking", "ended"} : at' = [at EXCEPT ![p] = to]
    <3>1. CASE Fork(p)
      <4>1. Exits(p, "forking")
        BY <3>1, ForkCases
      <4>2. QED
        BY <4>1 DEF Exits, Goes
    <3>2. CASE OpenFails(p) \/ ReallocFails(p)
      BY <3>2 DEF OpenFails, ReallocFails, Exits, Goes
    <3>3. CASE ReadLine(p)
      BY <3>3 DEF ReadLine, Goes
    <3>4. QED
      BY <3>1, <3>2, <3>3, <1>3 DEF OpenScript, Build, RunCommand, Goes
  <2>2. q # p /\ at[q] \in {"redirecting", "running"}
    BY <2>1, <1>1
  <2>3. QED
    BY <2>1, <2>2, OneOnTop
<1>4. QED
  BY <1>2, <1>3

\* The descriptors of every child are, at all times, as the redirections ask it
\* has come past (main.c:108-149).
LEMMA RedirectedInvariance == Spec => []Redirected
<1>1. Init => Redirected
  BY DEF Init, Redirected, RedirectedSoFar
<1>2. MyshInv /\ Redirected /\ [Next]_vars => Redirected'
  <2> SUFFICES ASSUME MyshInv, Redirected, [Next]_vars
               PROVE  Redirected'
    OBVIOUS
  <2>1. ASSUME NEW p \in Procs, Step(p)
        PROVE  Redirected'
    <3>1. CASE \E child \in Procs : ForksChild(p, child)
      BY <3>1, ForkRedirected
    <3>2. CASE Redirect(p)
      BY <3>2, RedirectRedirected
    <3>3. CASE Exec(p)
      BY <3>3, ExecRedirected
    <3>4. QED
      BY <2>1, <3>1, <3>2, <3>3, OthersRedirected DEF Step
  <2>2. CASE UNCHANGED vars
    <3>1. UNCHANGED <<script, at, line, redi, fds, parent>>
      BY <2>2 DEF vars, input
    <3>2. QED
      BY <3>1 DEF Redirected, RedirectedSoFar, Place, Args
  <2>3. QED
    BY <2>1, <2>2 DEF Next
<1>3. QED
  BY <1>1, <1>2, MyshInvariance, PTL DEF Spec

\* Every command of a plain line, forked by a shell with all descriptors open,
\* runs with its descriptors on the last files that its line redirects them to
\* (main.c:108-155).
THEOREM CommandsRunRedirected == Spec => []RedirectsAsAsked
<1>1. MyshInv /\ Redirected => RedirectsAsAsked
  <2> SUFFICES ASSUME MyshInv, Redirected, NEW p \in Procs, at[p] = "running", Plain(Args(p)),
                      \A d \in Descriptors : fds[parent[p]][d] # Closed, NEW d \in Descriptors
               PROVE  LET asked == {k \in DOMAIN Args(p) :
                                      ~IsWord(Args(p)[k]) /\ Asked(Args(p)[k]).fileNum = d}
                      IN  IF asked = {}
                          THEN fds[p][d] = fds[parent[p]][d]
                          ELSE \E k \in asked : /\ \A m \in asked : m <= k
                                                /\ fds[p][d] = Asked(Args(p)[k]).target
    BY DEF RedirectsAsAsked
  <2>1. Args(p) \in Seq(Arguments)
    BY LineType DEF Args, MyshInv, HasLine
  <2>2. AsAsked(Args(p), Len(Args(p)), fds[parent[p]], fds[p])
    BY DEF Redirected, RedirectedSoFar, NoneClosed
  <2>3. AskedFor(Args(p), Len(Args(p)), d)
          = {k \in DOMAIN Args(p) : ~IsWord(Args(p)[k]) /\ Asked(Args(p)[k]).fileNum = d}
    BY <2>1 DEF AskedFor
  <2>4. QED
    BY <2>2, <2>3 DEF AsAsked
<1>2. QED
  BY <1>1, MyshInvariance, RedirectedInvariance, PTL

-----------------------------------------------------------------------------
(***************************************************************************)
(* How often a line is executed.  A shell comes to line n once, and each   *)
(* set of the lines before it that cannot be executed stands for one       *)
(* shell: the one that was left behind at the lines of the set.            *)
(***************************************************************************)
CannotRun(m) == script[m] # <<>> /\ ~IsComment(script[m]) /\ ~Executable(script[m])

CannotRunIn(l, n) == {m \in l .. n - 1 : CannotRun(m)}

\* How many sets of elements of S there are.
Choices(S) == Cardinality(SUBSET S)

\* The shells that come to line n when one shell is about to deal with line l.
Ways(l, n) == IF l <= n THEN Choices(CannotRunIn(l, n)) ELSE 0

\* A process deals with its line, or has finished with it and goes on.
Deals(p) == at[p] \in {"building", "forking"}

GoesFurther(p) ==
  \/ at[p] = "waiting"
  \/ at[p] = "reading" /\ line[p] < upto[p]
  \/ at[p] = "redirecting" /\ ~Executable(Args(p))

\* The executions of line n that process p has before it, in its buffer.
ToCome(p, n) ==
  IF Deals(p) THEN Ways(line[p], n)
  ELSE IF GoesFurther(p) THEN Ways(line[p] + 1, n)
  ELSE 0

\* Those there may be at all, without those still in the file.
Room(n) == (1 + rewinds) * Ways(1, n) - Ways(offset + 1, n)

\* acc[p]: the executions of line n that the processes below p have before them.
Counted(n, acc) ==
  /\ \A p \in Procs : There(p) /\ p # FirstShell => acc[p] = acc[parent[p]] + ToCome(parent[p], n)
  /\ \A p \in Procs : There(p) /\ at[p] # "waiting" => forks[n] + acc[p] + ToCome(p, n) <= Room(n)

\* A line that is forked for has a command.
HasCommand ==
  \A p \in Procs :
    /\ at[p] \in {"building", "forking"} => ~IsComment(Args(p))
    /\ at[p] = "forking" => Args(p) # <<>>

\* A shell that opens the script has nothing in its buffer.
OpensFirst == \A p \in Procs : at[p] = "opening" => line[p] = upto[p]

Budget ==
  /\ HasCommand
  /\ OpensFirst
  /\ \E p \in Procs : There(p) /\ at[p] # "waiting"
  /\ \A n \in DOMAIN script : \E acc \in [Procs -> Nat] : Counted(n, acc)

\* There are as many choices as powers of two, and no more from fewer elements.
LEMMA ChoicesFacts ==
  ASSUME NEW S, IsFiniteSet(S)
  PROVE  /\ Choices(S) \in Nat
         /\ Choices(S) = 2 ^ Cardinality(S)
         /\ \A T \in SUBSET S : Choices(T) <= Choices(S)
         /\ S = {} => Choices(S) = 1
<1>1. IsFiniteSet(SUBSET S) /\ Cardinality(SUBSET S) = 2 ^ Cardinality(S)
  BY FS_SUBSET
<1>2. Cardinality(SUBSET S) \in Nat
  BY <1>1, FS_CardinalityType
<1>3. ASSUME NEW T \in SUBSET S
      PROVE  Cardinality(SUBSET T) <= Cardinality(SUBSET S)
  <2>1. (SUBSET T) \in SUBSET (SUBSET S)
    OBVIOUS
  <2>2. QED
    BY <2>1, <1>1, FS_Subset
<1>4. S = {} => Cardinality(SUBSET S) = 1
  <2>1. S = {} => SUBSET S = {{}}
    OBVIOUS
  <2>2. Cardinality({{}}) = 1
    BY FS_Singleton
  <2>3. QED
    BY <2>1, <2>2, Zenon
<1>5. QED
  BY <1>1, <1>2, <1>3, <1>4, Zenon DEF Choices

\* One element more doubles the choices.
LEMMA Doubles ==
  ASSUME NEW S, IsFiniteSet(S), NEW x, x \notin S
  PROVE  Choices(S \cup {x}) = 2 * Choices(S)
<1> DEFINE D == SUBSET S
           T == {A \cup {x} : A \in D}
           f == [A \in D |-> A \cup {x}]
<1>1. IsFiniteSet(D)
  BY FS_SUBSET
<1>2. f \in Bijection(D, T)
  <2>1. f \in [D -> T]
    OBVIOUS
  <2>2. \A A, B \in D : f[A] = f[B] => A = B
    OBVIOUS
  <2>3. \A t \in T : \E A \in D : f[A] = t
    OBVIOUS
  <2> HIDE DEF f, T, D
  <2>4. DOMAIN f = D
    BY <2>1
  <2>5. IsInjective(f)
    BY <2>2, <2>4 DEF IsInjective
  <2>6. QED
    BY <2>1, <2>3, <2>5, Zenon DEF Bijection, Injection, Surjection
<1>4. SUBSET (S \cup {x}) = D \cup T
  <2>1. ASSUME NEW B \in SUBSET (S \cup {x})
        PROVE  B \in D \cup T
    <3>1. CASE x \in B
      <4>1. B \ {x} \in D /\ B = (B \ {x}) \cup {x}
        BY <3>1
      <4>2. QED
        BY <4>1
    <3>2. CASE x \notin B
      BY <3>2
    <3>3. QED
      BY <3>1, <3>2
  <2>2. QED
    BY <2>1
<1>5. D \cap T = {}
  OBVIOUS
<1> HIDE DEF f, T, D
<1>3. IsFiniteSet(T) /\ Cardinality(T) = Cardinality(D)
  BY <1>1, <1>2, FS_Bijection, Zenon DEF ExistsBijection
<1>6. Cardinality(D \cap T) = 0
  BY <1>5, FS_EmptySet
<1>7. Cardinality(D) \in Nat
  BY <1>1, FS_CardinalityType
<1>8. Cardinality(D \cup T) = Cardinality(D) + Cardinality(T) - Cardinality(D \cap T)
  BY <1>1, <1>3, FS_Union
<1>9. Cardinality(D \cup T) = 2 * Cardinality(D)
  BY <1>3, <1>6, <1>7, <1>8
<1>10. Choices(S \cup {x}) = Cardinality(D \cup T)
  BY <1>4, Zenon DEF Choices
<1>11. Choices(S) = Cardinality(D)
  BY DEF Choices, D
<1>12. QED
  BY <1>9, <1>10, <1>11

\* Ways from one line and from the next.
LEMMA WaysFacts ==
  ASSUME NEW n \in Nat \ {0}, NEW l \in Nat \ {0}
  PROVE  /\ Ways(l, n) \in Nat
         /\ Ways(l, n) <= Ways(1, n)
         /\ Ways(l + 1, n) <= Ways(l, n)
         /\ l < n /\ CannotRun(l) => Ways(l, n) = 2 * Ways(l + 1, n)
         /\ l = n => Ways(l, n) = 1
         /\ l > n => Ways(l, n) = 0
         /\ l >= n => Ways(l + 1, n) = 0
         /\ Ways(1, n) = 2 ^ Cardinality(CannotRunIn(1, n))
<1>1. \A k \in Nat : IsFiniteSet(CannotRunIn(k, n))
  <2> SUFFICES ASSUME NEW k \in Nat
               PROVE  IsFiniteSet(CannotRunIn(k, n))
    OBVIOUS
  <2>1. IsFiniteSet(k .. n - 1)
    BY FS_Interval
  <2>2. CannotRunIn(k, n) \in SUBSET (k .. n - 1)
    BY DEF CannotRunIn
  <2>3. QED
    BY <2>1, <2>2, FS_Subset
<1>2. \A k \in Nat : Choices(CannotRunIn(k, n)) \in Nat
  BY <1>1, ChoicesFacts
<1>3. ASSUME NEW k \in Nat, NEW m \in Nat, k <= m
      PROVE  Choices(CannotRunIn(m, n)) <= Choices(CannotRunIn(k, n))
  <2>1. CannotRunIn(m, n) \in SUBSET CannotRunIn(k, n)
    BY <1>3 DEF CannotRunIn
  <2>2. QED
    BY <2>1, <1>1, ChoicesFacts
<1>4. ASSUME l < n, CannotRun(l)
      PROVE  Ways(l, n) = 2 * Ways(l + 1, n)
  <2>1. CannotRunIn(l, n) = CannotRunIn(l + 1, n) \cup {l} /\ l \notin CannotRunIn(l + 1, n)
    BY <1>4 DEF CannotRunIn
  <2>2. Choices(CannotRunIn(l, n)) = 2 * Choices(CannotRunIn(l + 1, n))
    BY <2>1, <1>1, Doubles
  <2>3. QED
    BY <2>2, <1>4 DEF Ways
<1>5. l = n => Ways(l, n) = 1
  <2>1. l = n => CannotRunIn(l, n) = {}
    BY DEF CannotRunIn
  <2>2. l = n => Choices(CannotRunIn(l, n)) = 1
    BY <2>1, <1>1, ChoicesFacts
  <2>3. QED
    BY <2>2 DEF Ways
<1>6. Ways(1, n) = 2 ^ Cardinality(CannotRunIn(1, n))
  <2>1. Choices(CannotRunIn(1, n)) = 2 ^ Cardinality(CannotRunIn(1, n))
    BY <1>1, ChoicesFacts
  <2>2. 1 <= n
    OBVIOUS
  <2>3. QED
    BY <2>1, <2>2, Zenon DEF Ways
<1>7. Ways(l, n) \in Nat /\ Ways(1, n) \in Nat /\ Ways(l + 1, n) \in Nat
  BY <1>2 DEF Ways
<1>8. /\ 1 \in Nat /\ l \in Nat /\ l + 1 \in Nat /\ 1 <= l /\ l <= l + 1 /\ 1 <= n
      /\ Choices(CannotRunIn(l, n)) <= Choices(CannotRunIn(1, n))
      /\ Choices(CannotRunIn(l + 1, n)) <= Choices(CannotRunIn(l, n))
  BY <1>3
<1>9. Ways(l, n) <= Ways(1, n) /\ Ways(l + 1, n) <= Ways(l, n)
  BY <1>2, <1>8 DEF Ways
<1>10. /\ l > n => Ways(l, n) = 0
       /\ l >= n => Ways(l + 1, n) = 0
  BY DEF Ways
<1>11. QED
  BY <1>4, <1>5, <1>6, <1>7, <1>9, <1>10

\* They do not change while the script stays.
LEMMA WaysStay ==
  ASSUME script' = script, NEW n
  PROVE  \A l : Ways(l, n)' = Ways(l, n)
  BY DEF Ways, CannotRunIn, CannotRun

\* The room and the executions to come are numbers.
LEMMA ToComeType ==
  ASSUME MyshInv, NEW n \in DOMAIN script
  PROVE  /\ n \in Nat \ {0}
         /\ \A p \in Procs : ToCome(p, n) \in Nat
         /\ Room(n) \in Int
         /\ forks[n] \in Nat
<1>1. n \in Nat \ {0}
  BY MyshAssumption DEF MyshInv, MyshTypeOK
<1>2. ASSUME NEW p \in Procs
      PROVE  ToCome(p, n) \in Nat
  <2>1. line[p] \in Nat
    BY DEF MyshInv, MyshTypeOK
  <2>2. at[p] \in {"building", "forking"} => line[p] \in Nat \ {0}
    BY MyshAssumption DEF MyshInv, MyshTypeOK, HasLine
  <2>3. Ways(line[p] + 1, n) \in Nat
    <3>1. line[p] + 1 \in Nat \ {0}
      BY <2>1
    <3>2. QED
      BY <3>1, <1>1, WaysFacts
  <2>4. at[p] \in {"building", "forking"} => Ways(line[p], n) \in Nat
    BY <2>2, <1>1, WaysFacts
  <2>5. QED
    BY <2>3, <2>4 DEF ToCome, Deals, GoesFurther
<1>3. Ways(1, n) \in Nat /\ Ways(offset + 1, n) \in Nat /\ rewinds \in Nat
  BY <1>1, WaysFacts DEF MyshInv, MyshTypeOK
<1>4. (1 + rewinds) * Ways(1, n) \in Nat
  BY <1>3
<1>5. Room(n) \in Int
  BY <1>3, <1>4 DEF Room
<1>6. forks[n] \in Nat
  BY DEF MyshInv, MyshTypeOK
<1>7. QED
  BY <1>1, <1>2, <1>5, <1>6

\* Line numbers start with 1.
LEMMA Successors == 1 \in Nat \ {0} /\ \A k \in Nat : k + 1 \in Nat \ {0}
  OBVIOUS

\* The executions to come, now and after a step.
LEMMA ToComeNext ==
  ASSUME script' = script, NEW n
  PROVE  /\ \A p \in Procs :
              /\ Deals(p) => ToCome(p, n) = Ways(line[p], n)
              /\ GoesFurther(p) => ToCome(p, n) = Ways(line[p] + 1, n)
              /\ ~Deals(p) /\ ~GoesFurther(p) => ToCome(p, n) = 0
              /\ Deals(p)' => ToCome(p, n)' = Ways(line'[p], n)
              /\ GoesFurther(p)' => ToCome(p, n)' = Ways(line'[p] + 1, n)
              /\ ~Deals(p)' /\ ~GoesFurther(p)' => ToCome(p, n)' = 0
         /\ Room(n)' = (1 + rewinds') * Ways(1, n) - Ways(offset' + 1, n)
<1>1. /\ \A p \in Procs : /\ Ways(line[p], n)' = Ways(line'[p], n)
                          /\ Ways(line[p] + 1, n)' = Ways(line'[p] + 1, n)
      /\ Ways(1, n)' = Ways(1, n)
      /\ Ways(offset + 1, n)' = Ways(offset' + 1, n)
  BY DEF Ways, CannotRunIn, CannotRun
<1>2. Room(n)' = (1 + rewinds') * Ways(1, n) - Ways(offset' + 1, n)
  BY <1>1 DEF Room
<1>3. ASSUME NEW p \in Procs
      PROVE  /\ Deals(p) => ToCome(p, n) = Ways(line[p], n)
             /\ GoesFurther(p) => ToCome(p, n) = Ways(line[p] + 1, n)
             /\ ~Deals(p) /\ ~GoesFurther(p) => ToCome(p, n) = 0
  BY DEF ToCome, Deals, GoesFurther
<1>4. ASSUME NEW p \in Procs
      PROVE  /\ Deals(p)' => ToCome(p, n)' = Ways(line'[p], n)
             /\ GoesFurther(p)' => ToCome(p, n)' = Ways(line'[p] + 1, n)
             /\ ~Deals(p)' /\ ~GoesFurther(p)' => ToCome(p, n)' = 0
  BY <1>1 DEF ToCome, Deals, GoesFurther
<1>5. QED
  BY <1>2, <1>3, <1>4

\* They still are after a step.
LEMMA ToComeTypeNext ==
  ASSUME MyshInv, MyshInv', script' = script, NEW n \in DOMAIN script
  PROVE  /\ \A p \in Procs : ToCome(p, n)' \in Nat
         /\ Room(n)' \in Int
<1>1. n \in Nat \ {0}
  BY ToComeType
<1>2. ASSUME NEW p \in Procs
      PROVE  ToCome(p, n)' \in Nat
  <2>1. line'[p] \in Nat
    BY DEF MyshInv, MyshTypeOK
  <2>2. at'[p] \in {"building", "forking"} => line'[p] \in Nat \ {0}
    BY MyshAssumption DEF MyshInv, MyshTypeOK, HasLine
  <2>3. Ways(line'[p] + 1, n) \in Nat
    <3>1. line'[p] + 1 \in Nat \ {0}
      BY <2>1
    <3>2. QED
      BY <3>1, <1>1, WaysFacts
  <2>4. at'[p] \in {"building", "forking"} => Ways(line'[p], n) \in Nat
    BY <2>2, <1>1, WaysFacts
  <2>5. QED
    BY <2>3, <2>4, ToComeNext DEF Deals
<1>3. Ways(1, n) \in Nat /\ Ways(offset' + 1, n) \in Nat /\ rewinds' \in Nat
  <2>1. offset' \in Nat /\ rewinds' \in Nat
    BY DEF MyshInv, MyshTypeOK
  <2>2. 1 \in Nat \ {0} /\ offset' + 1 \in Nat \ {0}
    BY <2>1, Successors
  <2>3. QED
    BY <2>1, <2>2, <1>1, WaysFacts
<1>4. (1 + rewinds') * Ways(1, n) \in Nat
  BY <1>3
<1>5. QED
  BY <1>2, <1>3, <1>4, ToComeNext

\* The process on top may spend what it has before it.
LEMMA BudgetStays ==
  ASSUME MyshInv, MyshInv', Budget, HasCommand', NEW p \in Procs, GoesOn(p),
         script' = script, forks' = forks,
         \A q \in Procs \ {p} : line'[q] = line[q] /\ upto'[q] = upto[q],
         at'[p] # "opening",
         \A n \in DOMAIN script : ToCome(p, n)' + Room(n) <= ToCome(p, n) + Room(n)'
  PROVE  Budget'
<1>1. /\ \A q \in Procs : /\ at'[q] = "none" <=> at[q] = "none"
                          /\ at'[q] = "waiting" <=> at[q] = "waiting"
      /\ \A q \in Procs \ {p} : at'[q] = at[q]
      /\ at[p] \notin {"none", "waiting"}
      /\ parent' = parent
  BY DEF MyshInv, MyshTypeOK, GoesOn
<1>2. ASSUME NEW n \in DOMAIN script, NEW acc \in [Procs -> Nat], Counted(n, acc)
      PROVE  Counted(n, acc)'
  <2>1. ASSUME NEW q \in Procs, at[q] = "waiting"
        PROVE  ToCome(q, n)' = ToCome(q, n)
    <3>1. q # p /\ at'[q] = "waiting" /\ line'[q] = line[q]
      BY <2>1, <1>1
    <3>2. QED
      BY <3>1, <2>1, WaysStay DEF ToCome, Deals, GoesFurther
  <2>2. ASSUME NEW q \in Procs, There(q)', q # FirstShell
        PROVE  acc[q] = (acc[parent[q]] + ToCome(parent[q], n))'
    <3>1. There(q) /\ parent[q] \in Procs /\ at[parent[q]] = "waiting"
      BY <1>1, <2>2 DEF MyshInv, Stacked, RankedBy, There
    <3>2. QED
      BY <3>1, <2>1, <2>2, <1>1, <1>2 DEF Counted
  <2>3. ASSUME NEW q \in Procs, There(q)', at'[q] # "waiting"
        PROVE  forks'[n] + acc[q] + ToCome(q, n)' <= Room(n)'
    <3>1. q = p
      BY <2>3, <1>1, OneOnTop DEF There
    <3>2. forks[n] + acc[p] + ToCome(p, n) <= Room(n)
      BY <1>1, <1>2 DEF Counted, There
    <3>3. /\ ToCome(p, n) \in Nat /\ Room(n) \in Int /\ forks[n] \in Nat /\ acc[p] \in Nat
      BY ToComeType
    <3>4. /\ ToCome(p, n)' \in Nat /\ Room(n)' \in Int
      BY ToComeTypeNext
    <3>5. QED
      BY <3>1, <3>2, <3>3, <3>4
  <2>4. QED
    BY <2>2, <2>3 DEF Counted
<1>3. ASSUME NEW n \in DOMAIN script'
      PROVE  \E acc \in [Procs -> Nat] : Counted(n, acc)'
  BY <1>2, <1>3 DEF Budget
<1>4. \E q \in Procs : There(q)' /\ at'[q] # "waiting"
  BY <1>1 DEF There
<1>5. OpensFirst'
  <2>1. \A q \in Procs : at'[q] = "opening" => q # p
    OBVIOUS
  <2>2. QED
    BY <2>1, <1>1 DEF Budget, OpensFirst
<1>6. QED
  BY <1>3, <1>4, <1>5 DEF Budget

\* An exit leaves nothing to come, and pays for what it moves back.
LEMMA ExitBudget ==
  ASSUME MyshInv, Budget, Counting, NEW p \in Procs,
         NEW from \in {"building", "forking", "redirecting"}, Exits(p, from),
         UNCHANGED <<script, redi, fds, parent, corrupt, forks>>
  PROVE  Budget'
<1>1. /\ MyshInv'
      /\ at[p] = from /\ at' = [at EXCEPT ![p] = "ended"] /\ at \in [Procs -> Phases]
      /\ UNCHANGED <<line, upto>>
  BY ExitKeeps DEF Exits, Goes, MyshInv, MyshTypeOK
<1>2. GoesOn(p)
  BY <1>1 DEF GoesOn, Phases
<1>3. HasCommand'
  BY <1>1 DEF Budget, HasCommand, Args
<1>4. ASSUME NEW n \in DOMAIN script
      PROVE  ToCome(p, n)' + Room(n) <= ToCome(p, n) + Room(n)'
  <2>1. /\ n \in Nat \ {0} /\ ToCome(p, n) \in Nat /\ ToCome(p, n)' = 0
        /\ Room(n) \in Int /\ Room(n)' \in Int
    BY <1>1, ToComeType, ToComeTypeNext, ToComeNext DEF Deals, GoesFurther
  <2>2. CASE UNCHANGED <<offset, rewinds>>
    <3>1. Room(n)' = Room(n)
      BY <2>2, ToComeNext DEF Room
    <3>2. QED
      BY <2>1, <3>1
  <2>3. CASE rewinds' = rewinds + 1
    <3>1. /\ rewinds \in Nat /\ offset + 1 \in Nat \ {0} /\ offset' + 1 \in Nat \ {0} /\ 1 \in Nat \ {0}
      <4>1. rewinds \in Nat /\ offset \in Nat /\ offset' \in Nat
        BY <1>1 DEF MyshInv, MyshTypeOK
      <4>2. QED
        BY <4>1, Successors
    <3>2. /\ Ways(1, n) \in Nat /\ Ways(offset + 1, n) \in Nat
          /\ Ways(offset' + 1, n) \in Nat /\ Ways(offset' + 1, n) <= Ways(1, n)
      BY <3>1, <2>1, WaysFacts
    <3>3. /\ (1 + rewinds') * Ways(1, n) = (1 + rewinds) * Ways(1, n) + Ways(1, n)
          /\ (1 + rewinds) * Ways(1, n) \in Int
      BY <3>1, <3>2, <2>3
    <3>4. Room(n) <= Room(n)'
      BY <3>2, <3>3, ToComeNext DEF Room
    <3>5. QED
      BY <2>1, <3>4
  <2>4. QED
    BY <2>2, <2>3 DEF Exits
<1>5. QED
  BY <1>1, <1>2, <1>3, <1>4, BudgetStays

\* What a shell reads it takes out of its buffer or out of the file.
LEMMA ReadLineBudget ==
  ASSUME MyshInv, Budget, NEW p \in Procs, ReadLine(p)
  PROVE  Budget'
<1> DEFINE next == NextLine(p)
<1>1. /\ MyshInv' /\ at[p] = "reading" /\ at \in [Procs -> Phases]
      /\ line \in [Procs -> Nat] /\ upto \in [Procs -> Nat] /\ offset \in Nat
      /\ UNCHANGED <<script, rewinds, parent, forks>>
      /\ \A m \in DOMAIN script : m \in 1 .. Len(script)
      /\ Len(script) \in Nat
  <2>1. /\ MyshInv' /\ at[p] = "reading" /\ UNCHANGED <<script, rewinds, parent, forks>>
    BY ReadLineKeeps DEF ReadLine
  <2>2. /\ at \in [Procs -> Phases] /\ line \in [Procs -> Nat] /\ upto \in [Procs -> Nat]
        /\ offset \in Nat /\ script \in Seq(Seq(Arguments))
    BY MyshAssumption DEF MyshInv, MyshTypeOK
  <2>3. QED
    BY <2>1, <2>2
<1>2. CASE next \notin DOMAIN script
  <2>1. at' = [at EXCEPT ![p] = "ended"] /\ UNCHANGED <<offset, line, upto>>
    BY <1>2 DEF ReadLine, Goes
  <2>2. GoesOn(p)
    BY <2>1, <1>1 DEF GoesOn, Phases
  <2>3. HasCommand'
    BY <2>1, <1>1 DEF Budget, HasCommand, Args
  <2>4. ASSUME NEW n \in DOMAIN script
        PROVE  ToCome(p, n)' + Room(n) <= ToCome(p, n) + Room(n)'
    <3>1. /\ ToCome(p, n) \in Nat /\ ToCome(p, n)' = 0 /\ Room(n) \in Int
      BY <1>1, <2>1, ToComeType, ToComeNext DEF Deals, GoesFurther
    <3>2. Room(n)' = Room(n)
      BY <1>1, <2>1, ToComeNext DEF Room
    <3>3. QED
      BY <3>1, <3>2
  <2>5. QED
    BY <2>1, <2>2, <2>3, <2>4, <1>1, BudgetStays
<1>3. CASE next \in DOMAIN script
  <2>1. PICK to \in {"reading", "building"} :
          /\ at' = [at EXCEPT ![p] = to]
          /\ to = "building" => ~IsComment(script[next])
    BY <1>3 DEF ReadLine, Goes
  <2>2. /\ line' = [line EXCEPT ![p] = next]
        /\ line[p] < upto[p] => offset' = offset /\ upto' = upto
        /\ ~(line[p] < upto[p]) => offset' = Len(script)
    BY <1>3 DEF ReadLine
  <2>3. GoesOn(p)
    BY <2>1, <1>1 DEF GoesOn, Phases
  <2>4. HasCommand'
    <3>1. at'[p] = to /\ line'[p] = next /\ \A q \in Procs : q # p => at'[q] = at[q] /\ line'[q] = line[q]
      BY <2>1, <2>2, <1>1
    <3>2. QED
      BY <3>1, <2>1, <1>1 DEF Budget, HasCommand, Args
  <2>5. ASSUME NEW n \in DOMAIN script
        PROVE  ToCome(p, n)' + Room(n) <= ToCome(p, n) + Room(n)'
    <3>1. /\ n \in Nat \ {0} /\ n <= Len(script) /\ next \in Nat \ {0}
          /\ ToCome(p, n)' \in Nat /\ Room(n) \in Int /\ Room(n)' \in Int
      BY <1>1, <1>3, ToComeType, ToComeTypeNext
    <3>2. /\ Ways(next, n) \in Nat /\ Ways(next + 1, n) \in Nat /\ Ways(next + 1, n) <= Ways(next, n)
      <4>1. next + 1 \in Nat \ {0}
        BY <3>1
      <4>2. QED
        BY <4>1, <3>1, WaysFacts
    <3>3. ToCome(p, n)' <= Ways(next, n)
      <4>1. at'[p] = to /\ line'[p] = next
        BY <2>1, <2>2, <1>1
      <4>2. ToCome(p, n)' \in {Ways(next, n), Ways(next + 1, n), 0}
        BY <4>1, <1>1, ToComeNext DEF Deals, GoesFurther
      <4>3. QED
        BY <4>2, <3>2
    <3>4. CASE line[p] < upto[p]
      <4>1. ToCome(p, n) = Ways(next, n)
        BY <3>4, <1>1 DEF ToCome, Deals, GoesFurther, NextLine
      <4>2. Room(n)' = Room(n)
        BY <3>4, <2>2, <1>1, ToComeNext DEF Room
      <4>3. QED
        BY <4>1, <4>2, <3>1, <3>2, <3>3
    <3>5. CASE ~(line[p] < upto[p])
      <4>1. ToCome(p, n) = 0 /\ next = offset + 1
        BY <3>5, <1>1 DEF ToCome, Deals, GoesFurther, NextLine
      <4>2. Ways(Len(script) + 1, n) = 0
        <5>1. Len(script) + 1 \in Nat \ {0} /\ Len(script) + 1 > n
          BY <1>1, <3>1
        <5>2. QED
          BY <5>1, <3>1, WaysFacts
      <4>3. (1 + rewinds) * Ways(1, n) \in Int
        <5>1. Ways(1, n) \in Nat /\ rewinds \in Nat
          BY <3>1, WaysFacts DEF MyshInv, MyshTypeOK
        <5>2. QED
          BY <5>1
      <4>4. Room(n)' = (1 + rewinds) * Ways(1, n)
        BY <4>2, <4>3, <3>5, <2>2, <1>1, ToComeNext
      <4>5. Room(n) = (1 + rewinds) * Ways(1, n) - Ways(next, n)
        BY <4>1 DEF Room
      <4>6. QED
        BY <4>1, <4>3, <4>4, <4>5, <3>1, <3>2, <3>3
    <3>6. QED
      BY <3>4, <3>5
  <2>6. /\ \A q \in Procs \ {p} : line'[q] = line[q] /\ upto'[q] = upto[q]
        /\ at'[p] # "opening"
    <3>1. upto' = upto \/ upto' = [upto EXCEPT ![p] = Len(script)]
      BY <1>3 DEF ReadLine
    <3>2. QED
      BY <3>1, <2>1, <2>2, <1>1
  <2>7. script' = script /\ forks' = forks
    BY <1>1
  <2>8. QED
    BY <1>1, <2>3, <2>4, <2>5, <2>6, <2>7, BudgetStays
<1>4. QED
  BY <1>2, <1>3

\* The steps that read nothing and move nothing back.
LEMMA QuietBudget ==
  ASSUME MyshInv, Budget, NEW p \in Procs,
         OpenScript(p) \/ Build(p) \/ Redirect(p) \/ Exec(p) \/ RunCommand(p)
  PROVE  Budget'
<1>1. /\ MyshInv' /\ at \in [Procs -> Phases]
      /\ UNCHANGED <<script, offset, line, upto, rewinds, parent, forks>>
  BY OpenScriptKeeps, BuildKeeps, RedirectKeeps, ExecKeeps, RunCommandKeeps
     DEF OpenScript, Build, Redirect, Exec, RunCommand, input, MyshInv, MyshTypeOK
<1>2. PICK to \in Phases :
        /\ at' = [at EXCEPT ![p] = to]
        /\ \/ at[p] = "opening" /\ to \in {"reading", "ended"}
           \/ at[p] = "building" /\ (to = "ended" \/ (to = "forking" /\ Args(p) # <<>>))
           \/ at[p] = "redirecting" /\ to = "redirecting"
           \/ at[p] = "redirecting" /\ (Executable(Args(p)) => to = "running")
                /\ to \in {"running", "ended", "reading"}
           \/ at[p] = "running" /\ to = "ended"
  <2>1. CASE OpenScript(p)
    BY <2>1 DEF OpenScript, Goes, Phases
  <2>2. CASE Build(p)
    BY <2>2 DEF Build, Goes, Phases
  <2>3. CASE Redirect(p)
    <3>1. at' = [at EXCEPT ![p] = "redirecting"] /\ at[p] = "redirecting"
      BY <2>3, <1>1 DEF Redirect, Redirecting
    <3>2. QED
      BY <3>1 DEF Phases
  <2>4. CASE Exec(p)
    BY <2>4 DEF Exec, Goes, Phases
  <2>5. CASE RunCommand(p)
    BY <2>5 DEF RunCommand, Goes, Phases
  <2>6. QED
    BY <2>1, <2>2, <2>3, <2>4, <2>5
<1>3. GoesOn(p)
  BY <1>1, <1>2 DEF GoesOn, Phases
<1>4. HasCommand'
  <2>1. at'[p] = to /\ \A q \in Procs : q # p => at'[q] = at[q]
    BY <1>1, <1>2
  <2>2. \A q \in Procs : Args(q)' = Args(q)
    BY <1>1 DEF Args
  <2>3. \A q \in Procs : IsComment(Args(q))' <=> IsComment(Args(q))
    BY <2>2 DEF IsComment
  <2>4. QED
    BY <2>1, <2>2, <2>3, <1>2 DEF Budget, HasCommand
<1>5. ASSUME NEW n \in DOMAIN script
      PROVE  ToCome(p, n)' + Room(n) <= ToCome(p, n) + Room(n)'
  <2>1. /\ ToCome(p, n) \in Nat /\ ToCome(p, n)' \in Nat /\ Room(n) \in Int
    BY <1>1, ToComeType, ToComeTypeNext
  <2>2. Room(n)' = Room(n)
    BY <1>1, ToComeNext DEF Room
  <2>3. at'[p] = to
    BY <1>1, <1>2
  <2>4. ToCome(p, n)' <= ToCome(p, n)
    <3>1. at[p] = "opening" => ToCome(p, n)' = 0
      <4>1. at[p] = "opening" => line[p] = upto[p]
        BY DEF Budget, OpensFirst
      <4>2. QED
        <5>1. at[p] = "opening" => line'[p] = upto'[p] /\ upto'[p] \in Nat /\ at'[p] \in {"reading", "ended"}
          BY <4>1, <2>3, <1>1, <1>2 DEF MyshInv, MyshTypeOK
        <5>2. at[p] = "opening" => ~(line'[p] < upto'[p])
          BY <5>1
        <5>3. at[p] = "opening" => ~Deals(p)' /\ ~GoesFurther(p)'
          BY <5>1, <5>2 DEF Deals, GoesFurther
        <5>4. QED
          BY <5>3, <1>1, ToComeNext
    <3>2. at[p] = "building" => ToCome(p, n)' \in {ToCome(p, n), 0}
      <4>1. at[p] = "building" => Deals(p) /\ (Deals(p)' \/ (~Deals(p)' /\ ~GoesFurther(p)'))
        BY <2>3, <1>2 DEF Deals, GoesFurther
      <4>2. QED
        BY <4>1, <1>1, ToComeNext
    <3>3. at[p] = "redirecting" => ToCome(p, n)' \in {ToCome(p, n), 0}
      <4>1. Executable(Args(p))' <=> Executable(Args(p))
        BY <1>1 DEF Executable, Args
      <4>2. at[p] = "redirecting" => ~Deals(p) /\ ~Deals(p)' /\ (GoesFurther(p)' => GoesFurther(p))
        BY <4>1, <2>3, <1>2 DEF Deals, GoesFurther
      <4>3. QED
        BY <4>2, <1>1, ToComeNext
    <3>4. at[p] = "running" => ToCome(p, n)' = 0
      BY <2>3, <1>1, <1>2, ToComeNext DEF Deals, GoesFurther
    <3>5. QED
      BY <3>1, <3>2, <3>3, <3>4, <2>1, <1>2
  <2>5. QED
    BY <2>1, <2>2, <2>4
<1>6. /\ \A q \in Procs \ {p} : line'[q] = line[q] /\ upto'[q] = upto[q]
      /\ at'[p] # "opening"
  BY <1>1, <1>2
<1>7. script' = script /\ forks' = forks
  BY <1>1
<1>8. QED
  BY <1>1, <1>3, <1>4, <1>5, <1>6, <1>7, BudgetStays

\* A fork divides what there is to come between parent and child.
LEMMA ForkBudget ==
  ASSUME MyshInv, Budget, Counting, NEW p \in Procs, NEW child \in Procs,
         ForksChild(p, child)
  PROVE  Budget'
<1>1. /\ MyshInv' /\ at \in [Procs -> Phases] /\ line \in [Procs -> Nat]
      /\ parent \in [Procs -> Procs \cup {0}] /\ forks \in [DOMAIN script -> Nat]
      /\ at[p] = "forking" /\ at[child] = "none" /\ p # child /\ line[p] \in DOMAIN script
      /\ UNCHANGED <<script, offset, rewinds>> /\ child # FirstShell
  BY ForksChildKeeps DEF ForksChild, MyshInv, MyshTypeOK, HasLine, FirstShellStays
<1>2. /\ at'[p] = "waiting" /\ at'[child] = "redirecting"
      /\ \A q \in Procs : q # p /\ q # child => at'[q] = at[q]
      /\ parent'[child] = p /\ line'[child] = line[p]
      /\ \A q \in Procs : q # child => parent'[q] = parent[q] /\ line'[q] = line[q]
      /\ forks' = [forks EXCEPT ![line[p]] = @ + 1]
  BY <1>1 DEF ForksChild
<1>3. Args(p) # <<>> /\ ~IsComment(Args(p))
  BY <1>1 DEF Budget, HasCommand
<1>4. HasCommand'
  <2>1. ASSUME NEW q \in Procs, at'[q] \in {"building", "forking"}
        PROVE  ~IsComment(Args(q))' /\ (at'[q] = "forking" => Args(q)' # <<>>)
    <3>1. q # p /\ q # child /\ at'[q] = at[q] /\ Args(q)' = Args(q)
      BY <2>1, <1>1, <1>2 DEF Args
    <3>2. QED
      BY <2>1, <3>1 DEF Budget, HasCommand, IsComment
  <2>2. QED
    BY <2>1 DEF HasCommand
<1>5. ASSUME NEW q \in Procs, at'[q] \in {"opening"}
      PROVE  line'[q] = upto'[q]
  <2>1. q # p /\ q # child /\ at[q] = "opening"
    BY <1>2, <1>5
  <2>2. line'[q] = line[q] /\ upto'[q] = upto[q]
    BY <2>1, <1>2 DEF ForksChild, MyshInv, MyshTypeOK
  <2>3. QED
    BY <2>1, <2>2 DEF Budget, OpensFirst
<1>6. ASSUME NEW n \in DOMAIN script
      PROVE  \E acc \in [Procs -> Nat] : Counted(n, acc)'
  <2>1. PICK acc \in [Procs -> Nat] : Counted(n, acc)
    BY DEF Budget
  <2>2. /\ n \in Nat \ {0} /\ ToCome(p, n) \in Nat /\ Room(n) \in Int /\ forks[n] \in Nat
        /\ ToCome(p, n)' \in Nat /\ ToCome(child, n)' \in Nat
    BY <1>1, ToComeType, ToComeTypeNext
  <2>3. Room(n)' = Room(n)
    BY <1>1, ToComeNext DEF Room
  <2>4. PICK over \in [Procs -> Nat] : /\ over[child] = acc[p] + ToCome(p, n)'
                                       /\ \A q \in Procs : q # child => over[q] = acc[q]
    <3>1. [acc EXCEPT ![child] = acc[p] + ToCome(p, n)'] \in [Procs -> Nat]
      BY <2>1, <2>2
    <3>2. QED
      BY <3>1
  <2>5. line[p] \in Nat \ {0} /\ line[p] + 1 \in Nat \ {0}
    <3>1. script \in Seq(Seq(Arguments))
      BY MyshAssumption DEF MyshInv, MyshTypeOK
    <3>2. QED
      BY <3>1, <1>1
  <2>6. /\ Ways(line[p], n) \in Nat /\ Ways(line[p] + 1, n) \in Nat
        /\ Ways(line[p] + 1, n) <= Ways(line[p], n)
        /\ line[p] < n /\ CannotRun(line[p]) => Ways(line[p], n) = 2 * Ways(line[p] + 1, n)
        /\ line[p] = n => Ways(line[p], n) = 1
        /\ line[p] >= n => Ways(line[p] + 1, n) = 0
    BY <2>2, <2>5, WaysFacts
  <2>7. forks'[n] + ToCome(p, n)' + ToCome(child, n)' <= forks[n] + ToCome(p, n)
    <3>1. ToCome(p, n) = Ways(line[p], n)
      BY <1>1, ToComeNext DEF Deals
    <3>2. ToCome(p, n)' = Ways(line[p] + 1, n)
      BY <1>1, <1>2, ToComeNext DEF GoesFurther
    <3>3. ToCome(child, n)' = IF Executable(Args(p)) THEN 0 ELSE Ways(line[p] + 1, n)
      <4>1. Executable(Args(child))' <=> Executable(Args(p))
        BY <1>1, <1>2 DEF Args, Executable
      <4>2. ~Deals(child)' /\ (GoesFurther(child)' <=> ~Executable(Args(p)))
        BY <4>1, <1>2 DEF Deals, GoesFurther
      <4>3. QED
        BY <4>2, <1>1, <1>2, ToComeNext
    <3>4. forks'[n] = IF line[p] = n THEN forks[n] + 1 ELSE forks[n]
      BY <1>1, <1>2
    <3>5. ~Executable(Args(p)) => CannotRun(line[p])
      BY <1>3 DEF CannotRun, Args
    <3>6. CASE line[p] < n
      <4>1. CASE Executable(Args(p))
        BY <4>1, <3>1, <3>2, <3>3, <3>4, <3>6, <2>2, <2>5, <2>6
      <4>2. CASE ~Executable(Args(p))
        BY <4>2, <3>1, <3>2, <3>3, <3>4, <3>5, <3>6, <2>2, <2>5, <2>6
      <4>3. QED
        BY <4>1, <4>2
    <3>7. CASE line[p] = n
      BY <3>1, <3>2, <3>3, <3>4, <3>7, <2>2, <2>5, <2>6
    <3>8. CASE line[p] > n
      BY <3>1, <3>2, <3>3, <3>4, <3>8, <2>2, <2>5, <2>6
    <3>9. QED
      BY <3>6, <3>7, <3>8, <2>2, <2>5
  <2>8. forks'[n] \in Nat
    BY <1>1, <1>2
  <2>9. ASSUME NEW q \in Procs, There(q)', q # FirstShell
        PROVE  over[q] = (over[parent[q]] + ToCome(parent[q], n))'
    <3>1. CASE q = child
      BY <3>1, <2>4, <1>1, <1>2
    <3>2. CASE q # child
      <4>1. There(q) /\ parent'[q] = parent[q]
        BY <3>2, <2>9, <1>1, <1>2 DEF There
      <4>2. parent[q] \in Procs /\ at[parent[q]] = "waiting"
        BY <4>1, <2>9 DEF MyshInv, Stacked, RankedBy
      <4>3. /\ parent[q] # p /\ parent[q] # child
            /\ at'[parent[q]] = "waiting" /\ line'[parent[q]] = line[parent[q]]
        BY <4>2, <1>1, <1>2
      <4>4. ToCome(parent[q], n) = Ways(line[parent[q]] + 1, n)
        BY <4>2, <1>1, ToComeNext DEF GoesFurther
      <4>5. (ToCome(parent[q], n))' = Ways(line[parent[q]] + 1, n)
        <5>1. \A r \in Procs : at'[r] = "waiting" => ToCome(r, n)' = Ways(line'[r] + 1, n)
          BY <1>1, ToComeNext DEF GoesFurther
        <5>2. \A r \in Procs : parent'[q] = r => (ToCome(parent[q], n))' = ToCome(r, n)'
          OBVIOUS
        <5>3. QED
          BY <4>1, <4>2, <4>3, <5>1, <5>2
      <4>6. acc[q] = acc[parent[q]] + ToCome(parent[q], n)
        BY <4>1, <2>1, <2>9 DEF Counted
      <4>7. QED
        BY <4>1, <4>2, <4>3, <4>4, <4>5, <4>6, <3>2, <2>4
    <3>3. QED
      BY <3>1, <3>2
  <2>10. ASSUME NEW q \in Procs, There(q)', at'[q] # "waiting"
         PROVE  forks'[n] + over[q] + ToCome(q, n)' <= Room(n)'
    <3>1. q = child
      <4>1. q # p
        BY <2>10, <1>2
      <4>2. q # child => There(q) /\ at[q] # "waiting"
        BY <4>1, <2>10, <1>2 DEF There
      <4>3. QED
        BY <4>1, <4>2, <1>1, OneOnTop DEF There
    <3>2. forks[n] + acc[p] + ToCome(p, n) <= Room(n)
      BY <2>1, <1>1 DEF Counted, There
    <3>3. acc[p] \in Nat
      BY <2>1
    <3>4. QED
      BY <3>1, <3>2, <3>3, <2>2, <2>3, <2>4, <2>7, <2>8
  <2>11. Counted(n, over)'
    BY <2>9, <2>10 DEF Counted
  <2>12. QED
    BY <2>4, <2>11
<1>7. \E q \in Procs : There(q)' /\ at'[q] # "waiting"
  BY <1>2 DEF There
<1>8. QED
  BY <1>1, <1>4, <1>5, <1>6, <1>7 DEF Budget, OpensFirst

\* A parent that has waited goes on with what it had before it.
LEMMA WaitBudget ==
  ASSUME MyshInv, Budget, NEW p \in Procs, NEW child \in Procs, NEW to \in {"reading", "ended"},
         Reaps(p, child, to)
  PROVE  Budget'
<1>1. /\ MyshInv' /\ at \in [Procs -> Phases] /\ line \in [Procs -> Nat] /\ upto \in [Procs -> Nat]
      /\ parent \in [Procs -> Procs \cup {0}]
      /\ at[p] = "waiting" /\ at[child] = "ended" /\ p # child /\ parent[child] = p
      /\ UNCHANGED <<script, offset, rewinds, forks>> /\ child # FirstShell
  BY ReapsKeeps, ProcsFacts DEF Reaps, MyshInv, MyshTypeOK, FirstShellStays
<1>2. /\ at'[p] = to /\ at'[child] = "none"
      /\ \A q \in Procs : q # p /\ q # child => at'[q] = at[q]
      /\ \A q \in Procs : q # child => parent'[q] = parent[q] /\ line'[q] = line[q] /\ upto'[q] = upto[q]
  BY <1>1 DEF Reaps
<1>3. ASSUME NEW q \in Procs, at'[q] \in {"building", "forking", "opening"}
      PROVE  at[q] = at'[q] /\ Args(q)' = Args(q) /\ line'[q] = line[q] /\ upto'[q] = upto[q]
  <2>1. q # p /\ q # child
    BY <1>2, <1>3
  <2>2. QED
    BY <2>1, <1>1, <1>2 DEF Args
<1>4. HasCommand' /\ OpensFirst'
  BY <1>3 DEF Budget, HasCommand, OpensFirst, IsComment
<1>5. \A q \in Procs : There(q) /\ at[q] # "waiting" => q = child
  BY <1>1, OneOnTop DEF There
<1>6. \A q \in Procs : There(q)' <=> There(q) /\ q # child
  BY <1>1, <1>2 DEF There
<1>7. ASSUME NEW q \in Procs, There(q)', q # FirstShell
      PROVE  /\ There(q) /\ parent'[q] = parent[q] /\ parent[q] \in Procs
             /\ at[parent[q]] = "waiting" /\ at'[parent[q]] = "waiting"
             /\ line'[parent[q]] = line[parent[q]]
  <2>1. There(q) /\ q # child /\ parent'[q] = parent[q]
    BY <1>2, <1>6, <1>7
  <2>2. parent[q] \in Procs /\ at[parent[q]] = "waiting"
    BY <2>1, <1>7 DEF MyshInv, Stacked, RankedBy
  <2>3. at'[parent'[q]] = "waiting"
    BY <1>1, <1>7 DEF MyshInv, Stacked, RankedBy
  <2>4. parent[q] # child
    BY <2>2, <1>1
  <2>5. QED
    BY <2>1, <2>2, <2>3, <2>4, <1>2
<1>8. ASSUME NEW n \in DOMAIN script, NEW acc \in [Procs -> Nat], Counted(n, acc)
      PROVE  Counted(n, acc)'
  <2>1. /\ ToCome(p, n) \in Nat /\ ToCome(p, n)' \in Nat /\ Room(n) \in Int /\ Room(n)' = Room(n)
        /\ forks[n] \in Nat /\ acc[p] \in Nat /\ acc[child] \in Nat
    <3>1. Room(n)' = Room(n)
      BY <1>1, ToComeNext DEF Room
    <3>2. QED
      BY <3>1, <1>1, ToComeType, ToComeTypeNext
  <2>2. ASSUME NEW q \in Procs, There(q)', q # FirstShell
        PROVE  acc[q] = (acc[parent[q]] + ToCome(parent[q], n))'
    <3>1. \A r \in Procs : at[r] = "waiting" => ToCome(r, n) = Ways(line[r] + 1, n)
      BY <1>1, ToComeNext DEF GoesFurther
    <3>2. \A r \in Procs : at'[r] = "waiting" => ToCome(r, n)' = Ways(line'[r] + 1, n)
      BY <1>1, ToComeNext DEF GoesFurther
    <3>3. \A r \in Procs : parent'[q] = r => (ToCome(parent[q], n))' = ToCome(r, n)'
      OBVIOUS
    <3>4. acc[q] = acc[parent[q]] + ToCome(parent[q], n)
      BY <1>7, <1>8, <2>2 DEF Counted
    <3>5. QED
      BY <3>1, <3>2, <3>3, <3>4, <1>7, <2>2
  <2>3. ASSUME NEW q \in Procs, There(q)', at'[q] # "waiting"
        PROVE  forks'[n] + acc[q] + ToCome(q, n)' <= Room(n)'
    <3>1. q = p
      BY <2>3, <1>2, <1>5, <1>6
    <3>2. forks[n] + acc[child] + ToCome(child, n) <= Room(n)
      BY <1>1, <1>8 DEF Counted, There
    <3>3. ToCome(child, n) = 0
      BY <1>1, ToComeNext DEF Deals, GoesFurther
    <3>4. acc[child] = acc[p] + ToCome(p, n)
      BY <1>1, <1>8 DEF Counted, There
    <3>5. ToCome(p, n)' <= ToCome(p, n)
      <4>1. ToCome(p, n) = Ways(line[p] + 1, n)
        BY <1>1, ToComeNext DEF GoesFurther
      <4>2. ~Deals(p)'
        BY <1>2 DEF Deals
      <4>3. ToCome(p, n)' \in {Ways(line[p] + 1, n), 0}
        BY <4>2, <1>1, <1>2, ToComeNext
      <4>4. QED
        BY <4>1, <4>3, <2>1
    <3>6. QED
      BY <3>1, <3>2, <3>3, <3>4, <3>5, <2>1, <1>1
  <2>4. QED
    BY <2>2, <2>3 DEF Counted
<1>9. \A n \in DOMAIN script' : \E acc \in [Procs -> Nat] : Counted(n, acc)'
  BY <1>1, <1>8 DEF Budget
<1>10. \E q \in Procs : There(q)' /\ at'[q] # "waiting"
  BY <1>2 DEF There
<1>11. QED
  BY <1>4, <1>9, <1>10 DEF Budget

\* A script is executed once to begin with.
LEMMA BudgetInit == Init => Budget
<1> SUFFICES ASSUME Init
             PROVE  Budget
  OBVIOUS
<1>1. HasCommand /\ OpensFirst
  BY DEF Init, HasCommand, OpensFirst
<1>2. There(FirstShell) /\ at[FirstShell] # "waiting" /\ \A p \in Procs : There(p) => p = FirstShell
  BY ProcsFacts DEF Init, There
<1>3. ASSUME NEW n \in DOMAIN script
      PROVE  \E acc \in [Procs -> Nat] : Counted(n, acc)
  <2> DEFINE acc == [p \in Procs |-> 0]
  <2>1. n \in Nat \ {0}
    BY MyshInit, ToComeType
  <2>2. Room(n) = 0
    <3>1. Ways(1, n) \in Nat
      BY <2>1, WaysFacts
    <3>2. Ways(offset + 1, n) = Ways(1, n) /\ (1 + rewinds) * Ways(1, n) = Ways(1, n)
      BY <3>1 DEF Init
    <3>3. QED
      BY <3>1, <3>2 DEF Room
  <2>3. ToCome(FirstShell, n) = 0
    BY ProcsFacts DEF Init, ToCome, Deals, GoesFurther
  <2>4. forks[n] = 0
    BY DEF Init
  <2>5. Counted(n, acc)
    BY <1>2, <2>2, <2>3, <2>4, ProcsFacts DEF Counted
  <2>6. QED
    BY <2>5
<1>4. QED
  BY <1>1, <1>2, <1>3, ProcsFacts DEF Budget

\* A step taken while the moves are counted keeps the budget, the move that is
\* counted last included.
LEMMA BudgetStep == MyshInv /\ Budget /\ Counting /\ [Next]_vars => Budget'
<1> SUFFICES ASSUME MyshInv, Budget, Counting, [Next]_vars
             PROVE  Budget'
  OBVIOUS
<1>1. ASSUME NEW p \in Procs, Step(p)
      PROVE  Budget'
  <2>1. CASE ReadLine(p)
    BY <2>1, ReadLineBudget
  <2>2. CASE Fork(p)
    BY <2>2, ForkCases, ForkBudget, ExitBudget
  <2>3. CASE OpenFails(p) \/ ReallocFails(p)
    BY <2>3, ExitBudget DEF OpenFails, ReallocFails
  <2>4. CASE Wait(p)
    BY <2>4, WaitCases, WaitBudget
  <2>5. CASE OpenScript(p) \/ Build(p) \/ Redirect(p) \/ Exec(p) \/ RunCommand(p)
    BY <2>5, QuietBudget
  <2>6. QED
    BY <1>1, <2>1, <2>2, <2>3, <2>4, <2>5 DEF Step
<1>2. CASE UNCHANGED vars
  <2>1. UNCHANGED <<script, at, offset, line, upto, rewinds, parent, forks>>
    BY <1>2 DEF vars, input
  <2>2. HasCommand' /\ OpensFirst'
    BY <2>1 DEF Budget, HasCommand, OpensFirst, Args, IsComment
  <2>3. \A p \in Procs : There(p)' <=> There(p)
    BY <2>1 DEF There
  <2>4. ASSUME NEW n \in DOMAIN script, NEW acc \in [Procs -> Nat], Counted(n, acc)
        PROVE  Counted(n, acc)'
    <3>1. \A l : Ways(l, n)' = Ways(l, n)
      BY <2>1, WaysStay
    <3>2. \A p : ToCome(p, n)' = ToCome(p, n)
      BY <2>1 DEF ToCome, Deals, GoesFurther, Args, Executable, Ways, CannotRunIn, CannotRun
    <3>3. Room(n)' = Room(n)
      BY <2>1, <3>1 DEF Room
    <3>4. QED
      BY <2>1, <2>4, <3>2, <3>3 DEF Counted, There
  <2>5. QED
    BY <2>1, <2>2, <2>3, <2>4 DEF Budget
<1>3. QED
  BY <1>1, <1>2 DEF Next

\* What has been executed is never more than the exits that moved the offset
\* back explain.
LEMMA BudgetBounds == MyshInv /\ Budget => RunsAtMost
<1> SUFFICES ASSUME MyshInv, Budget, NEW n \in DOMAIN script
             PROVE  forks[n] <= (1 + rewinds) *
                      2 ^ Cardinality({m \in 1 .. n - 1 :
                            script[m] # <<>> /\ ~IsComment(script[m]) /\ ~Executable(script[m])})
  BY DEF RunsAtMost
<1>1. PICK acc \in [Procs -> Nat] : Counted(n, acc)
  BY DEF Budget
<1>2. PICK p \in Procs : There(p) /\ at[p] # "waiting"
  BY DEF Budget
<1>3. forks[n] + acc[p] + ToCome(p, n) <= Room(n)
  BY <1>1, <1>2 DEF Counted
<1>4. /\ n \in Nat \ {0} /\ ToCome(p, n) \in Nat /\ forks[n] \in Nat /\ acc[p] \in Nat
      /\ rewinds \in Nat /\ offset \in Nat /\ offset + 1 \in Nat \ {0} /\ 1 \in Nat \ {0}
  <2>1. rewinds \in Nat /\ offset \in Nat
    BY DEF MyshInv, MyshTypeOK
  <2>2. QED
    BY <2>1, <1>1, ToComeType, Successors
<1>5. /\ Ways(1, n) \in Nat /\ Ways(offset + 1, n) \in Nat
      /\ Ways(1, n) = 2 ^ Cardinality(CannotRunIn(1, n))
  BY <1>4, WaysFacts
<1>6. (1 + rewinds) * Ways(1, n) \in Nat
  BY <1>4, <1>5
<1>7. forks[n] <= (1 + rewinds) * Ways(1, n)
  BY <1>3, <1>4, <1>5, <1>6 DEF Room
<1>8. CannotRunIn(1, n) = {m \in 1 .. n - 1 :
        script[m] # <<>> /\ ~IsComment(script[m]) /\ ~Executable(script[m])}
  BY DEF CannotRunIn, CannotRun
<1>9. QED
  BY <1>5, <1>7, <1>8, Zenon

\* Once they are no longer counted, nothing is.
LEMMA CountsStay ==
  ASSUME [Next]_vars, ~Counting
  PROVE  UNCHANGED <<script, forks, rewinds>>
<1>1. ASSUME NEW p \in Procs, Step(p)
      PROVE  UNCHANGED <<script, forks, rewinds>>
  <2>1. ASSUME NEW from, Exits(p, from)
        PROVE  rewinds' = rewinds
    BY <2>1 DEF Exits
  <2>2. CASE Fork(p) \/ OpenFails(p) \/ ReallocFails(p)
    BY <2>1, <2>2 DEF Fork, OpenFails, ReallocFails
  <2>3. CASE OpenScript(p) \/ ReadLine(p) \/ Build(p) \/ Redirect(p)
    BY <2>3 DEF OpenScript, ReadLine, Build, Redirect, input
  <2>4. CASE Exec(p) \/ RunCommand(p) \/ Wait(p)
    BY <2>4 DEF Exec, RunCommand, Wait, input
  <2>5. QED
    BY <1>1, <2>2, <2>3, <2>4 DEF Step
<1>2. CASE UNCHANGED vars
  BY <1>2 DEF vars, input
<1>3. QED
  BY <1>1, <1>2 DEF Next

\* A line is executed once, once more for each time an exit moved the offset
\* back, and at most twice as often for each line before it that cannot be
\* executed, up to the move after the MaxRewinds-th (main.c:31, 107, 145-159).
THEOREM LinesRunAtMost == Spec => []RunsAtMost
<1> DEFINE Accounts == RunsAtMost /\ (Counting => Budget)
<1>1. Init => Accounts
  BY MyshInit, BudgetInit, BudgetBounds
<1>2. MyshInv /\ MyshInv' /\ Accounts /\ [Next]_vars => Accounts'
  <2> SUFFICES ASSUME MyshInv, MyshInv', Accounts, [Next]_vars
               PROVE  Accounts'
    OBVIOUS
  <2>1. CASE Counting
    <3>1. Budget'
      BY <2>1, BudgetStep
    <3>2. MyshInv' /\ Budget' => RunsAtMost'
      BY BudgetBounds, PTL
    <3>3. QED
      BY <3>1, <3>2
  <2>2. CASE ~Counting
    <3>1. UNCHANGED <<script, forks, rewinds>>
      BY <2>2, CountsStay
    <3>2. ~Counting' /\ RunsAtMost'
      BY <2>2, <3>1 DEF Counting, RunsAtMost, IsComment, Executable
    <3>3. QED
      BY <3>2
  <2>3. QED
    BY <2>1, <2>2
<1>3. QED
  BY <1>1, <1>2, MyshInvariance, PTL DEF Spec

=============================================================================
