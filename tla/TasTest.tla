------------------------------ MODULE TasTest ------------------------------
(***************************************************************************)
(* The spin lock test of ps7/tasTest.c: a process forks children that each *)
(* increment a shared int under the lock of tas64.S, and does not wait for *)
(* them.  The value they leave behind is what the test prints.             *)
(*                                                                         *)
(* map[0] += 1 is a read and a write; a tas that finds the lock held is a  *)
(* stuttering step.                                                        *)
(***************************************************************************)
EXTENDS Integers, FiniteSets

CONSTANTS
  N_PROC,       \* N_PROC, the number of children
  Increments    \* the increments of each child, 100000 in the code

ASSUME TasTestAssumption ==
  /\ N_PROC \in Nat
  /\ Increments \in Nat \ {0}

Children == 1 .. N_PROC

VARIABLES
  counter,      \* map[0]
  lock,         \* map[1]
  forked,       \* how many children the parent has forked: its i
  parent,       \* whether the parent still forks, has returned, or failed
  pc,           \* the statement of each child
  reg,          \* the counter a child has read
  j             \* the loop index of each child

vars == <<counter, lock, forked, parent, pc, reg, j>>

TasTypeOK ==
  /\ counter \in Nat
  /\ lock \in BOOLEAN
  /\ forked \in 0 .. N_PROC
  /\ parent \in {"forking", "returned", "failed"}
  /\ pc \in [Children -> {"unborn", "tas", "load", "store", "unlock", "ended"}]
  /\ reg \in [Children -> Nat]
  /\ j \in [Children -> 0 .. Increments]

Init ==
  /\ counter = 0
  /\ lock = FALSE
  /\ forked = 0
  /\ parent = "forking"
  /\ pc = [c \in Children |-> "unborn"]
  /\ reg = [c \in Children |-> 0]
  /\ j = [c \in Children |-> 0]

-----------------------------------------------------------------------------
Fork ==
  /\ parent = "forking" /\ forked < N_PROC
  /\ \/ /\ forked' = forked + 1
        /\ pc' = [pc EXCEPT ![forked + 1] = "tas"]
        /\ UNCHANGED parent
     \/ /\ parent' = "failed"
        /\ UNCHANGED <<forked, pc>>
  /\ UNCHANGED <<counter, lock, reg, j>>

Return ==
  /\ parent = "forking" /\ forked = N_PROC
  /\ parent' = "returned"
  /\ UNCHANGED <<counter, lock, forked, pc, reg, j>>

Moves(c, from, to) == pc[c] = from /\ pc' = [pc EXCEPT ![c] = to]

\* Mutant: the lock byte is read and set in two steps.
Tas_Unchecked(c) ==
  /\ Moves(c, "tas", "load")
  /\ lock' = TRUE
  /\ UNCHANGED <<counter, forked, parent, reg, j>>

Tas(c) ==
  /\ Moves(c, "tas", "load")
  /\ ~lock /\ lock' = TRUE
  /\ UNCHANGED <<counter, forked, parent, reg, j>>

Load(c) ==
  /\ Moves(c, "load", "store")
  /\ reg' = [reg EXCEPT ![c] = counter]
  /\ UNCHANGED <<counter, lock, forked, parent, j>>

\* Mutant: the lock is freed before the counter is written back.
Store_Unlocked(c) ==
  /\ Moves(c, "store", "unlock")
  /\ counter' = reg[c] + 1
  /\ lock' = FALSE
  /\ UNCHANGED <<forked, parent, reg, j>>

Store(c) ==
  /\ Moves(c, "store", "unlock")
  /\ counter' = reg[c] + 1
  /\ UNCHANGED <<lock, forked, parent, reg, j>>

\* Mutant: the child that ends keeps the lock.
Unlock_Kept(c) ==
  /\ Moves(c, "unlock", IF j[c] + 1 < Increments THEN "tas" ELSE "ended")
  /\ j' = [j EXCEPT ![c] = @ + 1]
  /\ lock' = ~(j[c] + 1 < Increments)
  /\ UNCHANGED <<counter, forked, parent, reg>>

\* Mutant: the loop runs once too often.
Unlock_OneMore(c) ==
  /\ Moves(c, "unlock", IF j[c] < Increments THEN "tas" ELSE "ended")
  /\ j' = [j EXCEPT ![c] = @ + 1]
  /\ lock' = FALSE
  /\ UNCHANGED <<counter, forked, parent, reg>>

\* The lock is freed, and the loop goes on or the child leaves main.
Unlock(c) ==
  /\ Moves(c, "unlock", IF j[c] + 1 < Increments THEN "tas" ELSE "ended")
  /\ j' = [j EXCEPT ![c] = @ + 1]
  /\ lock' = FALSE
  /\ UNCHANGED <<counter, forked, parent, reg>>

-----------------------------------------------------------------------------
Child(c) == Tas(c) \/ Load(c) \/ Store(c) \/ Unlock(c)

Next == Fork \/ Return \/ \E c \in Children : Child(c)

Spec == Init /\ [][Next]_vars

(***************************************************************************)
(* Every process goes on when it can.  A child may lose any number of      *)
(* races for the lock.                                                     *)
(***************************************************************************)
FairSpec ==
  /\ Spec
  /\ WF_vars(Fork \/ Return)
  /\ \A c \in Children : WF_vars(Child(c))

-----------------------------------------------------------------------------
Born == 1 .. forked
AllEnded == parent # "forking" /\ \A c \in Born : pc[c] = "ended"

\* At most one child is between tas and the unlock, and the lock is then set
\* (tasTest.c:66-69, tas64.S).
LockExclusive ==
  /\ \A c, d \in Children :
       pc[c] \in {"load", "store", "unlock"} /\ pc[d] \in {"load", "store", "unlock"}
         => c = d
  /\ (\E c \in Children : pc[c] \in {"load", "store", "unlock"}) => lock

\* When all the children there are have ended, no increment is lost: the value
\* readFile prints is the number of increments they made (tasTest.c:65-70, 113).
FinalValue == AllEnded => counter = forked * Increments

\* The spinning ends: each child gets the lock often enough to finish, since
\* the others finish too and leave it free (tasTest.c:66-71).
ChildrenEnd == <>AllEnded

=============================================================================
