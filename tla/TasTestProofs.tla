--------------------------- MODULE TasTestProofs ---------------------------
(***************************************************************************)
(* Proofs about the spin lock test of TasTest, for every number of         *)
(* children and of increments: the lock excludes, and no increment is lost.*)
(***************************************************************************)
EXTENDS TasTest, FiniteSetTheorems, TLAPS

-----------------------------------------------------------------------------
(***************************************************************************)
(* The inductive invariant.  LockExclusive does not carry FinalValue: the  *)
(* counter has to be related to what each child has done so far.           *)
(***************************************************************************)
\* The loop index goes with the statement a child is at.
LoopIndex ==
  \A c \in Children :
    /\ c <= forked <=> pc[c] # "unborn"
    /\ pc[c] = "unborn" => j[c] = 0
    /\ pc[c] = "ended" <=> j[c] = Increments

\* The counter does not change between the load and the store of a child.
LoadFresh == \A c \in Children : pc[c] = "store" => reg[c] = counter

\* The increments made, each named by its child and its round.
Rounds == 0 .. Increments - 1
Made == {r \in Children \X Rounds :
           r[2] < j[r[1]] \/ (r[2] = j[r[1]] /\ pc[r[1]] = "unlock")}

CounterExact == counter = Cardinality(Made)

TasInv == TasTypeOK /\ LockExclusive /\ LoopIndex /\ LoadFresh /\ CounterExact

-----------------------------------------------------------------------------
\* The increments that can be made are finitely many.
LEMMA MadeFinite == IsFiniteSet(Children \X Rounds) /\ IsFiniteSet(Made)
<1>1. IsFiniteSet(Children) /\ IsFiniteSet(Rounds)
  BY FS_Interval, TasTestAssumption DEF Children, Rounds
<1>2. IsFiniteSet(Children \X Rounds)
  BY <1>1, FS_Product
<1>3. Made \in SUBSET (Children \X Rounds)
  BY DEF Made
<1>4. QED
  BY <1>2, <1>3, FS_Subset

\* The parent's setup establishes the invariant.
LEMMA InitInv == Init => TasInv
<1> SUFFICES ASSUME Init PROVE TasInv
  OBVIOUS
<1> USE TasTestAssumption DEF Init, Children
<1>0. lock \in BOOLEAN
  OBVIOUS
<1>1. TasTypeOK
  BY <1>0 DEF TasTypeOK
<1>2. LockExclusive /\ LoopIndex /\ LoadFresh
  BY DEF LockExclusive, LoopIndex, LoadFresh
<1>3. Made = {}
  BY DEF Made, Rounds
<1>4. CounterExact
  BY <1>3, FS_EmptySet DEF CounterExact
<1>5. QED
  BY <1>1, <1>2, <1>4 DEF TasInv

\* The steps of the parent make no increment.
LEMMA ParentInv == ASSUME TasInv, Fork \/ Return PROVE TasInv'
<1> USE TasTestAssumption DEF TasInv
<1>1. CASE Fork
  <2>0. lock' \in BOOLEAN
    BY <1>1 DEF Fork, TasTypeOK
  <2>1. CASE UNCHANGED <<forked, pc>>
    <3>1. TasTypeOK'
      BY <1>1, <2>0, <2>1 DEF Fork, TasTypeOK
    <3>2. LockExclusive' /\ LoopIndex' /\ LoadFresh' /\ CounterExact'
      BY <1>1, <2>1 DEF Fork, LockExclusive, LoopIndex, LoadFresh, CounterExact, Made
    <3>3. QED
      BY <3>1, <3>2
  <2>2. CASE forked' = forked + 1 /\ pc' = [pc EXCEPT ![forked + 1] = "tas"]
    <3>1. forked + 1 \in Children /\ forked \in Nat
      BY <1>1 DEF Fork, TasTypeOK, Children
    <3>2. pc[forked + 1] = "unborn"
      BY <3>1 DEF LoopIndex, Children
    <3>3. TasTypeOK'
      BY <1>1, <2>0, <2>2, <3>1 DEF Fork, TasTypeOK, Children
    <3>4. LockExclusive' /\ LoadFresh'
      BY <1>1, <2>2, <3>1 DEF Fork, TasTypeOK, LockExclusive, LoadFresh
    <3>5. LoopIndex'
      BY <1>1, <2>2, <3>1, <3>2 DEF Fork, TasTypeOK, LoopIndex, Children
    <3>6. \A c \in Children : pc'[c] = "unlock" <=> pc[c] = "unlock"
      BY <2>2, <3>1, <3>2 DEF TasTypeOK
    <3>7. Made' = Made
      BY <1>1, <3>6 DEF Fork, Made
    <3>8. QED
      BY <1>1, <3>3, <3>4, <3>5, <3>7 DEF Fork, CounterExact
  <2>3. QED
    BY <1>1, <2>1, <2>2 DEF Fork
<1>2. CASE Return
  BY <1>2 DEF Return, TasTypeOK, LockExclusive, LoopIndex, LoadFresh, CounterExact, Made
<1>3. QED
  BY <1>1, <1>2

\* A step of a child other than its store leaves the increments made alone:
\* the unlock moves the last one from the statement to the loop index.
LEMMA ChildInv ==
  ASSUME TasInv, NEW c \in Children, Tas(c) \/ Load(c) \/ Unlock(c)
  PROVE  TasInv'
<1> USE TasTestAssumption DEF TasInv, Moves
<1>1. CASE Tas(c)
  <2> USE <1>1 DEF Tas
  <2>0. lock' \in BOOLEAN
    BY DEF TasTypeOK
  <2>1. TasTypeOK'
    BY <2>0 DEF TasTypeOK
  <2>2. LockExclusive' /\ LoopIndex' /\ LoadFresh'
    BY DEF TasTypeOK, LockExclusive, LoopIndex, LoadFresh
  <2>3. Made' = Made
    BY DEF Made, TasTypeOK
  <2>4. QED
    BY <2>1, <2>2, <2>3 DEF CounterExact
<1>2. CASE Load(c)
  <2> USE <1>2 DEF Load
  <2>0. lock' \in BOOLEAN
    BY DEF TasTypeOK
  <2>1. TasTypeOK'
    BY <2>0 DEF TasTypeOK
  <2>2. LockExclusive' /\ LoopIndex' /\ LoadFresh'
    BY DEF TasTypeOK, LockExclusive, LoopIndex, LoadFresh
  <2>3. Made' = Made
    BY DEF Made, TasTypeOK
  <2>4. QED
    BY <2>1, <2>2, <2>3 DEF CounterExact
<1>3. CASE Unlock(c)
  <2> USE <1>3 DEF Unlock
  <2>1. j[c] \in 0 .. Increments - 1
    BY DEF TasTypeOK, LoopIndex
  <2>0. lock' \in BOOLEAN
    OBVIOUS
  <2>2. TasTypeOK'
    BY <2>0, <2>1 DEF TasTypeOK
  <2>3. LockExclusive' /\ LoadFresh'
    BY DEF TasTypeOK, LockExclusive, LoadFresh
  <2>4. LoopIndex'
    BY <2>1 DEF TasTypeOK, LoopIndex, Children
  <2>5. ASSUME NEW r \in Children \X Rounds
        PROVE  r \in Made' <=> r \in Made
    <3>1. r[1] \in Children /\ r[2] \in 0 .. Increments - 1
      BY DEF Rounds
    <3>2. CASE r[1] = c
      BY <2>1, <3>1, <3>2 DEF Made, TasTypeOK
    <3>3. CASE r[1] # c
      BY <3>1, <3>3 DEF Made, TasTypeOK
    <3>4. QED
      BY <3>2, <3>3
  <2>6. Made' = Made
    BY <2>5 DEF Made
  <2>7. QED
    BY <2>2, <2>3, <2>4, <2>6 DEF CounterExact
<1>4. QED
  BY <1>1, <1>2, <1>3

\* A store makes one increment more: the counter it writes back is still the
\* one it read, since no other child is between its load and its unlock.
LEMMA StoreInv == ASSUME TasInv, NEW c \in Children, Store(c) PROVE TasInv'
<1> USE TasTestAssumption DEF TasInv, Moves, Store
<1>0. lock' \in BOOLEAN
  BY DEF TasTypeOK
<1>1. TasTypeOK'
  BY <1>0 DEF TasTypeOK
<1>2. LockExclusive' /\ LoopIndex' /\ LoadFresh'
  BY DEF TasTypeOK, LockExclusive, LoopIndex, LoadFresh
<1>3. j[c] \in Rounds
  BY DEF TasTypeOK, LoopIndex, Rounds
<1>4. <<c, j[c]>> \notin Made
  BY DEF Made, TasTypeOK, Rounds
<1>5. Made' = Made \cup {<<c, j[c]>>}
  BY <1>3 DEF Made, TasTypeOK, Rounds
<1>6. Cardinality(Made') = Cardinality(Made) + 1
  BY <1>4, <1>5, MadeFinite, FS_AddElement
<1>7. CounterExact'
  BY <1>6 DEF CounterExact, LoadFresh, TasTypeOK
<1>8. QED
  BY <1>1, <1>2, <1>7

\* Every step preserves the invariant.
LEMMA NextInv == TasInv /\ [Next]_vars => TasInv'
<1> SUFFICES ASSUME TasInv, [Next]_vars PROVE TasInv'
  OBVIOUS
<1>1. CASE Fork \/ Return
  BY <1>1, ParentInv
<1>2. ASSUME NEW c \in Children, Child(c) PROVE TasInv'
  BY <1>2, ChildInv, StoreInv DEF Child
<1>3. CASE UNCHANGED vars
  BY <1>3 DEF vars, TasInv, TasTypeOK, LockExclusive, LoopIndex, LoadFresh, CounterExact, Made
<1>4. QED
  BY <1>1, <1>2, <1>3 DEF Next

\* The invariant holds throughout.
LEMMA Invariance == Spec => []TasInv
BY InitInv, NextInv, PTL DEF Spec

-----------------------------------------------------------------------------
\* The shared ints, the loop indices and the statements keep their types
\* (tasTest.c:52-70).
THEOREM TypeCorrect == Spec => []TasTypeOK
<1>1. TasInv => TasTypeOK
  BY DEF TasInv
<1>2. QED
  BY <1>1, Invariance, PTL

\* At most one child is in the critical section (tasTest.c:66-69).
THEOREM MutualExclusion == Spec => []LockExclusive
<1>1. TasInv => LockExclusive
  BY DEF TasInv
<1>2. QED
  BY <1>1, Invariance, PTL

\* Once all children there are have ended, the shared int counts their
\* increments exactly (tasTest.c:65-70, 113).
THEOREM NoIncrementIsLost == Spec => []FinalValue
<1>1. ASSUME TasInv, AllEnded PROVE counter = forked * Increments
  <2> USE TasTestAssumption DEF TasInv
  <2>1. forked \in Nat /\ Born \subseteq Children
    BY <1>1 DEF TasTypeOK, Born, Children
  <2>2. \A c \in Children : IF c \in Born THEN j[c] = Increments /\ pc[c] = "ended"
                                          ELSE j[c] = 0 /\ pc[c] = "unborn"
    BY <1>1, <2>1 DEF AllEnded, LoopIndex, Born, Children
  <2>3. Made = Born \X Rounds
    BY <2>1, <2>2 DEF Made, Rounds
  <2>4. IsFiniteSet(Born) /\ Cardinality(Born) = forked
    BY <2>1, FS_Interval DEF Born
  <2>5. IsFiniteSet(Rounds) /\ Cardinality(Rounds) = Increments
    BY FS_Interval DEF Rounds
  <2>6. QED
    BY <1>1, <2>3, <2>4, <2>5, FS_Product DEF CounterExact
<1>2. TasInv => FinalValue
  BY <1>1 DEF FinalValue
<1>3. QED
  BY <1>2, Invariance, PTL

=============================================================================
