-------------------------- MODULE SchedulerProofs --------------------------
(***************************************************************************)
(* Proofs about module Scheduler for every size of the process table and   *)
(* every bound on the counts.                                              *)
(***************************************************************************)
EXTENDS Scheduler, TLAPS

\* BoundedBypass is inductive together with the types, with the fact that the
\* running slot is not Runnable, and with the fact that the history of a slot
\* that is not waiting is empty.
IInv ==
    /\ TypeOK
    /\ current \notin runnable
    /\ \A i \in Slots \ runnable : passed[i] = NobodyPassed
    /\ BoundedBypass

\* What main() leaves behind satisfies the invariant.
LEMMA InitIInv == Init => IInv
<1> USE NprocAssumption DEF Slots, None
<1> SUFFICES ASSUME Init PROVE IInv
  OBVIOUS
<1>1. TypeOK
  BY DEF Init, TypeOK, NobodyPassed
<1>2. current \notin runnable /\ \A i \in Slots \ runnable : passed[i] = NobodyPassed
  BY DEF Init
<1>3. BoundedBypass
  BY DEF Init, BoundedBypass, NobodyPassed
<1> QED
  BY <1>1, <1>2, <1>3 DEF IInv

\* The slot that scheduler() picks is not ahead of any other Runnable slot.
LEMMA PickedIsLeast ==
    ASSUME TypeOK, NEW i \in Slots, Pick(i), NEW k \in runnable \ {i}
    PROVE  quants[i] <= quants[k]
BY DEF TypeOK, Pick, Before, Slots

\* A pass of scheduler() that picks slot i preserves the invariant.
LEMMA PickPreserves ==
    ASSUME IInv, NEW i \in Slots, Pick(i)
    PROVE  IInv'
<1> USE DEF Charge
<1>1. TypeOK'
  <2>1. \A k \in Slots : passed'[k] \in [Slots -> Nat]
    BY DEF IInv, TypeOK, Pick, NobodyPassed
  <2> QED
    BY <2>1 DEF IInv, TypeOK, Pick, NobodyPassed
<1>2. (current \notin runnable)'
  BY DEF IInv, TypeOK, Pick
<1>3. (\A k \in Slots \ runnable : passed[k] = NobodyPassed)'
  BY DEF IInv, TypeOK, Pick, NobodyPassed
<1>4. BoundedBypass'
  <2> SUFFICES ASSUME NEW k \in runnable', NEW j \in Slots, passed'[k][j] > 0
               PROVE  /\ quants'[j] <= quants'[k] + 1
                      /\ passed'[k][j] <= quants'[j]
    BY DEF BoundedBypass
  <2>1. k \in runnable \ {i} /\ k \in Slots /\ quants'[k] = quants[k]
    BY DEF IInv, TypeOK, Pick
  <2>2. passed'[k] = [passed[k] EXCEPT ![i] = @ + 1]
    BY <2>1 DEF Pick
  <2>3. quants[k] \in Nat /\ quants[i] \in Nat /\ quants[j] \in Nat
        /\ passed[k] \in [Slots -> Nat]
    BY <2>1 DEF IInv, TypeOK
  <2>4. CASE j = i
    <3>1. quants'[i] = quants[i] + 1 /\ passed'[k][i] = passed[k][i] + 1
      BY <2>2, <2>3 DEF Pick, IInv, TypeOK
    <3>2. quants[i] <= quants[k]
      BY <2>1, PickedIsLeast DEF IInv
    <3>3. passed[k][i] <= quants[i]
      BY <2>1, <2>3 DEF IInv, BoundedBypass
    <3> QED
      BY <2>1, <2>3, <2>4, <3>1, <3>2, <3>3
  <2>5. CASE j # i
    <3>1. quants'[j] = quants[j] /\ passed'[k][j] = passed[k][j]
      BY <2>2, <2>3, <2>5 DEF Pick, IInv, TypeOK
    <3> QED
      BY <2>1, <3>1 DEF IInv, BoundedBypass
  <2> QED
    BY <2>4, <2>5
<1> QED
  BY <1>1, <1>2, <1>3, <1>4 DEF IInv

\* A slot that becomes Runnable has been passed over by nobody yet.
LEMMA JoinPreserves ==
    ASSUME IInv, NEW i \in Slots \ runnable, runnable' = runnable \cup {i},
           current' \in {current, None}, i # current',
           UNCHANGED <<quants, passed>>
    PROVE  IInv'
<1>1. TypeOK' /\ (current \notin runnable)'
  BY DEF IInv, TypeOK, None, Slots
<1>2. (\A k \in Slots \ runnable : passed[k] = NobodyPassed)'
  BY DEF IInv
<1>3. BoundedBypass'
  <2> SUFFICES ASSUME NEW k \in runnable', NEW j \in Slots, passed[k][j] > 0
               PROVE  /\ quants[j] <= quants[k] + 1
                      /\ passed[k][j] <= quants[j]
    BY DEF BoundedBypass
  <2>1. CASE k = i
    <3>1. passed[k][j] = 0
      BY <2>1 DEF IInv, NobodyPassed
    <3> QED
      BY <3>1
  <2>2. CASE k # i
    BY <2>2 DEF IInv, BoundedBypass
  <2> QED
    BY <2>1, <2>2
<1> QED
  BY <1>1, <1>2, <1>3 DEF IInv

\* Every step preserves the invariant.
LEMMA NextPreserves == IInv /\ [Next]_vars => IInv'
<1> SUFFICES ASSUME IInv, [Next]_vars PROVE IInv'
  OBVIOUS
<1>1. ASSUME NEW i \in Slots, Pick(i) PROVE IInv'
  BY <1>1, PickPreserves
<1>2. ASSUME NEW i \in Slots, MakeRunnable(i) PROVE IInv'
  BY <1>2, JoinPreserves DEF MakeRunnable
<1>3. CASE Yeld
  <2>1. current \in Slots \ runnable /\ current # None
    BY <1>3 DEF IInv, TypeOK, Yeld
  <2> QED
    BY <1>3, <2>1, JoinPreserves DEF Yeld
<1>4. CASE Block
  BY <1>4 DEF Block, IInv, TypeOK, BoundedBypass, None, Slots
<1>5. CASE UNCHANGED vars
  BY <1>5 DEF vars, IInv, TypeOK, BoundedBypass
<1> QED
  BY <1>1, <1>2, <1>3, <1>4, <1>5 DEF Next

\* The invariant holds in every reachable state.
LEMMA Invariance == Spec => []IInv
BY InitIInv, NextPreserves, PTL DEF Spec

\* A Runnable process is overtaken by another slot a bounded number of times:
\* the sort by quants in scheduler() admits no starvation, however many slots
\* there are and whatever the processes do.
THEOREM NoStarvation == Spec => []BoundedBypass
<1>1. IInv => BoundedBypass
  BY DEF IInv
<1> QED
  BY <1>1, Invariance, PTL

=============================================================================
