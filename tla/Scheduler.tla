----------------------------- MODULE Scheduler -----------------------------
(***************************************************************************)
(* The order in which scheduler() hands out the hart (process.rs).  Every  *)
(* pass sorts the slots by `quants`, the number of times a slot was given  *)
(* the hart, and takes the first Runnable one.  The sort is stable, so     *)
(* slots with equal quants stay in the order of the table.  Process::free  *)
(* does not reset quants: a slot that is used again keeps its count.       *)
(*                                                                         *)
(* `passed` is a history variable: passed[i][j] counts how often j was     *)
(* given the hart since i last became Runnable.                            *)
(***************************************************************************)
EXTENDS Integers

CONSTANTS
    NPROC,          \* slots of the process table
    MaxQuants       \* bound: the scheduler stops before a count exceeds it

ASSUME NprocAssumption == NPROC \in Nat \ {0}
ASSUME MaxQuantsAssumption == MaxQuants \in Nat

Slots == 0 .. NPROC - 1
None  == -1

VARIABLES
    runnable,       \* the slots whose state is Runnable
    current,        \* the slot whose state is Running, or None
    quants,         \* Process::quants
    passed          \* history

vars == <<runnable, current, quants, passed>>

NobodyPassed == [j \in Slots |-> 0]

\* main(): init is Runnable in slot 0.
Init ==
    /\ runnable = {0}
    /\ current = None
    /\ quants = [i \in Slots |-> 0]
    /\ passed = [i \in Slots |-> NobodyPassed]

\* Slip: the order of the table alone, without the sort.
TableOrder(i, j) == i < j

\* Slot i comes before slot j in the sorted order.
Before(i, j) == quants[i] < quants[j] \/ (quants[i] = quants[j] /\ i < j)

\* (*found).quants += 1
Charge(i) == quants' = [quants EXCEPT ![i] = @ + 1]

\* One pass of scheduler() that finds slot i.
Pick(i) ==
    /\ current = None
    /\ i \in runnable
    /\ \A j \in runnable \ {i} : Before(i, j)
    /\ quants[i] < MaxQuants
    /\ Charge(i)
    /\ current' = i
    /\ runnable' = runnable \ {i}
    /\ passed' = [k \in Slots |->
                    IF k \in runnable \ {i} THEN [passed[k] EXCEPT ![i] = @ + 1]
                                            ELSE NobodyPassed]

\* yeld(): the running process stays Runnable.
Yeld ==
    /\ current # None
    /\ runnable' = runnable \cup {current}
    /\ current' = None
    /\ UNCHANGED <<quants, passed>>

\* kwait() sleeps or kexit() ends.
Block ==
    /\ current # None
    /\ current' = None
    /\ UNCHANGED <<runnable, quants, passed>>

\* The running process makes another one Runnable: kfork() in a free slot,
\* or wakeup() in kexit().
MakeRunnable(i) ==
    /\ current # None
    /\ i \notin runnable \cup {current}
    /\ runnable' = runnable \cup {i}
    /\ UNCHANGED <<current, quants, passed>>

Next ==
    \/ \E i \in Slots : Pick(i) \/ MakeRunnable(i)
    \/ Yeld \/ Block

Spec == Init /\ [][Next]_vars

-----------------------------------------------------------------------------
(* Properties.                                                              *)

\* The variables have their types; a count of quants is never negative.
TypeOK ==
    /\ runnable \in SUBSET Slots
    /\ current \in Slots \cup {None}
    /\ quants \in [Slots -> Nat]
    /\ passed \in [Slots -> [Slots -> Nat]]

\* No starvation by the order of scheduler(): a slot that overtakes a waiting
\* one ends at most one quant ahead of it, so a Runnable process is passed
\* over by slot j at most quants[i] + 1 times, whatever the others do.
BoundedBypass ==
    \A i \in runnable, j \in Slots :
        passed[i][j] > 0 => /\ quants[j] <= quants[i] + 1
                            /\ passed[i][j] <= quants[j]

=============================================================================
