---------------------------- MODULE TimerProofs ----------------------------
(* Proofs about module Timer.                                               *)
EXTENDS Timer, TLAPS

TypeOK ==
    /\ time \in 0 .. MaxTime /\ stimecmp \in 0 .. WORD - 1
    /\ at \in {"run", "read", "write", "return", "panic"}
    /\ read \in 0 .. WORD - 1 /\ delay \in 0 .. MaxDelay + MaxStep
    /\ checks \in BOOLEAN /\ step \in {0, 1} /\ ran \in BOOLEAN /\ due \in Nat

\* What makes the two action properties inductive while time fits a word: the
\* compare register holds the announced time, in full, whenever interrupts are
\* enabled.
TimerInv ==
    /\ TypeOK
    /\ at # "panic"
    /\ at \in {"run", "return", "read"} => stimecmp = due
    /\ at = "write" => due = read + PERIOD /\ due < WORD

\* The ticks since the handler read the time are those that `delay` counts, up
\* to the end of the first instruction after it.
DelayInv ==
    /\ InHandler => delay <= MaxDelay
    /\ InHandler \/ AfterHandler => due = time - delay + PERIOD

\* While the largest time plus the period fits a word, the low word that
\* kerneltrap() reads is the time itself.
LEMMA LowWordIsTime ==
    ASSUME MaxTime + PERIOD < WORD, NEW t \in 0 .. MaxTime
    PROVE  t % WORD = t /\ (t + PERIOD) % WORD = t + PERIOD
BY TimerAssumption

LEMMA TimerInit ==
    ASSUME Init PROVE TimerInv
BY TimerAssumption DEF Init, TimerInv, TypeOK

\* Every step of the hart keeps the compare register at the announced time.
LEMMA TimerStep ==
    ASSUME MaxTime + PERIOD < WORD, TimerInv, [Next]_vars
    PROVE  TimerInv'
<1> USE TimerAssumption
<1>1. CASE Tick
  BY <1>1 DEF Tick, InHandler, AfterHandler, TimerInv, TypeOK
<1>2. CASE Instruction
  BY <1>2 DEF Instruction, TimerInv, TypeOK
<1>3. CASE TimerInterrupt
  BY <1>3 DEF TimerInterrupt, TimerInv, TypeOK
<1>4. CASE ReadTime
  <2>1. time \in 0 .. MaxTime
    BY DEF TimerInv, TypeOK
  <2>2. time % WORD = time
    BY <2>1, LowWordIsTime
  <2>3. read' = time /\ due' = time + PERIOD /\ at' = "write"
    BY <1>4, <2>1, <2>2 DEF ReadTime
  <2> QED
    BY <1>4, <2>1, <2>3 DEF ReadTime, TimerInv, TypeOK
<1>5. CASE WriteCompare
  <2>1. read \in 0 .. WORD - 1 /\ read + PERIOD < WORD /\ due = read + PERIOD
    BY <1>5 DEF WriteCompare, TimerInv, TypeOK
  <2>2. (read + PERIOD) % WORD = read + PERIOD
    BY <2>1
  <2> QED
    BY <1>5, <2>1, <2>2 DEF WriteCompare, Next32, TimerInv, TypeOK
<1>6. CASE Return
  <2>1. ran' \in BOOLEAN /\ at' = "run" /\ read' = 0 /\ stimecmp = due
    BY <1>6 DEF Return, TimerInv
  <2> QED
    BY <1>6, <2>1 DEF Return, TimerInv, TypeOK
<1>7. CASE UNCHANGED vars
  BY <1>7 DEF vars, TimerInv, TypeOK
<1> QED
  BY <1>1, <1>2, <1>3, <1>4, <1>5, <1>6, <1>7 DEF Next

\* Every step of the hart counts the ticks.
LEMMA DelayStep ==
    ASSUME MaxTime + PERIOD < WORD, TimerInv, DelayInv, [Next]_vars
    PROVE  DelayInv'
<1> USE TimerAssumption DEF InHandler, AfterHandler, TimerInv, TypeOK, DelayInv
<1>1. CASE Tick
  BY <1>1 DEF Tick
<1>2. CASE Instruction
  BY <1>2 DEF Instruction
<1>3. CASE TimerInterrupt
  BY <1>3 DEF TimerInterrupt
<1>4. CASE ReadTime
  BY <1>4 DEF ReadTime
<1>5. CASE WriteCompare
  BY <1>5 DEF WriteCompare
<1>6. CASE Return
  BY <1>6 DEF Return
<1>7. CASE UNCHANGED vars
  BY <1>7 DEF vars
<1> QED
  BY <1>1, <1>2, <1>3, <1>4, <1>5, <1>6, <1>7 DEF Next

\* For as long as the time fits a word (2^32 - 1000000 ticks), a timer
\* interrupt is never taken before the time that kerneltrap() or usertrap()
\* announced, whatever the period and the delay of the handlers.
THEOREM AnnouncedTimeHolds ==
    ASSUME MaxTime + PERIOD < WORD
    PROVE  Spec => TimerNotEarly
<1>1. Init => TimerInv
  BY TimerInit
<1>2. TimerInv /\ [Next]_vars => TimerInv'
  BY TimerStep
<1>3. TimerInv => (TimerInterrupt => time >= due)
  BY TimerAssumption DEF TimerInv, TypeOK, TimerInterrupt, Pending
<1> QED
  BY <1>1, <1>2, <1>3, PTL DEF Spec, TimerNotEarly

\* In the same span no instruction runs with interrupts enabled at or after
\* the announced time: the timer preempts every process.
THEOREM PreemptionInTime ==
    ASSUME MaxTime + PERIOD < WORD
    PROVE  Spec => TimerNotLate
<1>1. Init => TimerInv
  BY TimerInit
<1>2. TimerInv /\ [Next]_vars => TimerInv'
  BY TimerStep
<1>3. TimerInv => (Instruction => time < due)
  BY TimerAssumption DEF TimerInv, TypeOK, Instruction, Pending
<1> QED
  BY <1>1, <1>2, <1>3, PTL DEF Spec, TimerNotLate

\* In the same span, if a handler and one instruction after it are done within
\* the period, an instruction runs between any two timer interrupts: no
\* process is kept from running by interrupts that follow each other at once.
THEOREM HandlersLeaveTime ==
    ASSUME MaxTime + PERIOD < WORD, MaxDelay + MaxStep < PERIOD
    PROVE  Spec => InstructionsInBetween
<1>1. Init => TimerInv /\ DelayInv
  <2>1. Init => DelayInv
    BY DEF Init, DelayInv, InHandler, AfterHandler
  <2> QED
    BY <2>1, TimerInit
<1>2. TimerInv /\ DelayInv /\ [Next]_vars => (TimerInv /\ DelayInv)'
  BY TimerStep, DelayStep
<1>3. TimerInv /\ DelayInv => (TimerInterrupt => ran)
  BY TimerAssumption DEF TimerInv, TypeOK, DelayInv, AfterHandler, TimerInterrupt, Pending
<1> QED
  BY <1>1, <1>2, <1>3, PTL DEF Spec, InstructionsInBetween

=============================================================================
