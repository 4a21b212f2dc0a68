------------------------------- MODULE Timer -------------------------------
(***************************************************************************)
(* The timer: kerneltrap() and usertrap() read the time CSR, announce when *)
(* the next timer interrupt is due and write stimecmp (trap.rs).           *)
(*                                                                         *)
(* time counts 64 bits, of which a 32-bit read returns the lower ones;     *)
(* stimecmp is the lower half of the compare register and nothing ever     *)
(* writes the upper half, stimecmph, which is 0.  So the interrupt is      *)
(* pending while the full time is at least stimecmp, and the first one     *)
(* comes at once, although init_trap() does not request it.                *)
(*                                                                         *)
(* The sum time + 1000000 is checked in a development build and wraps in a *)
(* release build.                                                          *)
(***************************************************************************)
EXTENDS Integers

CONSTANTS
    WORD,       \* values of a 32-bit register (scaled down)
    PERIOD,     \* 1000000 (scaled down)
    MaxDelay,   \* most ticks from the read of time to the end of the handler
    MaxStep,    \* most ticks more before the first instruction after it is done
    MaxTime     \* bound: the last tick

ASSUME TimerAssumption ==
    /\ WORD \in Nat \ {0} /\ PERIOD \in Nat /\ PERIOD < WORD
    /\ MaxDelay \in Nat /\ MaxStep \in Nat /\ MaxTime \in Nat

VARIABLES
    time,       \* the full 64 bits
    stimecmp,
    at,         \* "run": interrupts enabled; in a handler; or "panic"
    read,       \* the handler's local time
    delay,      \* ticks since the handler read the time, until ran
    checks,     \* whether the build checks overflow
    step,       \* history: toggled by every instruction that runs
    ran,        \* history: an instruction ran since the last handler
    due         \* history: the full time announced for the next interrupt

vars == <<time, stimecmp, at, read, delay, checks, step, ran, due>>

Pending == time >= stimecmp

Init ==
    /\ time = 0 /\ stimecmp = 0 /\ at = "run" /\ read = 0 /\ delay = 0
    /\ checks \in BOOLEAN /\ step = 0 /\ ran = TRUE /\ due = 0

\* A handler that has read the time, and what follows it up to the end of the
\* first instruction.
InHandler    == at \in {"write", "return"}
AfterHandler == at = "run" /\ ~ran

\* Time passes, in a handler no more than MaxDelay ticks, and no more than
\* MaxStep further ones before an instruction of the interrupted code is done.
Tick ==
    /\ time < MaxTime
    /\ at # "panic"
    /\ InHandler => delay < MaxDelay
    /\ AfterHandler => delay < MaxDelay + MaxStep
    /\ time' = time + 1
    /\ delay' = IF InHandler \/ AfterHandler THEN delay + 1 ELSE delay
    /\ UNCHANGED <<stimecmp, at, read, checks, step, ran, due>>

\* An instruction of code that runs with interrupts enabled: a pending one is
\* taken first.
Instruction ==
    /\ at = "run" /\ ~Pending
    /\ step' = 1 - step /\ ran' = TRUE /\ delay' = 0
    /\ UNCHANGED <<time, stimecmp, at, read, checks, due>>

TimerInterrupt ==
    /\ at = "run" /\ Pending
    /\ at' = "read"
    /\ UNCHANGED <<time, stimecmp, read, delay, checks, step, ran, due>>

\* Slip: the period is added twice.
NextTwice(t) == t + 2 * PERIOD

\* Slip: what is written is the period, as if stimecmp counted down.
NextRelative(t) == PERIOD

\* Slip: the period is left out.
NextNow(t) == t

\* time + 1000000 as it is written to stimecmp.
Next32(t) == (t + PERIOD) % WORD

\* let time = read_csr!(time), and the announcement "next timer on", whose sum
\* overflows before the one that is written.
ReadTime ==
    /\ at = "read"
    /\ read' = time % WORD
    /\ due' = time + PERIOD
    /\ delay' = 0
    /\ at' = IF checks /\ (time % WORD) + PERIOD >= WORD THEN "panic" ELSE "write"
    /\ UNCHANGED <<time, stimecmp, checks, step, ran>>

WriteCompare ==
    /\ at = "write"
    /\ stimecmp' = Next32(read)
    /\ at' = "return"
    /\ UNCHANGED <<time, read, delay, checks, step, ran, due>>

\* yeld() and sret: some process goes on with interrupts enabled.
Return ==
    /\ at = "return"
    /\ at' = "run"
    /\ ran' = FALSE /\ read' = 0
    /\ UNCHANGED <<time, stimecmp, delay, checks, step, due>>

Next == Tick \/ Instruction \/ TimerInterrupt \/ ReadTime \/ WriteCompare \/ Return

Spec == Init /\ [][Next]_vars

\* The hart runs; time need not pass for it.
Fairness == /\ WF_vars(Instruction) /\ WF_vars(TimerInterrupt)
            /\ WF_vars(ReadTime) /\ WF_vars(WriteCompare) /\ WF_vars(Return)

LiveSpec == Spec /\ Fairness

-----------------------------------------------------------------------------
(* Properties.                                                              *)

\* "next timer on": after a timer interrupt the next one is not taken before
\* the time that the handler announced.
TimerNotEarly == [][TimerInterrupt => time >= due]_vars

\* Preemption: no instruction runs with interrupts enabled once the announced
\* time has come.
TimerNotLate == [][Instruction => time < due]_vars

\* The code that the timer interrupts gets on: between two timer interrupts
\* at least one instruction runs with interrupts enabled, so the handlers do
\* not eat up the hart.  This needs the period that the handler writes, and a
\* handler (prints included) that is done well within the period.
InstructionsInBetween == [][TimerInterrupt => ran]_vars

=============================================================================
