----------------------------- MODULE LifeCycle -----------------------------
(***************************************************************************)
(* What fork, exit and wait promise to user programs: the abstract         *)
(* specification that module KernelLife shows the kernel to implement.     *)
(* There are no slots, locks, interrupts, sleeping or scheduling here, and *)
(* every call takes effect at once.  A process is known by its pid; pids   *)
(* are handed out in order and never used twice.                           *)
(***************************************************************************)
EXTENDS Integers

CONSTANT
    Status(_)       \* the status that the process with a given pid exits with

VARIABLES
    alive,      \* the pids of the processes that run
    zombies,    \* the pids of those that ended and were not waited for yet
    parent,     \* parent[p]: the pid of the parent of p, None for init
    next,       \* the pid of the next process
    answer      \* answer[p]: what the last wait of the living process p gave

lifeVars == <<alive, zombies, parent, next, answer>>

None    == -1
Nothing == <<None, 0>>      \* no wait since the last system call
NoKids  == <<None, 1>>      \* wait returned -1

KidsOf(p) == {q \in alive \cup zombies : parent[q] = p}

\* The function f on the set S only.
On(f, S) == [x \in S |-> f[x]]

Init ==
    /\ alive = {0}
    /\ zombies = {}
    /\ parent = [p \in {0} |-> None]
    /\ next = 1
    /\ answer = [p \in {0} |-> Nothing]

\* A system call forgets what the call before it answered.
Call(p) ==
    /\ p \in alive
    /\ answer' = [answer EXCEPT ![p] = Nothing]
    /\ UNCHANGED <<alive, zombies, parent, next>>

Fork(p) ==
    /\ p \in alive
    /\ alive' = alive \cup {next}
    /\ parent' = [q \in alive \cup zombies \cup {next} |->
                    IF q = next THEN p ELSE parent[q]]
    /\ answer' = [q \in alive \cup {next} |->
                    IF q = next THEN Nothing ELSE answer[q]]
    /\ next' = next + 1
    /\ UNCHANGED zombies

\* The children of a process that ends, zombies too, become children of init.
Exit(p) ==
    /\ p \in alive \ {0}
    /\ alive' = alive \ {p}
    /\ zombies' = zombies \cup {p}
    /\ parent' = [q \in alive \cup zombies |->
                    IF parent[q] = p THEN 0 ELSE parent[q]]
    /\ answer' = On(answer, alive')
    /\ UNCHANGED next

\* wait takes one child that ended and tells its pid and status.
WaitChild(p, z) ==
    /\ p \in alive
    /\ z \in zombies \cap KidsOf(p)
    /\ zombies' = zombies \ {z}
    /\ parent' = On(parent, alive \cup zombies')
    /\ answer' = [answer EXCEPT ![p] = <<z, Status(z)>>]
    /\ UNCHANGED <<alive, next>>

\* wait fails only for a process without children.
WaitFails(p) ==
    /\ p \in alive
    /\ KidsOf(p) = {}
    /\ answer' = [answer EXCEPT ![p] = NoKids]
    /\ UNCHANGED <<alive, zombies, parent, next>>

Next ==
    \/ \E p \in alive : Call(p) \/ Fork(p) \/ Exit(p) \/ WaitFails(p)
    \/ \E p \in alive, z \in zombies : WaitChild(p, z)

Spec == Init /\ [][Next]_lifeVars

=============================================================================
