----------------------------- MODULE TrapProofs -----------------------------
(***************************************************************************)
(* Proofs about module Trap for every number of processes: user code and   *)
(* kernel code find their registers, stacks and page tables again after    *)
(* traps, and no handler is entered in a state that it rejects.            *)
(***************************************************************************)
EXTENDS Trap, TLAPS

\* Records with the fields of registers, CSRs, trapframes and contexts.
IsReg(r) == r = [a0 |-> r.a0, tmp |-> r.tmp, cs |-> r.cs, sp |-> r.sp]
IsCsr(c) == c = [sie |-> c.sie, spie |-> c.spie, spp |-> c.spp, sepc |-> c.sepc,
                 scause |-> c.scause, stvec |-> c.stvec, satp |-> c.satp]
IsFrame(f) == f = [epc |-> f.epc, kernel_satp |-> f.kernel_satp, kernel_sp |-> f.kernel_sp,
                   trap_handler |-> f.trap_handler,
                   a0 |-> f.a0, tmp |-> f.tmp, cs |-> f.cs, sp |-> f.sp]
IsUser(u) == u = [pc |-> u.pc, a0 |-> u.a0, tmp |-> u.tmp, cs |-> u.cs, sp |-> u.sp]

\* What is where; the values are left open.
ShapeInv ==
    /\ mode \in {"U", "S"} /\ IsReg(reg) /\ IsCsr(csr) /\ csr.sie \in BOOLEAN
    /\ current \in Procs \cup {None} /\ ready \in SUBSET Procs
    /\ tf = [p \in Procs |-> tf[p]] /\ \A p \in Procs : IsFrame(tf[p])
    /\ user = [p \in Procs |-> user[p]] /\ \A p \in Procs : IsUser(user[p])
    /\ pt = [p \in Procs |-> pt[p]]
    /\ ctx = [t \in Threads |-> ctx[t]] /\ stack = [t \in Threads |-> stack[t]]
    /\ interrupted = [t \in Threads |-> interrupted[t]]

\* Places in the kernel where interrupts may be enabled: in a system call, in
\* the panic handler, in prepare_return() until interrupts are off, and in scheduler().
CallPlaces  == {"syscall", "lock_off", "exec", "ret", "ret_off", "panic"}
SchedPlaces == {"sched", "window"}
PlacesOf(t) == IF t = Sched THEN SchedPlaces ELSE CallPlaces

\* The trapframe of p has what p must find in user mode; between the two
\* steps of kexec() a0 is ahead.
Consistent(p) == UserPart(tf[p]) = user[p]
PlaceInv(l, p) ==
    IF l = "exec" THEN tf[p].a0 = K(p) /\ tf[p].tmp = user[p].tmp /\ tf[p].cs = user[p].cs
                  ELSE Consistent(p)

\* An interrupt of thread t is being handled: its stack has one frame, which
\* leads back to where t was.
Saved(i) == [a0 |-> i.reg.a0, tmp |-> i.reg.tmp, sepc |-> i.pc,
             sstatus |-> <<"sstatus", "S", TRUE>>]
Hit(t) ==
    LET i == interrupted[t]
    IN  /\ IsReg(i.reg) /\ i.reg.cs = K(t) /\ i.reg.sp = Sp(t, 0)
        /\ \E l \in PlacesOf(t) : i.pc = Kern(l) /\ (t \in Procs => PlaceInv(l, t))
Nested(t) == stack[t] = <<Saved(interrupted[t])>> /\ Hit(t)

\* Process p inside yeld() with these sp and cs, called from usertrap() or
\* from kerneltrap().
Yielding(p, sp, cs) ==
    /\ cs = K(p)
    /\ \/ stack[p] = <<>> /\ sp = Sp(p, 0) /\ Consistent(p)
       \/ Nested(p) /\ sp = Sp(p, 1)

\* Process p can be switched to.
Waiting(p) ==
    /\ ctx[p].ra \in {Kern("forkret"), Kern("sleep_back"), Kern("yeld_back")}
    /\ ctx[p].ra = Kern("forkret") =>
          stack[p] = <<>> /\ ctx[p].sp = Sp(p, 0) /\ Consistent(p)
    /\ ctx[p].ra = Kern("sleep_back") =>
          stack[p] = <<>> /\ ctx[p].sp = Sp(p, 0) /\ ctx[p].cs = K(p) /\ Consistent(p)
    /\ ctx[p].ra = Kern("yeld_back") => Yielding(p, ctx[p].sp, ctx[p].cs)

\* The process whose kernel or user code the hart runs.
OnHart == IF At("sched_back") THEN None ELSE current

\* Every other process waits for the hart, or has an empty stack.
Idle(p) == IF p \in ready THEN Waiting(p) ELSE stack[p] = <<>>
OthersInv == \A p \in Procs \ {OnHart} : Idle(p)

\* While a process runs the scheduler waits in switch().
SchedulerInv ==
    OnHart # None => /\ OnHart \in ready
                     /\ ctx[Sched] = Context(Kern("sched_back"), Sp(Sched, 0), K(Sched))
                     /\ stack[Sched] = <<>>

\* The trapframe of p is prepared for the next trap.
Prepared(p) == /\ tf[p].kernel_sp = Sp(p, 0) /\ tf[p].kernel_satp = KernelSatp
               /\ tf[p].trap_handler = Kern("usertrap")

\* User mode, and uservec: the registers are the user's.
UserInv ==
    /\ current \in Procs /\ stack[current] = <<>> /\ Prepared(current)
    /\ reg.a0 = user[current].a0 /\ reg.tmp = user[current].tmp
    /\ reg.cs = user[current].cs /\ reg.sp = user[current].sp
    /\ csr.satp = UserSatp(current, pt[current])

\* A trap from user mode; the user will go on behind an ecall.
Trapped == /\ csr.spp = "U" /\ ~csr.sie
           /\ user[current].pc = IF csr.scause = "ecall" THEN After(csr.sepc) ELSE csr.sepc

\* usertrap() starts: uservec has saved the registers.
UsertrapInv ==
    /\ current \in Procs /\ stack[current] = <<>> /\ reg.sp = Sp(current, 0)
    /\ csr.satp = KernelSatp /\ Trapped
    /\ tf[current].a0 = user[current].a0 /\ tf[current].tmp = user[current].tmp
    /\ tf[current].cs = user[current].cs /\ tf[current].sp = user[current].sp

\* The CSRs while the kernel runs.
KernelCsr == csr.satp = KernelSatp /\ csr.stvec = Kern("kernelvec")

\* Kernel code of the current process at l, outside of handlers.
CodePlaces == CallPlaces \cup {"locked", "prepare"}
CodeInv(l) ==
    /\ current \in Procs /\ stack[current] = <<>>
    /\ reg.sp = Sp(current, 0) /\ reg.cs = K(current)
    /\ KernelCsr /\ PlaceInv(l, current)
    /\ l \notin CallPlaces => ~csr.sie

UserretInv ==
    /\ current \in Procs /\ stack[current] = <<>> /\ Consistent(current) /\ Prepared(current)
    /\ csr.satp = KernelSatp /\ csr.stvec = Kern("uservec") /\ csr.spp = "U"
    /\ ~csr.sie /\ csr.spie = TRUE /\ csr.sepc = tf[current].epc
    /\ reg.sp = Sp(current, 0) /\ reg.a0 = UserSatp(current, pt[current])

\* The thread that CPU.current stands for, and its handler of interrupts.
Thread == IF current = None THEN Sched ELSE current
KernelvecInv ==
    /\ KernelCsr /\ csr.spp = "S" /\ csr.spie = TRUE /\ ~csr.sie
    /\ stack[Thread] = <<>> /\ reg.sp = Sp(Thread, 0) /\ Hit(Thread)
    /\ interrupted[Thread] = [pc |-> csr.sepc, reg |-> reg]
KtEndInv ==
    /\ KernelCsr /\ ~csr.sie
    /\ Nested(Thread) /\ reg.sp = Sp(Thread, 1) /\ reg.cs = K(Thread)

\* The panic handler with interrupts off, on whatever stack.
HaltInv == KernelCsr /\ ~csr.sie /\ \E d : reg.sp = Sp(Thread, d)

\* yeld() before and after switch(), and the other places switch() returns to.
YeldInv == KernelCsr /\ ~csr.sie /\ current \in Procs /\ Yielding(current, reg.sp, reg.cs)
BackInv(l) ==
    /\ KernelCsr /\ ~csr.sie /\ current \in Procs /\ stack[current] = <<>>
    /\ reg.sp = Sp(current, 0) /\ Consistent(current)
    /\ l = "sleep_back" => reg.cs = K(current)

\* scheduler().
SchedInv(l) ==
    /\ KernelCsr /\ stack[Sched] = <<>> /\ reg.sp = Sp(Sched, 0) /\ reg.cs = K(Sched)
    /\ l # "sched_back" => current = None
    /\ l \notin SchedPlaces => ~csr.sie

Labels == CodePlaces \cup SchedPlaces \cup
          {"uservec", "usertrap", "userret", "kernelvec", "kt_end", "yeld", "yeld_back",
           "sleep_back", "forkret", "pick", "sched_back", "halt"}

\* What holds at place l of the kernel.
AtInv(l) ==
    /\ l \in CodePlaces => CodeInv(l)
    /\ l = "uservec" => UserInv /\ Trapped
    /\ l = "usertrap" => UsertrapInv
    /\ l = "userret" => UserretInv
    /\ l = "kernelvec" => KernelvecInv
    /\ l = "kt_end" => KtEndInv
    /\ l = "halt" => HaltInv
    /\ l \in {"yeld", "yeld_back"} => YeldInv
    /\ l \in {"sleep_back", "forkret"} => BackInv(l)
    /\ l \in SchedPlaces \cup {"pick", "sched_back"} => SchedInv(l)

\* The hart is in user mode or at one of these places.
HartInv ==
    \/ mode = "U" /\ UserInv /\ csr.stvec = Kern("uservec") /\ user[current].pc = pc
    \/ mode = "S" /\ \E l \in Labels : pc = Kern(l) /\ AtInv(l)

\* The inductive invariant.
Inv == ShapeInv /\ HartInv /\ OthersInv /\ SchedulerInv

-----------------------------------------------------------------------------
(* Facts about tokens and places.                                           *)

LEMMA ThreadFacts ==
    /\ Procs \subseteq Threads /\ Sched \in Threads /\ Sched \notin Procs
    /\ None \notin Procs /\ None # Sched /\ 0 \in Procs
BY NprocAssumption DEF Procs, Threads, Sched, None

\* Places and tokens are told apart.
LEMMA KernFacts ==
    /\ \A l, m : Kern(l) = Kern(m) => l = m
    /\ \A t, d : Sp(t, d)[2] = t /\ Sp(t, d)[3] = d
    /\ \A p, b : UserSatp(p, b)[1] = "user" /\ UserSatp(p, b)[2] = p
    /\ \A s, d, t, e : Sp(s, d) = Sp(t, e) => s = t /\ d = e
BY DEF Kern, Sp, UserSatp

\* A stack with one frame.
LEMMA OneFrame ==
    ASSUME NEW f
    PROVE  /\ <<f>> \o <<>> = <<f>> /\ Head(<<f>>) = f /\ Tail(<<f>>) = <<>> /\ <<f>> # <<>>
OBVIOUS

\* The hart is at l.
LEMMA AtFacts ==
    ASSUME HartInv, NEW l, At(l)
    PROVE  AtInv(l)
<1>1. mode = "S" /\ pc = Kern(l)
  BY DEF At
<1>2. PICK m \in Labels : pc = Kern(m) /\ AtInv(m)
  BY <1>1 DEF HartInv
<1>3. l = m
  BY <1>1, <1>2, KernFacts
<1> QED
  BY <1>2, <1>3

\* The hart arrives at l.
LEMMA Arrive ==
    ASSUME ShapeInv', OthersInv', SchedulerInv', NEW l \in Labels,
           mode' = "S", pc' = Kern(l), AtInv(l)'
    PROVE  Inv'
BY DEF Inv, HartInv

\* Where a process is on the hart, in terms of CPU.current.
LEMMA OnHartFacts ==
    ASSUME NEW l, mode = "S", pc = Kern(l)
    PROVE  OnHart = IF l = "sched_back" THEN None ELSE current
BY KernFacts DEF OnHart, At

\* What process p needs is as it was.
Same(p) ==
    /\ tf'[p] = tf[p] /\ user'[p] = user[p] /\ ctx'[p] = ctx[p] /\ stack'[p] = stack[p]
    /\ interrupted'[p] = interrupted[p]

LEMMA IdleKeeps ==
    ASSUME NEW p \in Procs, Same(p), p \in ready' <=> p \in ready, Idle(p)
    PROVE  Idle(p)'
<1>1. Consistent(p)' = Consistent(p)
  BY DEF Same, Consistent, UserPart
<1>2. \A l : PlaceInv(l, p)' = PlaceInv(l, p)
  BY <1>1 DEF Same, PlaceInv
<1>3. Nested(p)' = Nested(p)
  BY <1>2 DEF Same, Nested, Hit, Saved
<1>4. Waiting(p) => Waiting(p)'
  BY <1>1, <1>3 DEF Same, Waiting, Yielding
<1> QED
  BY <1>4 DEF Idle, Same

\* A step of the thread on the hart that the others do not notice.
LEMMA Keep ==
    ASSUME OthersInv, SchedulerInv, OnHart' = OnHart,
           \A p \in Procs \ {OnHart} : Same(p), UNCHANGED ready,
           OnHart # None => ctx'[Sched] = ctx[Sched] /\ stack'[Sched] = stack[Sched]
    PROVE  OthersInv' /\ SchedulerInv'
<1>1. OthersInv'
  BY IdleKeeps DEF OthersInv
<1>2. SchedulerInv'
  BY DEF SchedulerInv
<1> QED
  BY <1>1, <1>2

-----------------------------------------------------------------------------
(* The steps from user mode into the kernel.                                *)

LEMMA UserStepInv ==
    ASSUME Inv, UserStep
    PROVE  Inv'
<1> DEFINE n == After(pc)
           v == U(current, n[2])
<1>1. /\ mode = "U" /\ mode' = "U" /\ pc' = n
      /\ reg' = [a0 |-> v, tmp |-> v, cs |-> v, sp |-> v]
      /\ user' = [user EXCEPT ![current] = [pc |-> n, a0 |-> v, tmp |-> v, cs |-> v, sp |-> v]]
      /\ UNCHANGED <<csr, current, stack, interrupted, tf, ctx, pt, ready>>
  BY DEF UserStep
<1> HIDE DEF n, v
<1>2. UserInv /\ csr.stvec = Kern("uservec") /\ OnHart = current /\ OnHart' = current
  BY <1>1 DEF Inv, HartInv, OnHart, At
<1>3. /\ user'[current] = [pc |-> n, a0 |-> v, tmp |-> v, cs |-> v, sp |-> v]
      /\ \A p \in Procs \ {current} : user'[p] = user[p]
  BY <1>1, <1>2 DEF Inv, ShapeInv, UserInv
<1>4. ShapeInv'
  BY <1>1, <1>2, <1>3 DEF Inv, ShapeInv, UserInv, IsReg, IsUser
<1>5. HartInv'
  BY <1>1, <1>2, <1>3 DEF HartInv, UserInv, Prepared
<1>6. OthersInv' /\ SchedulerInv'
  BY <1>1, <1>2, <1>3, Keep DEF Inv, Same
<1> QED
  BY <1>4, <1>5, <1>6 DEF Inv

LEMMA UserTrapInv ==
    ASSUME Inv, UserTrap
    PROVE  Inv'
<1>1. PICK cause \in {"ecall", "timer", "other"} :
         /\ TakeTrap(cause)
         /\ user' = IF cause = "ecall" THEN [user EXCEPT ![current].pc = After(pc)] ELSE user
  BY DEF UserTrap
<1>2. mode = "U" /\ UNCHANGED <<reg, current, stack, interrupted, tf, ctx, pt, ready>>
  BY DEF UserTrap
<1>3. /\ UserInv /\ csr.stvec = Kern("uservec") /\ user[current].pc = pc
      /\ ShapeInv /\ current \in Procs
  BY <1>2 DEF Inv, HartInv, UserInv
<1>4. /\ mode' = "S" /\ pc' = Kern("uservec") /\ IsCsr(csr')
      /\ csr'.spp = "U" /\ csr'.sie = FALSE /\ csr'.sepc = pc
      /\ csr'.scause = cause /\ csr'.satp = csr.satp
  BY <1>1, <1>2, <1>3 DEF TakeTrap, ShapeInv, IsCsr
<1>5. /\ user' = [p \in Procs |-> user'[p]] /\ IsUser(user'[current])
      /\ user'[current].pc = (IF cause = "ecall" THEN After(pc) ELSE pc)
      /\ user'[current].a0 = user[current].a0 /\ user'[current].tmp = user[current].tmp
      /\ user'[current].cs = user[current].cs /\ user'[current].sp = user[current].sp
      /\ \A p \in Procs \ {current} : user'[p] = user[p]
  <2>1. CASE cause = "ecall"
    BY <1>1, <1>3, <2>1 DEF ShapeInv, IsUser
  <2>2. CASE cause # "ecall"
    BY <1>1, <1>3, <2>2 DEF ShapeInv, IsUser
  <2> QED
    BY <2>1, <2>2
<1>6. ShapeInv'
  BY <1>2, <1>3, <1>4, <1>5 DEF ShapeInv
<1>7. AtInv("uservec")'
  BY <1>2, <1>3, <1>4, <1>5 DEF AtInv, UserInv, Trapped, Prepared, CodePlaces, CallPlaces, SchedPlaces
<1>8. OnHart = current /\ OnHart' = current
  BY <1>2, <1>4, KernFacts DEF OnHart, At
<1>9. OthersInv' /\ SchedulerInv'
  BY <1>2, <1>5, <1>8, Keep DEF Inv, Same
<1> QED
  BY <1>4, <1>6, <1>7, <1>9, Arrive DEF Labels

LEMMA UservecInv ==
    ASSUME Inv, Uservec
    PROVE  Inv'
<1>1. At("uservec") /\ mode = "S" /\ pc = Kern("uservec")
  BY DEF Uservec, At
<1>2. UserInv /\ Trapped /\ ShapeInv /\ current \in Procs
  BY <1>1, AtFacts DEF Inv, AtInv, UserInv
<1>3. csr.satp[2] = current
  BY <1>2, KernFacts DEF UserInv
<1>4. /\ tf' = [tf EXCEPT ![current] = SaveUser(tf[current])]
      /\ reg' = [a0 |-> Junk, tmp |-> Junk, cs |-> reg.cs, sp |-> tf[current].kernel_sp]
      /\ csr' = [csr EXCEPT !.satp = tf[current].kernel_satp]
      /\ pc' = tf[current].trap_handler /\ pt' = [pt EXCEPT ![current] = 0] /\ mode' = "S"
      /\ UNCHANGED <<mode, current, stack, interrupted, ctx, ready, user>>
  BY <1>1, <1>2, <1>3 DEF Uservec, ShapeInv
<1>5. /\ tf' = [p \in Procs |-> tf'[p]] /\ tf'[current] = SaveUser(tf[current])
      /\ \A p \in Procs \ {current} : tf'[p] = tf[p]
      /\ pt' = [p \in Procs |-> pt'[p]]
  BY <1>2, <1>4 DEF ShapeInv
<1>6. /\ IsFrame(tf'[current]) /\ tf'[current].a0 = reg.a0 /\ tf'[current].tmp = reg.tmp
      /\ tf'[current].cs = reg.cs /\ tf'[current].sp = reg.sp
  BY <1>2, <1>5 DEF ShapeInv, IsFrame, SaveUser
<1>7. /\ IsCsr(csr') /\ csr'.satp = KernelSatp /\ csr'.sie = csr.sie /\ csr'.spp = csr.spp
      /\ csr'.scause = csr.scause /\ csr'.sepc = csr.sepc
      /\ pc' = Kern("usertrap") /\ reg'.sp = Sp(current, 0) /\ IsReg(reg')
  BY <1>2, <1>4 DEF ShapeInv, IsCsr, UserInv, Prepared, IsReg
<1>8. ShapeInv'
  BY <1>2, <1>4, <1>5, <1>6, <1>7 DEF ShapeInv
<1>9. AtInv("usertrap")'
  BY <1>2, <1>4, <1>6, <1>7
  DEF AtInv, UserInv, UsertrapInv, Trapped, CodePlaces, CallPlaces, SchedPlaces
<1>10. OnHart = current /\ OnHart' = current
  BY <1>1, <1>4, <1>7, KernFacts DEF OnHart, At
<1>11. OthersInv' /\ SchedulerInv'
  BY <1>4, <1>5, <1>10, Keep DEF Inv, Same
<1> QED
  BY <1>4, <1>7, <1>8, <1>9, <1>11, Arrive DEF Labels

\* A step of kernel code from l to m that keeps the hart.
LEMMA CodeStep ==
    ASSUME Inv, NEW l, NEW m \in Labels, At(l), l # "sched_back", m # "sched_back",
           mode' = "S", pc' = Kern(m), UNCHANGED <<current, ready>>,
           \A p \in Procs \ {current} : Same(p),
           current # None => ctx'[Sched] = ctx[Sched] /\ stack'[Sched] = stack[Sched],
           ShapeInv', AtInv(m)'
    PROVE  Inv'
<1>1. OnHart = current /\ OnHart' = current
  BY KernFacts DEF OnHart, At
<1>2. OthersInv' /\ SchedulerInv'
  BY <1>1, Keep DEF Inv
<1> QED
  BY <1>2, Arrive

LEMMA UsertrapStepInv ==
    ASSUME Inv, Usertrap
    PROVE  Inv'
<1>0. PICK call \in BOOLEAN : call <=> csr.scause = "ecall"
  OBVIOUS
<1>m. PICK m \in {"syscall", "yeld", "halt"} :
         m = CASE csr.scause = "ecall" -> "syscall"
               [] csr.scause = "timer" -> "yeld"
               [] OTHER -> "halt"
  OBVIOUS
<1>1. At("usertrap") /\ mode = "S" /\ mode' = "S"
  BY DEF Usertrap, At
<1>2. UsertrapInv /\ Trapped /\ ShapeInv /\ current \in Procs /\ Self = current
  <2>1. UsertrapInv /\ ShapeInv
    BY <1>1, AtFacts DEF Inv, AtInv
  <2> QED
    BY <2>1, KernFacts DEF UsertrapInv, Self
<1>3. PICK e : e = IF call THEN After(csr.sepc) ELSE csr.sepc
  OBVIOUS
<1>4. /\ tf' = [tf EXCEPT ![current].epc = e] /\ csr' = Enters(call) /\ pc' = Kern(m)
      /\ reg' = Working(current)
      /\ UNCHANGED <<current, stack, interrupted, ctx, pt, ready, user>>
  BY <1>0, <1>m, <1>2, <1>3 DEF Usertrap
<1>5. /\ tf' = [p \in Procs |-> tf'[p]] /\ tf'[current] = [tf[current] EXCEPT !.epc = e]
      /\ \A p \in Procs \ {current} : tf'[p] = tf[p]
  BY <1>2, <1>4 DEF ShapeInv
<1>6. IsFrame(tf'[current]) /\ UserPart(tf'[current]) = user'[current]
  <2>1. IsFrame(tf[current]) /\ IsUser(user[current])
    BY <1>2 DEF ShapeInv
  <2>2. /\ IsFrame(tf'[current]) /\ tf'[current].epc = e
        /\ tf'[current].a0 = tf[current].a0 /\ tf'[current].tmp = tf[current].tmp
        /\ tf'[current].cs = tf[current].cs /\ tf'[current].sp = tf[current].sp
    BY <1>5, <2>1 DEF IsFrame
  <2>3. user[current].pc = e
    BY <1>0, <1>2, <1>3 DEF Trapped
  <2> QED
    BY <1>2, <1>4, <2>1, <2>2, <2>3 DEF UserPart, UsertrapInv, IsUser
<1>7. /\ IsCsr(csr') /\ csr'.satp = KernelSatp /\ csr'.stvec = Kern("kernelvec")
      /\ csr'.sie = call /\ csr'.sie \in BOOLEAN
  BY <1>2, <1>4 DEF ShapeInv, IsCsr, UsertrapInv, Enters
<1>8. IsReg(reg') /\ reg'.sp = Sp(current, 0) /\ reg'.cs = K(current)
  BY <1>4 DEF Working, IsReg
<1>9. ShapeInv'
  BY <1>1, <1>2, <1>4, <1>5, <1>6, <1>7, <1>8 DEF ShapeInv
<1>10. AtInv(m)'
  <2>1. CASE call
    <3>1. CodeInv("syscall")'
      BY <1>2, <1>4, <1>6, <1>7, <1>8, <2>1
      DEF CodeInv, KernelCsr, PlaceInv, Consistent, CallPlaces, UsertrapInv
    <3> QED
      BY <1>0, <1>m, <2>1, <3>1 DEF AtInv, SchedPlaces
  <2>2. CASE csr.scause = "timer"
    <3>1. YeldInv'
      BY <1>0, <1>2, <1>4, <1>6, <1>7, <1>8, <2>2
      DEF YeldInv, KernelCsr, Yielding, Consistent, UsertrapInv
    <3> QED
      BY <1>m, <2>2, <3>1 DEF AtInv, SchedPlaces, CodePlaces, CallPlaces
  <2>3. CASE csr.scause # "ecall" /\ csr.scause # "timer"
    <3>1. HaltInv'
      BY <1>0, <1>2, <1>4, <1>7, <1>8, <2>3, ThreadFacts DEF HaltInv, KernelCsr, Thread
    <3> QED
      BY <1>m, <2>3, <3>1 DEF AtInv, SchedPlaces, CodePlaces, CallPlaces
  <2> QED
    BY <1>0, <2>1, <2>2, <2>3
<1>11. m \in Labels /\ m # "sched_back"
  BY DEF Labels, CodePlaces, CallPlaces
<1> QED
  BY <1>1, <1>2, <1>4, <1>5, <1>9, <1>10, <1>11, CodeStep, ThreadFacts DEF Same

-----------------------------------------------------------------------------
(* The system call.                                                         *)

\* Kernel code of the current process.
LEMMA CodeFacts ==
    ASSUME Inv, NEW l \in CodePlaces, At(l)
    PROVE  CodeInv(l) /\ ShapeInv /\ current \in Procs /\ Self = current
<1>1. CodeInv(l) /\ ShapeInv
  BY AtFacts DEF Inv, AtInv
<1> QED
  BY <1>1, KernFacts DEF CodeInv, Self

\* A step from l to m that leaves the user's part and the stacks alone.
LEMMA PlainStep ==
    ASSUME Inv, NEW l \in CodePlaces, NEW m \in CodePlaces, At(l), mode' = "S", pc' = Kern(m),
           UNCHANGED <<current, stack, interrupted, procVars>>,
           l # "exec", m # "exec",
           IsReg(reg'), reg'.sp = reg.sp, reg'.cs = reg.cs,
           IsCsr(csr'), csr'.sie \in BOOLEAN, csr'.satp = csr.satp, csr'.stvec = csr.stvec,
           m \notin CallPlaces => ~csr'.sie
    PROVE  Inv'
<1>1. CodeInv(l) /\ ShapeInv /\ current \in Procs
  BY CodeFacts
<1>2. ShapeInv'
  BY <1>1 DEF ShapeInv, procVars
<1>3. CodeInv(m)'
  BY <1>1 DEF CodeInv, KernelCsr, PlaceInv, Consistent, UserPart, procVars
<1>4. AtInv(m)' /\ m \in Labels /\ l # "sched_back" /\ m # "sched_back"
  BY <1>3 DEF AtInv, Labels, CodePlaces, CallPlaces, SchedPlaces
<1> QED
  BY <1>2, <1>4, CodeStep DEF Same, procVars

LEMMA InterruptOffReadInv ==
    ASSUME Inv, InterruptOffRead
    PROVE  Inv'
<1> DEFINE m == IF pc = Kern("ret") THEN "ret_off" ELSE "lock_off"
<1>1. PICK l \in {"syscall", "ret"} : At(l)
  BY DEF InterruptOffRead
<1>2. /\ mode' = "S" /\ pc' = Kern(m) /\ reg' = [reg EXCEPT !.tmp = Sstatus(csr)]
      /\ UNCHANGED <<csr, current, stack, interrupted, procVars>>
  BY <1>1 DEF InterruptOffRead, At
<1>3. l \in CodePlaces /\ m \in CallPlaces /\ m \in CodePlaces /\ l # "exec" /\ m # "exec"
  BY DEF CodePlaces, CallPlaces
<1>4. ShapeInv
  BY DEF Inv
<1>5. IsReg(reg') /\ reg'.sp = reg.sp /\ reg'.cs = reg.cs
  BY <1>2, <1>4 DEF ShapeInv, IsReg
<1>6. IsCsr(csr') /\ csr'.sie \in BOOLEAN
  BY <1>2, <1>4 DEF ShapeInv
<1> HIDE DEF m
<1> QED
  BY <1>1, <1>2, <1>3, <1>5, <1>6, PlainStep

LEMMA InterruptOffWriteInv ==
    ASSUME Inv, InterruptOffWrite
    PROVE  Inv'
<1> DEFINE m == IF pc = Kern("ret_off") THEN "prepare" ELSE "locked"
<1>1. PICK l \in {"lock_off", "ret_off"} : At(l)
  BY DEF InterruptOffWrite
<1>2. /\ mode' = "S" /\ pc' = Kern(m) /\ reg' = Working(Self)
      /\ csr' = WithSstatus(csr, reg.tmp, FALSE)
      /\ UNCHANGED <<current, stack, interrupted, procVars>>
  BY <1>1 DEF InterruptOffWrite, At
<1>3. l \in CodePlaces /\ m \in CodePlaces /\ l # "exec" /\ m # "exec"
  BY DEF CodePlaces, CallPlaces
<1>4. CodeInv(l) /\ ShapeInv /\ Self = current
  BY <1>1, <1>3, CodeFacts
<1>5. IsReg(reg') /\ reg'.sp = reg.sp /\ reg'.cs = reg.cs
  BY <1>2, <1>4 DEF Working, IsReg, CodeInv
<1>6. /\ IsCsr(csr') /\ csr'.sie = FALSE /\ csr'.satp = csr.satp /\ csr'.stvec = csr.stvec
  BY <1>2, <1>4 DEF ShapeInv, IsCsr, WithSstatus
<1> HIDE DEF m
<1> QED
  BY <1>1, <1>2, <1>3, <1>5, <1>6, PlainStep

LEMMA UnlockInv ==
    ASSUME Inv, Unlock
    PROVE  Inv'
<1>1. /\ At("locked") /\ mode' = "S" /\ pc' = Kern("syscall") /\ csr' = [csr EXCEPT !.sie = TRUE]
      /\ UNCHANGED <<reg, current, stack, interrupted, procVars>>
  BY DEF Unlock, At
<1>2. "locked" \in CodePlaces /\ "syscall" \in CodePlaces /\ "syscall" \in CallPlaces
  BY DEF CodePlaces, CallPlaces
<1>3. ShapeInv
  BY DEF Inv
<1>4. IsReg(reg') /\ reg'.sp = reg.sp /\ reg'.cs = reg.cs
  BY <1>1, <1>3 DEF ShapeInv
<1>5. IsCsr(csr') /\ csr'.sie = TRUE /\ csr'.satp = csr.satp /\ csr'.stvec = csr.stvec
  BY <1>1, <1>3 DEF ShapeInv, IsCsr
<1> QED
  BY <1>1, <1>2, <1>4, <1>5, PlainStep

\* A panic in a system call; under a lock it is the end.
LEMMA CallPanicsInv ==
    ASSUME Inv, CallPanics
    PROVE  Inv'
<1>1. ShapeInv
  BY DEF Inv
<1>2. CASE At("syscall") /\ pc' = Kern("panic")
  <2>1. "syscall" \in CodePlaces /\ "panic" \in CodePlaces /\ "panic" \in CallPlaces
    BY DEF CodePlaces, CallPlaces
  <2>2. mode' = "S" /\ UNCHANGED <<reg, csr, current, stack, interrupted, procVars>>
    BY <1>2 DEF CallPanics, At
  <2>3. IsReg(reg') /\ IsCsr(csr') /\ csr'.sie \in BOOLEAN
    BY <1>1, <2>2 DEF ShapeInv
  <2> QED
    BY <1>2, <2>1, <2>2, <2>3, PlainStep
<1>3. CASE At("locked") /\ pc' = Kern("halt")
  <2>1. mode' = "S" /\ UNCHANGED <<reg, csr, current, stack, interrupted, procVars>>
    BY <1>3 DEF CallPanics, At
  <2>2. "locked" \in CodePlaces /\ "locked" \notin CallPlaces
    BY DEF CodePlaces, CallPlaces
  <2>3. CodeInv("locked") /\ current \in Procs
    BY <1>3, <2>2, CodeFacts
  <2>4. KernelCsr' /\ ~csr'.sie /\ reg'.sp = Sp(current, 0) /\ Thread' = current
    BY <2>1, <2>2, <2>3, ThreadFacts DEF CodeInv, KernelCsr, Thread
  <2>5. HaltInv'
    BY <2>4 DEF HaltInv
  <2>6. AtInv("halt")' /\ "halt" \in Labels
    BY <2>5 DEF AtInv, Labels, CodePlaces, CallPlaces, SchedPlaces
  <2>7. ShapeInv'
    BY <1>1, <2>1 DEF ShapeInv, procVars
  <2> QED
    BY <1>3, <2>1, <2>6, <2>7, CodeStep DEF Same, procVars
<1> QED
  BY <1>2, <1>3 DEF CallPanics

\* write() and wait() give their result to the user.
LEMMA CallReturnsInv ==
    ASSUME Inv, CallReturns
    PROVE  Inv'
<1>1. At("syscall") /\ "syscall" \in CodePlaces
  BY DEF CallReturns, CodePlaces, CallPlaces
<1>2. CodeInv("syscall") /\ ShapeInv /\ current \in Procs /\ Self = current
  BY <1>1, CodeFacts
<1>3. /\ tf' = [tf EXCEPT ![current].a0 = K(current)]
      /\ user' = [user EXCEPT ![current].a0 = K(current)]
      /\ mode' = "S" /\ pc' = Kern("ret")
      /\ UNCHANGED <<mode, reg, csr, current, stack, interrupted, ctx, pt, ready>>
  BY <1>2 DEF CallReturns, At
<1>4. /\ tf' = [p \in Procs |-> tf'[p]] /\ user' = [p \in Procs |-> user'[p]]
      /\ tf'[current] = [tf[current] EXCEPT !.a0 = K(current)]
      /\ user'[current] = [user[current] EXCEPT !.a0 = K(current)]
      /\ \A p \in Procs \ {current} : tf'[p] = tf[p] /\ user'[p] = user[p]
  BY <1>2, <1>3 DEF ShapeInv
<1>5. IsFrame(tf'[current]) /\ IsUser(user'[current]) /\ UserPart(tf'[current]) = user'[current]
  <2>1. IsFrame(tf[current]) /\ IsUser(user[current]) /\ UserPart(tf[current]) = user[current]
    BY <1>2 DEF ShapeInv, CodeInv, PlaceInv, Consistent
  <2> QED
    BY <1>4, <2>1 DEF IsFrame, IsUser, UserPart
<1>6. ShapeInv'
  BY <1>2, <1>3, <1>4, <1>5 DEF ShapeInv
<1>7. CodeInv("ret")'
  BY <1>2, <1>3, <1>5 DEF CodeInv, KernelCsr, PlaceInv, Consistent, CallPlaces
<1>8. AtInv("ret")' /\ "ret" \in Labels
  BY <1>7 DEF AtInv, Labels, CodePlaces, CallPlaces, SchedPlaces
<1> QED
  BY <1>1, <1>3, <1>4, <1>6, <1>8, CodeStep DEF Same

\* The first step of kexec() that the user can see ...
LEMMA ExecArgumentsInv ==
    ASSUME Inv, ExecArguments
    PROVE  Inv'
<1>1. At("syscall") /\ "syscall" \in CodePlaces
  BY DEF ExecArguments, CodePlaces, CallPlaces
<1>2. CodeInv("syscall") /\ ShapeInv /\ current \in Procs /\ Self = current
  BY <1>1, CodeFacts
<1>3. /\ tf' = [tf EXCEPT ![current].a0 = K(current)]
      /\ mode' = "S" /\ pc' = Kern("exec")
      /\ UNCHANGED <<mode, reg, csr, current, stack, interrupted, ctx, pt, ready, user>>
  BY <1>2 DEF ExecArguments, At
<1>4. /\ tf' = [p \in Procs |-> tf'[p]]
      /\ tf'[current] = [tf[current] EXCEPT !.a0 = K(current)]
      /\ \A p \in Procs \ {current} : tf'[p] = tf[p]
  BY <1>2, <1>3 DEF ShapeInv
<1>5. /\ IsFrame(tf'[current]) /\ tf'[current].a0 = K(current)
      /\ tf'[current].tmp = user'[current].tmp /\ tf'[current].cs = user'[current].cs
  <2>1. IsFrame(tf[current]) /\ UserPart(tf[current]) = user[current]
    BY <1>2 DEF ShapeInv, CodeInv, PlaceInv, Consistent
  <2> QED
    BY <1>3, <1>4, <2>1 DEF IsFrame, UserPart
<1>6. ShapeInv'
  BY <1>2, <1>3, <1>4, <1>5 DEF ShapeInv
<1>7. CodeInv("exec")'
  BY <1>2, <1>3, <1>5 DEF CodeInv, KernelCsr, PlaceInv, CallPlaces
<1>8. AtInv("exec")' /\ "exec" \in Labels
  BY <1>7 DEF AtInv, Labels, CodePlaces, CallPlaces, SchedPlaces
<1> QED
  BY <1>1, <1>3, <1>4, <1>6, <1>8, CodeStep DEF Same

\* ... and the second.
LEMMA ExecCommitInv ==
    ASSUME Inv, ExecCommit
    PROVE  Inv'
<1>1. At("exec") /\ "exec" \in CodePlaces
  BY DEF ExecCommit, CodePlaces, CallPlaces
<1>2. CodeInv("exec") /\ ShapeInv /\ current \in Procs /\ Self = current
  BY <1>1, CodeFacts
<1>3. /\ tf' = [tf EXCEPT ![current] = [tf[current] EXCEPT !.sp = K(current), !.epc = User(0)]]
      /\ user' = [user EXCEPT ![current] =
                    [pc |-> User(0), a0 |-> K(current), sp |-> K(current),
                     tmp |-> user[current].tmp, cs |-> user[current].cs]]
      /\ pt' = [pt EXCEPT ![current] = 1]
      /\ mode' = "S" /\ pc' = Kern("ret")
      /\ UNCHANGED <<mode, reg, csr, current, stack, interrupted, ctx, ready>>
  BY <1>2 DEF ExecCommit, At
<1>4. /\ tf' = [p \in Procs |-> tf'[p]] /\ user' = [p \in Procs |-> user'[p]]
      /\ pt' = [p \in Procs |-> pt'[p]]
      /\ tf'[current] = [tf[current] EXCEPT !.sp = K(current), !.epc = User(0)]
      /\ user'[current] = [pc |-> User(0), a0 |-> K(current), sp |-> K(current),
                           tmp |-> user[current].tmp, cs |-> user[current].cs]
      /\ \A p \in Procs \ {current} : tf'[p] = tf[p] /\ user'[p] = user[p]
  BY <1>2, <1>3 DEF ShapeInv
<1>5. IsFrame(tf'[current]) /\ IsUser(user'[current]) /\ UserPart(tf'[current]) = user'[current]
  <2>1. /\ IsFrame(tf[current]) /\ tf[current].a0 = K(current)
        /\ tf[current].tmp = user[current].tmp /\ tf[current].cs = user[current].cs
    BY <1>2 DEF ShapeInv, CodeInv, PlaceInv
  <2> QED
    BY <1>4, <2>1 DEF IsFrame, IsUser, UserPart
<1>6. ShapeInv'
  BY <1>2, <1>3, <1>4, <1>5 DEF ShapeInv
<1>7. CodeInv("ret")'
  BY <1>2, <1>3, <1>5 DEF CodeInv, KernelCsr, PlaceInv, Consistent, CallPlaces
<1>8. AtInv("ret")' /\ "ret" \in Labels
  BY <1>7 DEF AtInv, Labels, CodePlaces, CallPlaces, SchedPlaces
<1> QED
  BY <1>1, <1>3, <1>4, <1>6, <1>8, CodeStep DEF Same

\* kfork(): the child waits to start in forkret().
LEMMA CallForksInv ==
    ASSUME Inv, CallForks
    PROVE  Inv'
<1>1. At("locked") /\ "locked" \in CodePlaces
  BY DEF CallForks, CodePlaces
<1>2. CodeInv("locked") /\ ShapeInv /\ current \in Procs /\ Self = current
  BY <1>1, CodeFacts
<1>3. PICK c \in Procs \ (ready \cup {current}) :
         /\ tf' = [tf EXCEPT ![c] = [tf[current] EXCEPT !.a0 = Junk], ![current].a0 = K(current)]
         /\ user' = [user EXCEPT ![c] = [user[current] EXCEPT !.a0 = Junk], ![current].a0 = K(current)]
         /\ ctx' = [ctx EXCEPT ![c] = NewContext(c)]
         /\ ready' = ready \cup {c}
  BY <1>2 DEF CallForks
<1>4. /\ csr' = [csr EXCEPT !.sie = TRUE] /\ mode' = "S" /\ pc' = Kern("ret")
      /\ UNCHANGED <<mode, reg, current, stack, interrupted, pt>>
  BY DEF CallForks, At
<1>5. /\ tf' = [p \in Procs |-> tf'[p]] /\ user' = [p \in Procs |-> user'[p]]
      /\ tf'[current] = [tf[current] EXCEPT !.a0 = K(current)]
      /\ tf'[c] = [tf[current] EXCEPT !.a0 = Junk]
      /\ user'[current] = [user[current] EXCEPT !.a0 = K(current)]
      /\ user'[c] = [user[current] EXCEPT !.a0 = Junk]
      /\ \A p \in Procs \ {current, c} : tf'[p] = tf[p] /\ user'[p] = user[p]
  BY <1>2, <1>3 DEF ShapeInv
<1>6. /\ ctx' = [t \in Threads |-> ctx'[t]] /\ ctx'[c] = NewContext(c)
      /\ \A t \in Threads \ {c} : ctx'[t] = ctx[t]
  BY <1>2, <1>3, ThreadFacts DEF ShapeInv
<1>7. IsFrame(tf[current]) /\ IsUser(user[current]) /\ UserPart(tf[current]) = user[current]
  BY <1>2 DEF ShapeInv, CodeInv, PlaceInv, Consistent
<1>8. IsFrame(tf'[current]) /\ IsUser(user'[current]) /\ UserPart(tf'[current]) = user'[current]
  BY <1>5, <1>7 DEF IsFrame, IsUser, UserPart
<1>9. IsFrame(tf'[c]) /\ IsUser(user'[c]) /\ UserPart(tf'[c]) = user'[c]
  BY <1>5, <1>7 DEF IsFrame, IsUser, UserPart
<1>10. /\ IsCsr(csr') /\ csr'.sie = TRUE /\ csr'.satp = csr.satp /\ csr'.stvec = csr.stvec
  BY <1>2, <1>4 DEF ShapeInv, IsCsr
<1>11. ShapeInv'
  <2>1. \A p \in Procs : IsFrame(tf'[p]) /\ IsUser(user'[p])
    BY <1>2, <1>5, <1>8, <1>9 DEF ShapeInv
  <2> QED
    BY <1>2, <1>3, <1>4, <1>5, <1>6, <1>10, <2>1 DEF ShapeInv
<1>12. CodeInv("ret")'
  BY <1>2, <1>4, <1>8, <1>10 DEF CodeInv, KernelCsr, PlaceInv, Consistent, CallPlaces
<1>13. AtInv("ret")' /\ "ret" \in Labels
  BY <1>12 DEF AtInv, Labels, CodePlaces, CallPlaces, SchedPlaces
<1>14. OnHart = current /\ OnHart' = current
  BY <1>1, <1>4, KernFacts DEF OnHart, At
<1>15. Idle(c)'
  <2>1. stack[c] = <<>>
    BY <1>3, <1>14 DEF Inv, OthersInv, Idle
  <2>2. ctx'[c].ra = Kern("forkret") /\ ctx'[c].sp = Sp(c, 0)
    BY <1>6 DEF NewContext, Context
  <2>3. Waiting(c)'
    BY <1>4, <1>9, <2>1, <2>2, KernFacts DEF Waiting, Consistent
  <2> QED
    BY <1>3, <2>3 DEF Idle
<1>16. ASSUME NEW p \in Procs \ {current, c} PROVE Idle(p)'
  <2>1. Same(p) /\ (p \in ready' <=> p \in ready)
    BY <1>3, <1>4, <1>5, <1>6, ThreadFacts DEF Same
  <2> QED
    BY <1>14, <2>1, IdleKeeps DEF Inv, OthersInv
<1>17. OthersInv'
  BY <1>14, <1>15, <1>16 DEF OthersInv
<1>18. SchedulerInv'
  BY <1>2, <1>3, <1>4, <1>6, <1>14, ThreadFacts DEF Inv, SchedulerInv
<1> QED
  BY <1>4, <1>11, <1>13, <1>17, <1>18, Arrive

-----------------------------------------------------------------------------
(* Context switches.                                                        *)

\* The current process gives the hart to the scheduler.
LEMMA ToScheduler ==
    ASSUME Inv, NEW l, At(l), l # "sched_back", current \in Procs, NEW ra,
           Switch(current, ra, Sched), KernelCsr, ~csr.sie,
           UNCHANGED <<mode, csr, current, stack, interrupted, tf, pt, user>>,
           ready' \in SUBSET Procs, \A p \in Procs \ {current} : p \in ready' <=> p \in ready,
           ctx'[current] = Context(ra, reg.sp, reg.cs) => Idle(current)'
    PROVE  Inv'
<1>1. ShapeInv /\ mode' = "S" /\ OnHart = current
  BY KernFacts DEF Inv, At, OnHart
<1>2. /\ ctx[Sched] = Context(Kern("sched_back"), Sp(Sched, 0), K(Sched))
      /\ stack[Sched] = <<>>
  BY <1>1, ThreadFacts DEF Inv, SchedulerInv
<1>3. /\ ctx[Sched].ra = Kern("sched_back") /\ ctx[Sched].sp = Sp(Sched, 0)
      /\ ctx[Sched].cs = K(Sched)
  BY <1>2 DEF Context
<1>4. /\ pc' = Kern("sched_back") /\ IsReg(reg') /\ reg'.sp = Sp(Sched, 0) /\ reg'.cs = K(Sched)
  BY <1>3 DEF Switch, Loaded, IsReg
<1>5. /\ ctx' = [t \in Threads |-> ctx'[t]] /\ ctx'[current] = Context(ra, reg.sp, reg.cs)
      /\ \A t \in Threads \ {current} : ctx'[t] = ctx[t]
  BY <1>1, ThreadFacts DEF Switch, ShapeInv
<1>6. ShapeInv'
  BY <1>1, <1>4, <1>5 DEF ShapeInv
<1>7. SchedInv("sched_back")'
  BY <1>2, <1>4 DEF SchedInv, KernelCsr
<1>8. AtInv("sched_back")' /\ "sched_back" \in Labels
  BY <1>7 DEF AtInv, Labels, CodePlaces, CallPlaces, SchedPlaces
<1>9. OnHart' = None
  BY <1>1, <1>4 DEF OnHart, At
<1>10. ASSUME NEW p \in Procs PROVE Idle(p)'
  <2>1. CASE p = current
    BY <1>5, <2>1
  <2>2. CASE p # current
    <3>1. Same(p) /\ Idle(p)
      BY <1>1, <1>5, <2>2, ThreadFacts DEF Same, Inv, OthersInv
    <3> QED
      BY <2>2, <3>1, IdleKeeps
  <2> QED
    BY <2>1, <2>2
<1>11. OthersInv' /\ SchedulerInv'
  BY <1>9, <1>10 DEF OthersInv, SchedulerInv
<1> QED
  BY <1>1, <1>4, <1>6, <1>8, <1>11, Arrive

\* yeld() and the sleep of kwait().
LEMMA GiveUpInv ==
    ASSUME Inv, GiveUp
    PROVE  Inv'
<1>1. UNCHANGED <<mode, csr, current, stack, interrupted, tf, pt, ready, user>> /\ ShapeInv
  BY DEF GiveUp, Inv
<1>2. CASE At("yeld") /\ Switch(current, Kern("yeld_back"), Sched)
  <2>1. YeldInv /\ current \in Procs
    BY <1>2, AtFacts DEF Inv, AtInv, YeldInv
  <2>2. ASSUME ctx'[current] = Context(Kern("yeld_back"), reg.sp, reg.cs)
        PROVE  Idle(current)'
    <3>1. ctx'[current].ra = Kern("yeld_back") /\ ctx'[current].sp = reg.sp /\ ctx'[current].cs = reg.cs
      BY <2>2 DEF Context
    <3>2. Yielding(current, reg.sp, reg.cs)
      BY <2>1 DEF YeldInv
    <3>3. (Consistent(current) => Consistent(current)') /\ (Nested(current) => Nested(current)')
      <4>1. Consistent(current) => Consistent(current)'
        BY <1>1 DEF Consistent, UserPart
      <4>2. \A m : PlaceInv(m, current) => PlaceInv(m, current)'
        BY <1>1, <4>1 DEF PlaceInv
      <4> QED
        BY <1>1, <4>1, <4>2 DEF Nested, Hit, Saved
    <3>4. Yielding(current, ctx[current].sp, ctx[current].cs)'
      BY <1>1, <3>1, <3>2, <3>3 DEF Yielding
    <3>5. Waiting(current)'
      BY <1>1, <3>1, <3>4, KernFacts DEF Waiting
    <3>6. current \in ready'
      BY <1>1, <1>2, <2>1, KernFacts, ThreadFacts DEF Inv, SchedulerInv, OnHart, At
    <3> QED
      BY <1>1, <3>5, <3>6 DEF Idle
  <2> QED
    BY <1>1, <1>2, <2>1, <2>2, ToScheduler DEF YeldInv, ShapeInv
<1>3. CASE At("locked") /\ Switch(Self, Kern("sleep_back"), Sched)
  <2>1. CodeInv("locked") /\ current \in Procs /\ Self = current
    BY <1>3, CodeFacts DEF CodePlaces
  <2>2. ASSUME ctx'[current] = Context(Kern("sleep_back"), reg.sp, reg.cs)
        PROVE  Idle(current)'
    <3>1. ctx'[current].ra = Kern("sleep_back") /\ ctx'[current].sp = reg.sp /\ ctx'[current].cs = reg.cs
      BY <2>2 DEF Context
    <3>2. Consistent(current)'
      BY <1>1, <2>1 DEF CodeInv, PlaceInv, Consistent, UserPart
    <3>3. Waiting(current)'
      BY <1>1, <2>1, <3>1, <3>2, KernFacts DEF Waiting, CodeInv
    <3>4. current \in ready'
      BY <1>1, <1>3, <2>1, KernFacts, ThreadFacts DEF Inv, SchedulerInv, OnHart, At
    <3> QED
      BY <1>1, <3>3, <3>4 DEF Idle
  <2>3. KernelCsr /\ ~csr.sie
    BY <2>1 DEF CodeInv, CallPlaces
  <2> QED
    BY <1>1, <1>3, <2>1, <2>2, <2>3, ToScheduler DEF ShapeInv
<1> QED
  BY <1>2, <1>3 DEF GiveUp

\* kexit() leaves an empty stack behind.
LEMMA CallExitsInv ==
    ASSUME Inv, CallExits
    PROVE  Inv'
<1>1. /\ At("locked") /\ Switch(Self, Kern("cordyceps"), Sched) /\ ready' = ready \ {Self}
      /\ UNCHANGED <<mode, csr, current, stack, interrupted, tf, pt, user>> /\ ShapeInv
  BY DEF CallExits, Inv
<1>2. CodeInv("locked") /\ current \in Procs /\ Self = current
  BY <1>1, CodeFacts DEF CodePlaces
<1>3. KernelCsr /\ ~csr.sie /\ stack[current] = <<>>
  BY <1>2 DEF CodeInv, CallPlaces
<1>4. Idle(current)'
  BY <1>1, <1>2, <1>3 DEF Idle
<1>5. ready' \in SUBSET Procs /\ \A p \in Procs \ {current} : p \in ready' <=> p \in ready
  BY <1>1, <1>2 DEF ShapeInv
<1> QED
  BY <1>1, <1>2, <1>3, <1>4, <1>5, ToScheduler

\* scheduler() switches to a process that waits.
LEMMA SchedPickInv ==
    ASSUME Inv, SchedPick
    PROVE  Inv'
<1>1. /\ At("pick") /\ ShapeInv /\ mode' = "S"
      /\ UNCHANGED <<mode, csr, stack, interrupted, tf, pt, ready, user>>
  BY DEF SchedPick, At, Inv
<1>2. PICK p \in ready : current' = p /\ Switch(Sched, Kern("sched_back"), p)
  BY DEF SchedPick
<1>3. p \in Procs /\ p # Sched /\ p # None /\ p \in Threads
  BY <1>1, ThreadFacts DEF ShapeInv
<1>4. SchedInv("pick") /\ current = None /\ ~csr.sie /\ KernelCsr
  BY <1>1, AtFacts DEF Inv, AtInv, SchedInv, SchedPlaces
<1>5. OnHart = None /\ \A q \in Procs : Idle(q)
  <2>1. OnHart = None
    BY <1>4 DEF OnHart
  <2> QED
    BY <2>1, ThreadFacts DEF Inv, OthersInv
<1>6. Waiting(p)
  BY <1>2, <1>3, <1>5 DEF Idle
<1>7. /\ ctx' = [t \in Threads |-> ctx'[t]] /\ ctx'[Sched] = Context(Kern("sched_back"), reg.sp, reg.cs)
      /\ \A t \in Threads \ {Sched} : ctx'[t] = ctx[t]
  BY <1>1, <1>2, ThreadFacts DEF Switch, ShapeInv
<1>8. /\ pc' = ctx[p].ra /\ IsReg(reg') /\ reg'.sp = ctx[p].sp /\ reg'.cs = ctx[p].cs
  BY <1>2 DEF Switch, Loaded, IsReg
<1>9. ShapeInv'
  BY <1>1, <1>2, <1>3, <1>7, <1>8 DEF ShapeInv
<1>10. PICK m \in {"forkret", "sleep_back", "yeld_back"} : ctx[p].ra = Kern(m)
  BY <1>6 DEF Waiting
<1>11. OnHart' = p
  BY <1>1, <1>2, <1>8, <1>10, KernFacts DEF OnHart, At
<1>12. SchedulerInv'
  BY <1>1, <1>2, <1>4, <1>7, <1>11 DEF SchedulerInv, SchedInv
<1>13. OthersInv'
  <2>1. \A q \in Procs : Same(q)
    BY <1>1, <1>7, ThreadFacts DEF Same
  <2> QED
    BY <1>1, <1>5, <1>11, <2>1, IdleKeeps DEF OthersInv
<1>14. KernelCsr' /\ ~csr'.sie /\ current' \in Procs
  BY <1>1, <1>2, <1>3, <1>4 DEF KernelCsr
<1>15. Consistent(p) => Consistent(p)'
  BY <1>1 DEF Consistent, UserPart
<1>16. Nested(p) => Nested(p)'
  <2>1. \A l : PlaceInv(l, p) => PlaceInv(l, p)'
    BY <1>1, <1>15 DEF PlaceInv
  <2> QED
    BY <1>1, <2>1 DEF Nested, Hit, Saved
<1>17. AtInv(m)'
  <2>1. CASE m = "yeld_back"
    <3>1. Yielding(p, ctx[p].sp, ctx[p].cs)
      BY <1>6, <1>10, <2>1 DEF Waiting
    <3>2. YeldInv'
      BY <1>1, <1>2, <1>8, <1>14, <1>15, <1>16, <3>1 DEF YeldInv, Yielding
    <3> QED
      BY <2>1, <3>2 DEF AtInv, CodePlaces, CallPlaces, SchedPlaces
  <2>2. CASE m \in {"forkret", "sleep_back"}
    <3>1. /\ stack[p] = <<>> /\ ctx[p].sp = Sp(p, 0) /\ Consistent(p)
          /\ m = "sleep_back" => ctx[p].cs = K(p)
      BY <1>6, <1>10, <2>2 DEF Waiting
    <3>2. BackInv(m)'
      BY <1>1, <1>2, <1>8, <1>14, <1>15, <3>1 DEF BackInv
    <3> QED
      BY <2>2, <3>2 DEF AtInv, CodePlaces, CallPlaces, SchedPlaces
  <2> QED
    BY <2>1, <2>2
<1>18. m \in Labels
  BY DEF Labels
<1> QED
  BY <1>1, <1>8, <1>9, <1>10, <1>12, <1>13, <1>17, <1>18, Arrive

\* After switch().
LEMMA ResumeInv ==
    ASSUME Inv, Resume
    PROVE  Inv'
<1>1. PICK l \in {"yeld_back", "sleep_back", "forkret"} : At(l)
  BY DEF Resume
<1>2. PICK m \in {"syscall", "kt_end", "ret"} :
         m = CASE l = "sleep_back" -> "syscall"
               [] l = "yeld_back" /\ stack[Self] # <<>> -> "kt_end"
               [] OTHER -> "ret"
  BY <1>1
<1>3. /\ pc = Kern(l) /\ mode = "S" /\ mode' = "S"
      /\ UNCHANGED <<mode, current, stack, interrupted, procVars>> /\ ShapeInv
  BY <1>1 DEF Resume, At, Inv
<1>4. \A k : pc = Kern(k) <=> l = k
  BY <1>3, KernFacts
<1>5. /\ pc' = Kern(m) /\ csr' = [csr EXCEPT !.sie = (l = "sleep_back")]
      /\ reg' = [a0 |-> K(Self), tmp |-> K(Self), sp |-> reg.sp,
                 cs |-> IF l = "forkret" THEN K(Self) ELSE reg.cs]
  <2>1. csr' = [csr EXCEPT !.sie = (l = "sleep_back")]
    BY <1>4 DEF Resume
  <2>2. reg' = [a0 |-> K(Self), tmp |-> K(Self), sp |-> reg.sp,
                cs |-> IF l = "forkret" THEN K(Self) ELSE reg.cs]
    BY <1>4 DEF Resume
  <2>3. pc' = Kern(m)
    BY <1>2, <1>4 DEF Resume
  <2> QED
    BY <2>1, <2>2, <2>3
<1>6. /\ AtInv(l) /\ KernelCsr /\ ~csr.sie /\ current \in Procs /\ Self = current
      /\ l = "yeld_back" => Yielding(current, reg.sp, reg.cs)
      /\ l # "yeld_back" => /\ stack[current] = <<>> /\ reg.sp = Sp(current, 0)
                            /\ Consistent(current)
      /\ l = "sleep_back" => reg.cs = K(current)
  <2>1. AtInv(l)
    BY <1>1, AtFacts DEF Inv
  <2>2. CASE l = "yeld_back"
    BY <2>1, <2>2, KernFacts DEF AtInv, YeldInv, Yielding, Self
  <2>3. CASE l # "yeld_back"
    BY <2>1, <2>3, KernFacts DEF AtInv, BackInv, Self
  <2> QED
    BY <2>1, <2>2, <2>3
<1>7. /\ IsCsr(csr') /\ csr'.sie = (l = "sleep_back") /\ csr'.satp = csr.satp
      /\ csr'.stvec = csr.stvec
  BY <1>3, <1>5 DEF ShapeInv, IsCsr
<1>8. /\ IsReg(reg') /\ reg'.sp = reg.sp /\ reg'.cs = IF l = "forkret" THEN K(current) ELSE reg.cs
  BY <1>5, <1>6 DEF IsReg
<1>9. ShapeInv'
  BY <1>3, <1>7, <1>8 DEF ShapeInv, procVars
<1>10. KernelCsr'
  BY <1>6, <1>7 DEF KernelCsr
<1>11. Consistent(current) => Consistent(current)'
  BY <1>3 DEF Consistent, UserPart, procVars
<1>12. Nested(current) => Nested(current)'
  <2>1. \A k : PlaceInv(k, current) => PlaceInv(k, current)'
    BY <1>3, <1>11 DEF PlaceInv, procVars
  <2> QED
    BY <1>3, <2>1 DEF Nested, Hit, Saved
<1>13. AtInv(m)'
  <2>1. CASE m = "kt_end"
    <3>1. l = "yeld_back" /\ stack[current] # <<>>
      BY <1>2, <1>6, <2>1
    <3>2. Nested(current) /\ reg.sp = Sp(current, 1) /\ reg.cs = K(current)
      BY <1>6, <3>1 DEF Yielding
    <3>3. Thread' = current
      BY <1>3, <1>6, ThreadFacts DEF Thread
    <3>4. Nested(Thread)'
      BY <1>3, <1>6, <1>12, <3>2, ThreadFacts DEF Thread
    <3>5. KtEndInv'
      BY <1>7, <1>8, <1>10, <3>1, <3>2, <3>3, <3>4 DEF KtEndInv
    <3> QED
      BY <2>1, <3>5 DEF AtInv, CodePlaces, CallPlaces, SchedPlaces
  <2>2. CASE m # "kt_end"
    <3>1. stack[current] = <<>> /\ reg.sp = Sp(current, 0) /\ Consistent(current)
          /\ (l # "forkret" => reg.cs = K(current))
      <4>1. CASE l = "yeld_back"
        <5>1. stack[current] = <<>> /\ Yielding(current, reg.sp, reg.cs)
          BY <1>2, <1>6, <2>2, <4>1
        <5> QED
          BY <5>1, OneFrame DEF Yielding, Nested
      <4>2. CASE l # "yeld_back"
        BY <1>6, <4>2
      <4> QED
        BY <4>1, <4>2
    <3>2. CodeInv(m)'
      BY <1>3, <1>6, <1>8, <1>10, <1>11, <2>2, <3>1 DEF CodeInv, PlaceInv, CallPlaces
    <3> QED
      BY <2>2, <3>2 DEF AtInv, SchedPlaces
  <2> QED
    BY <2>1, <2>2
<1>14. m \in Labels /\ m # "sched_back" /\ l # "sched_back"
  BY DEF Labels, CodePlaces, CallPlaces
<1> QED
  BY <1>1, <1>3, <1>5, <1>9, <1>13, <1>14, CodeStep DEF Same, procVars

\* scheduler() between two switches.
LEMMA SchedFacts ==
    ASSUME Inv, NEW l \in {"sched", "window", "pick", "sched_back"}, At(l)
    PROVE  SchedInv(l) /\ ShapeInv /\ Self = Sched
<1>1. SchedInv(l) /\ ShapeInv
  BY AtFacts DEF Inv, AtInv, SchedPlaces
<1> QED
  BY <1>1, KernFacts DEF SchedInv, Self

LEMMA SchedStep ==
    ASSUME Inv, NEW l \in {"sched", "window", "pick"}, NEW m \in {"sched", "window", "pick"},
           At(l), mode' = "S", pc' = Kern(m), NEW on \in BOOLEAN, csr' = [csr EXCEPT !.sie = on],
           m = "pick" => ~on, UNCHANGED <<reg, current, stack, interrupted, procVars>>
    PROVE  Inv'
<1>1. SchedInv(l) /\ ShapeInv /\ current = None
  BY SchedFacts DEF SchedInv
<1>2. IsCsr(csr') /\ csr'.sie = on /\ csr'.satp = csr.satp /\ csr'.stvec = csr.stvec
  BY <1>1 DEF ShapeInv, IsCsr
<1>3. ShapeInv'
  BY <1>1, <1>2 DEF ShapeInv, procVars
<1>4. SchedInv(m)'
  BY <1>1, <1>2 DEF SchedInv, KernelCsr, SchedPlaces
<1>5. AtInv(m)' /\ m \in Labels
  BY <1>4 DEF AtInv, Labels, CodePlaces, CallPlaces, SchedPlaces
<1> QED
  BY <1>3, <1>5, CodeStep DEF Same, procVars

LEMMA SchedWindowInv ==
    ASSUME Inv, SchedWindow
    PROVE  Inv'
<1>1. PICK l \in {"sched", "window"} : At(l)
  BY DEF SchedWindow
<1>2. PICK m \in {"window", "pick"} : m = IF l = "sched" THEN "window" ELSE "pick"
  OBVIOUS
<1>3. PICK on \in BOOLEAN : on <=> l = "sched"
  OBVIOUS
<1>4. pc = Kern("sched") <=> l = "sched"
  BY <1>1, KernFacts DEF At
<1>5. /\ mode' = "S" /\ pc' = Kern(m) /\ csr' = [csr EXCEPT !.sie = on]
      /\ UNCHANGED <<reg, current, stack, interrupted, procVars>>
  BY <1>1, <1>2, <1>3, <1>4 DEF SchedWindow, At
<1> QED
  BY <1>1, <1>2, <1>3, <1>5, SchedStep

LEMMA SchedIdleInv ==
    ASSUME Inv, SchedIdle
    PROVE  Inv'
BY SchedStep DEF SchedIdle, At

LEMMA SchedBackInv ==
    ASSUME Inv, SchedBack
    PROVE  Inv'
<1>1. /\ At("sched_back") /\ mode' = "S" /\ pc' = Kern("sched") /\ current' = None
      /\ reg' = [reg EXCEPT !.a0 = K(Self), !.tmp = K(Self)]
      /\ UNCHANGED <<mode, csr, stack, interrupted, procVars>>
  BY DEF SchedBack, At
<1>2. SchedInv("sched_back") /\ ShapeInv
  BY <1>1, SchedFacts
<1>3. IsReg(reg') /\ reg'.sp = reg.sp /\ reg'.cs = reg.cs
  BY <1>1, <1>2 DEF ShapeInv, IsReg
<1>4. ShapeInv'
  BY <1>1, <1>2, <1>3 DEF ShapeInv, procVars
<1>5. SchedInv("sched")'
  BY <1>1, <1>2, <1>3 DEF SchedInv, KernelCsr, SchedPlaces
<1>6. AtInv("sched")' /\ "sched" \in Labels
  BY <1>5 DEF AtInv, Labels, CodePlaces, CallPlaces, SchedPlaces
<1>7. OnHart = None /\ OnHart' = None
  BY <1>1 DEF OnHart
<1>8. OthersInv' /\ SchedulerInv'
  BY <1>1, <1>7, Keep DEF Inv, Same, procVars
<1> QED
  BY <1>1, <1>4, <1>6, <1>8, Arrive

-----------------------------------------------------------------------------
(* Traps from the kernel.                                                   *)

\* Interrupts are enabled in system calls and in scheduler() only.
LEMMA EnabledFacts ==
    ASSUME Inv, mode = "S", csr.sie
    PROVE  \E l \in PlacesOf(Thread) :
              /\ pc = Kern(l) /\ l \in Labels /\ l # "sched_back" /\ KernelCsr
              /\ Thread \in Threads /\ stack[Thread] = <<>>
              /\ reg.sp = Sp(Thread, 0) /\ reg.cs = K(Thread)
              /\ Thread \in Procs => PlaceInv(l, Thread)
<1>1. PICK l \in Labels : pc = Kern(l) /\ AtInv(l)
  BY DEF Inv, HartInv
<1>2. CASE l \in CodePlaces
  <2>1. CodeInv(l) /\ current \in Procs
    BY <1>1, <1>2 DEF AtInv, CodeInv
  <2>2. l \in CallPlaces
    BY <2>1 DEF CodeInv
  <2>3. Thread = current /\ Thread \in Threads /\ PlacesOf(Thread) = CallPlaces /\ l # "sched_back"
    BY <2>1, <2>2, ThreadFacts DEF Thread, PlacesOf, CallPlaces
  <2> QED
    BY <1>1, <2>1, <2>2, <2>3 DEF CodeInv
<1>3. CASE l \in SchedPlaces
  <2>1. SchedInv(l) /\ l # "sched_back"
    BY <1>1, <1>3 DEF AtInv, SchedPlaces
  <2>2. Thread = Sched /\ Thread \in Threads /\ Thread \notin Procs /\ PlacesOf(Thread) = SchedPlaces
    BY <2>1, ThreadFacts DEF Thread, PlacesOf, SchedInv
  <2> QED
    BY <1>1, <1>3, <2>1, <2>2 DEF SchedInv
<1>4. CASE l \notin CodePlaces \cup SchedPlaces
  <2>1. \/ l = "uservec" \/ l = "usertrap" \/ l = "userret" \/ l = "kernelvec" \/ l = "kt_end"
        \/ l = "halt" \/ l \in {"yeld", "yeld_back"} \/ l \in {"sleep_back", "forkret"}
        \/ l \in {"pick", "sched_back"}
    BY <1>1, <1>4 DEF Labels
  <2> QED
    BY <1>1, <2>1
    DEF AtInv, Trapped, UsertrapInv, UserretInv, KernelvecInv, KtEndInv, HaltInv, YeldInv,
        BackInv, SchedInv, SchedPlaces
<1> QED
  BY <1>2, <1>3, <1>4

LEMMA KernelTrapInv ==
    ASSUME Inv, KernelTrap
    PROVE  Inv'
<1>0. PICK cause : TakeTrap(cause)
  BY DEF KernelTrap
<1>1. /\ mode = "S" /\ csr.sie /\ ShapeInv
      /\ interrupted' = [interrupted EXCEPT ![Self] = [pc |-> pc, reg |-> reg]]
      /\ UNCHANGED <<reg, current, stack, procVars>>
  BY DEF KernelTrap, Inv
<1>2. PICK l \in PlacesOf(Thread) :
              /\ pc = Kern(l) /\ l \in Labels /\ l # "sched_back" /\ KernelCsr
              /\ Thread \in Threads /\ stack[Thread] = <<>>
              /\ reg.sp = Sp(Thread, 0) /\ reg.cs = K(Thread)
              /\ Thread \in Procs => PlaceInv(l, Thread)
  BY <1>1, EnabledFacts
<1>3. PICK t \in Threads : t = Thread /\ Thread' = t /\ Self = t
  BY <1>1, <1>2, KernFacts DEF Self, Thread
<1>4. /\ interrupted' = [u \in Threads |-> interrupted'[u]]
      /\ interrupted'[t] = [pc |-> pc, reg |-> reg]
      /\ \A u \in Threads \ {t} : interrupted'[u] = interrupted[u]
  BY <1>1, <1>3 DEF ShapeInv
<1>5. /\ mode' = "S" /\ pc' = Kern("kernelvec") /\ IsCsr(csr')
      /\ csr'.spp = "S" /\ csr'.sie = FALSE /\ csr'.spie = TRUE /\ csr'.sepc = pc
      /\ csr'.satp = csr.satp /\ csr'.stvec = csr.stvec
  BY <1>0, <1>1, <1>2 DEF TakeTrap, ShapeInv, IsCsr, KernelCsr
<1>6. ShapeInv'
  BY <1>1, <1>4, <1>5 DEF ShapeInv, procVars
<1>7. t \in Procs => PlaceInv(l, t)'
  BY <1>1, <1>2, <1>3 DEF PlaceInv, Consistent, UserPart, procVars
<1>8. Hit(t)'
  <2>1. /\ interrupted'[t].pc = Kern(l) /\ interrupted'[t].reg = reg
        /\ l \in PlacesOf(t)
    BY <1>2, <1>3, <1>4
  <2> QED
    BY <1>1, <1>2, <1>3, <1>7, <2>1 DEF Hit, ShapeInv
<1>9. KernelvecInv'
  BY <1>1, <1>2, <1>3, <1>4, <1>5, <1>8 DEF KernelvecInv, KernelCsr
<1>10. AtInv("kernelvec")' /\ "kernelvec" \in Labels
  BY <1>9 DEF AtInv, Labels, CodePlaces, CallPlaces, SchedPlaces
<1>11. \A p \in Procs \ {current} : Same(p)
  <2>1. t \in Procs => t = current
    BY <1>3, ThreadFacts DEF Thread
  <2> QED
    BY <1>1, <1>4, <2>1, ThreadFacts DEF Same, procVars
<1>12. At(l)
  BY <1>1, <1>2 DEF At
<1> QED
  BY <1>1, <1>2, <1>5, <1>6, <1>10, <1>11, <1>12, CodeStep DEF procVars

LEMMA KernelvecStepInv ==
    ASSUME Inv, Kernelvec
    PROVE  Inv'
<1>1. At("kernelvec") /\ mode = "S" /\ mode' = "S" /\ ShapeInv /\ KernelvecInv
  BY AtFacts DEF Kernelvec, At, Inv, AtInv
<1>2. PICK t \in Threads : t = Thread /\ Self = t /\ reg.sp = Sp(t, 0)
  BY <1>1, KernFacts, ThreadFacts DEF KernelvecInv, Self, Thread, ShapeInv
<1>3. PICK m \in {"kt_end", "yeld", "halt"} :
         m = CASE csr.scause # "timer" -> "halt"
               [] csr.scause = "timer" /\ current = None -> "kt_end"
               [] OTHER -> "yeld"
  OBVIOUS
<1>4. PICK f : f = [a0 |-> reg.a0, tmp |-> reg.tmp, sepc |-> csr.sepc, sstatus |-> Sstatus(csr)]
  OBVIOUS
<1>5. /\ stack' = [stack EXCEPT ![t] = <<f>> \o stack[t]]
      /\ reg' = [reg EXCEPT !.a0 = Junk, !.tmp = Junk, !.sp = Sp(t, 1)]
      /\ pc' = Kern(m) /\ UNCHANGED <<mode, csr, current, interrupted, procVars>>
  <2>1. reg.sp[3] + 1 = 1
    BY <1>2, KernFacts
  <2> QED
    BY <1>2, <1>3, <1>4, <2>1 DEF Kernelvec
<1>6. /\ stack' = [u \in Threads |-> stack'[u]] /\ stack'[t] = <<f>>
      /\ \A u \in Threads \ {t} : stack'[u] = stack[u]
  <2>1. <<f>> \o stack[t] = <<f>>
    BY <1>1, <1>2, OneFrame DEF KernelvecInv
  <2> QED
    BY <1>1, <1>5, <2>1 DEF ShapeInv
<1>7. IsReg(reg') /\ reg'.sp = Sp(t, 1) /\ reg'.cs = reg.cs
  BY <1>1, <1>5 DEF ShapeInv, IsReg
<1>8. ShapeInv'
  BY <1>1, <1>5, <1>6, <1>7 DEF ShapeInv, procVars
<1>9. reg.cs = K(t) /\ Hit(t) /\ f = Saved(interrupted[t])
  <2>1. interrupted[t] = [pc |-> csr.sepc, reg |-> reg] /\ Hit(t)
    BY <1>1, <1>2 DEF KernelvecInv
  <2>2. interrupted[t].pc = csr.sepc /\ interrupted[t].reg = reg
    BY <2>1
  <2>3. Sstatus(csr) = <<"sstatus", "S", TRUE>>
    BY <1>1 DEF KernelvecInv, Sstatus
  <2>4. reg.cs = K(t)
    BY <2>1, <2>2 DEF Hit
  <2> QED
    BY <1>4, <2>1, <2>2, <2>3, <2>4 DEF Saved
<1>10. Nested(t)'
  <2>1. \A l : PlaceInv(l, t) => PlaceInv(l, t)'
    BY <1>5 DEF PlaceInv, Consistent, UserPart, procVars
  <2>2. Hit(t)'
    BY <1>5, <1>9, <2>1 DEF Hit
  <2> QED
    BY <1>5, <1>6, <1>9, <2>2 DEF Nested, Saved
<1>11. KernelCsr' /\ ~csr'.sie /\ reg'.cs = K(t)
  BY <1>1, <1>5, <1>7, <1>9 DEF KernelvecInv, KernelCsr
<1>12. AtInv(m)'
  <2>0. CASE csr.scause # "timer"
    <3>1. Thread' = t
      BY <1>2, <1>5 DEF Thread
    <3>2. HaltInv'
      BY <1>7, <1>11, <3>1 DEF HaltInv
    <3> QED
      BY <1>3, <2>0, <3>2 DEF AtInv, CodePlaces, CallPlaces, SchedPlaces
  <2>1. CASE csr.scause = "timer" /\ current = None
    <3>1. Thread' = t
      BY <1>2, <1>5 DEF Thread
    <3>2. KtEndInv'
      BY <1>7, <1>10, <1>11, <3>1 DEF KtEndInv
    <3> QED
      BY <1>3, <2>1, <3>2 DEF AtInv, CodePlaces, CallPlaces, SchedPlaces
  <2>2. CASE csr.scause = "timer" /\ current # None
    <3>1. t = current /\ current' = t /\ current \in Procs
      BY <1>1, <1>2, <1>5, <2>2 DEF Thread, ShapeInv
    <3>2. YeldInv'
      BY <1>7, <1>10, <1>11, <3>1 DEF YeldInv, Yielding
    <3> QED
      BY <1>3, <2>2, <3>2 DEF AtInv, CodePlaces, CallPlaces, SchedPlaces
  <2> QED
    BY <2>0, <2>1, <2>2
<1>13. /\ \A p \in Procs \ {current} : Same(p)
       /\ current # None => ctx'[Sched] = ctx[Sched] /\ stack'[Sched] = stack[Sched]
  BY <1>2, <1>5, <1>6, ThreadFacts DEF Thread, Same, procVars, ShapeInv, Inv
<1>14. m \in Labels /\ m # "sched_back"
  BY DEF Labels
<1> QED
  BY <1>1, <1>5, <1>8, <1>12, <1>13, <1>14, CodeStep DEF procVars

\* kernelvec returns to where the interrupt hit.
LEMMA ReturnFacts ==
    ASSUME Inv, KernelvecReturn
    PROVE  /\ At("kt_end") /\ Self = Thread /\ Thread \in Threads /\ Nested(Thread) /\ KernelCsr
           /\ IsCsr(csr') /\ csr'.sie = TRUE /\ csr'.satp = csr.satp /\ csr'.stvec = csr.stvec
           /\ mode' = "S" /\ pc' = interrupted[Thread].pc /\ reg' = interrupted[Thread].reg
           /\ stack' = [stack EXCEPT ![Thread] = <<>>]
           /\ interrupted' = [interrupted EXCEPT ![Thread] = Nowhere]
           /\ UNCHANGED <<current, procVars>>
<1>1. At("kt_end") /\ ShapeInv /\ KtEndInv
  BY AtFacts DEF KernelvecReturn, Inv, AtInv
<1>2. PICK t \in Threads : t = Thread /\ Self = t /\ reg.sp = Sp(t, 1)
  BY <1>1, KernFacts, ThreadFacts DEF KtEndInv, Self, Thread, ShapeInv
<1>3. PICK i : i = interrupted[t]
  OBVIOUS
<1>4. /\ stack[t] = <<Saved(i)>> /\ IsReg(i.reg) /\ i.reg.cs = K(t) /\ i.reg.sp = Sp(t, 0)
      /\ reg.cs = K(t)
  BY <1>1, <1>2, <1>3 DEF KtEndInv, Nested, Hit
<1>5. Head(stack[t]) = Saved(i) /\ Tail(stack[t]) = <<>>
  BY <1>4, OneFrame
<1>6. reg.sp[3] - 1 = 0
  BY <1>2, KernFacts
<1>7. /\ Sret(WriteBack(Saved(i)))
      /\ reg' = [a0 |-> Saved(i).a0, tmp |-> Saved(i).tmp, cs |-> reg.cs, sp |-> Sp(t, 0)]
      /\ stack' = [stack EXCEPT ![t] = <<>>]
      /\ interrupted' = [interrupted EXCEPT ![t] = Nowhere]
      /\ UNCHANGED <<current, procVars>>
  BY <1>2, <1>5, <1>6 DEF KernelvecReturn
<1>8. reg' = i.reg
  <2>1. reg' = [a0 |-> i.reg.a0, tmp |-> i.reg.tmp, cs |-> i.reg.cs, sp |-> i.reg.sp]
    BY <1>4, <1>7 DEF Saved
  <2> QED
    BY <1>4, <2>1 DEF IsReg
<1>9. PICK c : c = WriteBack(Saved(i))
  OBVIOUS
<1>10. /\ IsCsr(c) /\ c.spp = "S" /\ c.spie = TRUE /\ c.sepc = i.pc /\ c.satp = csr.satp
       /\ c.stvec = csr.stvec
  BY <1>1, <1>9 DEF WriteBack, WithSstatus, Saved, ShapeInv, IsCsr
<1>11. /\ IsCsr(csr') /\ csr'.sie = TRUE /\ csr'.satp = csr.satp /\ csr'.stvec = csr.stvec
       /\ mode' = "S" /\ pc' = i.pc
  BY <1>7, <1>9, <1>10 DEF Sret, IsCsr
<1> QED
  BY <1>1, <1>2, <1>3, <1>7, <1>8, <1>11 DEF KtEndInv

LEMMA KernelvecReturnInv ==
    ASSUME Inv, KernelvecReturn
    PROVE  Inv'
<1>1. PICK t \in Threads : t = Thread
  BY ReturnFacts
<1>2. /\ At("kt_end") /\ Nested(t) /\ KernelCsr
      /\ IsCsr(csr') /\ csr'.sie = TRUE /\ csr'.satp = csr.satp /\ csr'.stvec = csr.stvec
      /\ mode' = "S" /\ pc' = interrupted[t].pc /\ reg' = interrupted[t].reg
      /\ stack' = [stack EXCEPT ![t] = <<>>]
      /\ interrupted' = [interrupted EXCEPT ![t] = Nowhere]
      /\ UNCHANGED <<current, procVars>>
  BY <1>1, ReturnFacts
<1>3. PICK l \in PlacesOf(t) : interrupted[t].pc = Kern(l) /\ (t \in Procs => PlaceInv(l, t))
  BY <1>2 DEF Nested, Hit
<1>4. IsReg(reg') /\ reg'.cs = K(t) /\ reg'.sp = Sp(t, 0) /\ ShapeInv
  BY <1>2 DEF Nested, Hit, Inv
<1>5. /\ stack' = [u \in Threads |-> stack'[u]] /\ stack'[t] = <<>>
      /\ interrupted' = [u \in Threads |-> interrupted'[u]]
      /\ \A u \in Threads \ {t} : stack'[u] = stack[u] /\ interrupted'[u] = interrupted[u]
  BY <1>2, <1>4 DEF ShapeInv
<1>6. ShapeInv'
  BY <1>2, <1>4, <1>5 DEF ShapeInv, procVars
<1>7. KernelCsr'
  BY <1>2 DEF KernelCsr
<1>8. AtInv(l)' /\ l \in Labels /\ l # "sched_back"
  <2>1. CASE current = None
    <3>1. t = Sched /\ l \in SchedPlaces
      BY <1>1, <1>3, <2>1 DEF Thread, PlacesOf
    <3>2. SchedInv(l)'
      BY <1>2, <1>4, <1>5, <1>7, <2>1, <3>1 DEF SchedInv
    <3> QED
      BY <3>1, <3>2 DEF AtInv, Labels, CodePlaces, CallPlaces, SchedPlaces
  <2>2. CASE current # None
    <3>1. t = current /\ current \in Procs /\ l \in CallPlaces
      BY <1>1, <1>3, <1>4, <2>2, ThreadFacts DEF Thread, PlacesOf, ShapeInv
    <3>2. PlaceInv(l, current)'
      BY <1>2, <1>3, <3>1 DEF PlaceInv, Consistent, UserPart, procVars
    <3>3. CodeInv(l)'
      BY <1>2, <1>4, <1>5, <1>7, <3>1, <3>2 DEF CodeInv
    <3> QED
      BY <3>1, <3>3 DEF AtInv, Labels, CodePlaces, CallPlaces, SchedPlaces
  <2> QED
    BY <2>1, <2>2
<1>9. /\ \A p \in Procs \ {current} : Same(p)
      /\ current # None => ctx'[Sched] = ctx[Sched] /\ stack'[Sched] = stack[Sched]
  BY <1>1, <1>2, <1>4, <1>5, ThreadFacts DEF Thread, Same, procVars, ShapeInv
<1> QED
  BY <1>2, <1>3, <1>6, <1>8, <1>9, CodeStep DEF procVars

-----------------------------------------------------------------------------
(* The return to user mode.                                                 *)

LEMMA PrepareReturnInv ==
    ASSUME Inv, PrepareReturn
    PROVE  Inv'
<1>1. At("prepare") /\ "prepare" \in CodePlaces
  BY DEF PrepareReturn, CodePlaces
<1>2. CodeInv("prepare") /\ ShapeInv /\ current \in Procs /\ Self = current
  BY <1>1, CodeFacts
<1>3. PICK p \in Procs : p = current
  BY <1>2
<1>4. /\ tf' = [tf EXCEPT ![p] = ReturnFrame(tf[p], p)]
      /\ csr' = [csr EXCEPT !.stvec = Kern("uservec"), !.spp = "U", !.spie = TRUE,
                            !.sepc = tf[p].epc]
      /\ reg' = [reg EXCEPT !.a0 = UserSatp(p, pt[p])]
      /\ mode' = "S" /\ pc' = Kern("userret")
      /\ UNCHANGED <<mode, current, stack, interrupted, ctx, pt, ready, user>>
  BY <1>2, <1>3 DEF PrepareReturn, At
<1>5. /\ tf' = [q \in Procs |-> tf'[q]] /\ tf'[p] = ReturnFrame(tf[p], p)
      /\ \A q \in Procs \ {p} : tf'[q] = tf[q]
  BY <1>2, <1>4 DEF ShapeInv
<1>6. /\ IsFrame(tf'[p]) /\ tf'[p].kernel_sp = Sp(p, 0) /\ tf'[p].kernel_satp = KernelSatp
      /\ tf'[p].trap_handler = Kern("usertrap") /\ UserPart(tf'[p]) = UserPart(tf[p])
      /\ tf'[p].epc = tf[p].epc
  <2>1. IsFrame(tf[p]) /\ csr.satp = KernelSatp
    BY <1>2 DEF ShapeInv, CodeInv, KernelCsr
  <2>2. /\ IsFrame(tf'[p]) /\ tf'[p].kernel_sp = Sp(p, 0) /\ tf'[p].kernel_satp = KernelSatp
        /\ tf'[p].trap_handler = Kern("usertrap") /\ tf'[p].epc = tf[p].epc
        /\ tf'[p].a0 = tf[p].a0 /\ tf'[p].tmp = tf[p].tmp
        /\ tf'[p].cs = tf[p].cs /\ tf'[p].sp = tf[p].sp
    BY <1>5, <2>1 DEF IsFrame, ReturnFrame
  <2> QED
    BY <2>2 DEF UserPart
<1>7. /\ IsCsr(csr') /\ csr'.stvec = Kern("uservec") /\ csr'.spp = "U" /\ csr'.spie = TRUE
      /\ csr'.sepc = tf[p].epc /\ csr'.satp = csr.satp /\ csr'.sie = csr.sie
  BY <1>2, <1>4 DEF ShapeInv, IsCsr
<1>8. IsReg(reg') /\ reg'.sp = reg.sp /\ reg'.a0 = UserSatp(p, pt[p])
  BY <1>2, <1>4 DEF ShapeInv, IsReg
<1>9. ShapeInv'
  BY <1>2, <1>4, <1>5, <1>6, <1>7, <1>8 DEF ShapeInv
<1>10. UserretInv'
  <2>1. Consistent(p) /\ ~csr.sie /\ csr.satp = KernelSatp /\ stack[p] = <<>> /\ reg.sp = Sp(p, 0)
    BY <1>2, <1>3 DEF CodeInv, PlaceInv, KernelCsr, CallPlaces
  <2>2. Consistent(p)' /\ Prepared(p)'
    BY <1>4, <1>6, <2>1 DEF Consistent, Prepared
  <2> QED
    BY <1>3, <1>4, <1>6, <1>7, <1>8, <2>1, <2>2 DEF UserretInv
<1>11. AtInv("userret")' /\ "userret" \in Labels
  BY <1>10 DEF AtInv, Labels, CodePlaces, CallPlaces, SchedPlaces
<1> QED
  BY <1>1, <1>3, <1>4, <1>5, <1>9, <1>11, CodeStep DEF Same

LEMMA UserretStepInv ==
    ASSUME Inv, Userret
    PROVE  Inv'
<1>1. At("userret") /\ ShapeInv /\ UserretInv
  BY AtFacts DEF Userret, Inv, AtInv
<1>2. PICK p \in Procs : p = current
  BY <1>1 DEF UserretInv
<1>3. reg.a0 = UserSatp(p, pt[p]) /\ reg.a0[2] = p
  BY <1>1, <1>2, KernFacts DEF UserretInv
<1>4. PICK c : c = [csr EXCEPT !.satp = reg.a0]
  OBVIOUS
<1>5. /\ reg' = [a0 |-> tf[p].a0, tmp |-> tf[p].tmp, cs |-> tf[p].cs, sp |-> tf[p].sp]
      /\ Sret(c) /\ UNCHANGED <<current, stack, interrupted, procVars>>
  BY <1>3, <1>4 DEF Userret
<1>6. /\ IsCsr(c) /\ c.satp = UserSatp(p, pt[p]) /\ c.stvec = Kern("uservec") /\ c.spp = "U"
      /\ c.spie = TRUE /\ c.sepc = tf[p].epc
  BY <1>1, <1>2, <1>3, <1>4 DEF ShapeInv, IsCsr, UserretInv
<1>7. /\ IsCsr(csr') /\ csr'.satp = UserSatp(p, pt[p]) /\ csr'.stvec = Kern("uservec")
      /\ csr'.sie = TRUE /\ mode' = "U" /\ pc' = tf[p].epc
  BY <1>5, <1>6 DEF Sret, IsCsr
<1>8. /\ IsReg(reg') /\ reg'.a0 = tf[p].a0 /\ reg'.tmp = tf[p].tmp /\ reg'.cs = tf[p].cs
      /\ reg'.sp = tf[p].sp
  BY <1>5 DEF IsReg
<1>9. ShapeInv'
  BY <1>1, <1>5, <1>7, <1>8 DEF ShapeInv, procVars
<1>10. /\ user[p].pc = tf[p].epc /\ user[p].a0 = tf[p].a0 /\ user[p].tmp = tf[p].tmp
       /\ user[p].cs = tf[p].cs /\ user[p].sp = tf[p].sp
  <2>1. UserPart(tf[p]) = user[p]
    BY <1>1, <1>2 DEF UserretInv, Consistent
  <2> QED
    BY <2>1 DEF UserPart
<1>11. UserInv'
  BY <1>1, <1>2, <1>5, <1>7, <1>8, <1>10 DEF UserInv, UserretInv, Prepared, procVars
<1>12. HartInv'
  BY <1>2, <1>5, <1>7, <1>10, <1>11 DEF HartInv, procVars
<1>13. OnHart = current /\ OnHart' = current
  BY <1>1, <1>5, <1>7, KernFacts DEF OnHart, At
<1>14. OthersInv' /\ SchedulerInv'
  BY <1>5, <1>13, Keep DEF Inv, Same, procVars
<1> QED
  BY <1>9, <1>12, <1>14 DEF Inv

-----------------------------------------------------------------------------
(* The theorems.                                                            *)

LEMMA InitInv == Init => Inv
<1> SUFFICES ASSUME Init PROVE Inv
  OBVIOUS
<1>1. /\ mode = "S" /\ pc = Kern("sched") /\ reg = Working(Sched) /\ current = None /\ ready = {0}
      /\ csr = [sie |-> FALSE, spie |-> FALSE, spp |-> "U", sepc |-> User(0),
                scause |-> "none", stvec |-> Kern("kernelvec"), satp |-> KernelSatp]
  BY DEF Init
<1>2. /\ \A p \in Procs : tf[p] = EmptyFrame /\ user[p] = UserPart(EmptyFrame) /\ pt[p] = 0
      /\ \A t \in Threads : ctx[t] = NewContext(t) /\ stack[t] = <<>> /\ interrupted[t] = Nowhere
  BY DEF Init
<1>3. ShapeInv
  <2>1. IsReg(reg) /\ IsCsr(csr) /\ csr.sie \in BOOLEAN
    BY <1>1 DEF Working, IsReg, IsCsr
  <2>2. IsFrame(EmptyFrame) /\ IsUser(UserPart(EmptyFrame))
    BY DEF EmptyFrame, UserPart, IsFrame, IsUser
  <2>3. /\ tf = [p \in Procs |-> tf[p]] /\ user = [p \in Procs |-> user[p]]
        /\ pt = [p \in Procs |-> pt[p]] /\ ctx = [t \in Threads |-> ctx[t]]
        /\ stack = [t \in Threads |-> stack[t]]
        /\ interrupted = [t \in Threads |-> interrupted[t]]
    BY DEF Init
  <2> QED
    BY <1>1, <1>2, <2>1, <2>2, <2>3, ThreadFacts DEF ShapeInv
<1>4. SchedInv("sched")
  BY <1>1, <1>2, ThreadFacts DEF SchedInv, KernelCsr, Working, SchedPlaces
<1>5. AtInv("sched") /\ "sched" \in Labels
  BY <1>4 DEF AtInv, Labels, CodePlaces, CallPlaces, SchedPlaces
<1>6. HartInv
  BY <1>1, <1>5 DEF HartInv
<1>7. OnHart = None
  BY <1>1 DEF OnHart
<1>8. ASSUME NEW p \in Procs PROVE Idle(p)
  <2>1. Consistent(p) /\ stack[p] = <<>> /\ ctx[p] = NewContext(p)
    BY <1>2, ThreadFacts DEF Consistent
  <2>2. ctx[p].ra = Kern("forkret") /\ ctx[p].sp = Sp(p, 0)
    BY <2>1 DEF NewContext, Context
  <2>3. Waiting(p)
    BY <2>1, <2>2, KernFacts DEF Waiting
  <2> QED
    BY <2>1, <2>3 DEF Idle
<1> QED
  BY <1>3, <1>6, <1>7, <1>8 DEF Inv, OthersInv, SchedulerInv

LEMMA StutterInv ==
    ASSUME Inv, UNCHANGED vars
    PROVE  Inv'
<1>1. /\ UNCHANGED <<mode, pc, reg, csr, current, stack, interrupted, tf, ctx, pt, ready, user>>
  BY DEF vars, procVars
<1>2. ShapeInv'
  BY <1>1 DEF Inv, ShapeInv
<1>3. OnHart' = OnHart
  BY <1>1 DEF OnHart, At
<1>4. OthersInv' /\ SchedulerInv'
  BY <1>1, <1>3, Keep DEF Inv, Same
<1>5. HartInv'
  <2>1. CASE mode = "U"
    BY <1>1, <2>1 DEF Inv, HartInv, UserInv, Prepared
  <2>2. CASE mode = "S"
    <3>1. PICK l \in Labels : pc = Kern(l) /\ AtInv(l)
      BY <2>2 DEF Inv, HartInv
    <3>2. UserInv' = UserInv /\ Trapped' = Trapped /\ KernelCsr' = KernelCsr /\ Thread' = Thread
      BY <1>1 DEF UserInv, Trapped, KernelCsr, Thread, Prepared
    <3>3. AtInv(l)'
      BY <1>1, <3>1, <3>2
      DEF AtInv, CodeInv, UsertrapInv, UserretInv, KernelvecInv, KtEndInv, HaltInv, YeldInv, BackInv,
          SchedInv, PlaceInv, Consistent, Prepared, Nested, Hit, Saved, Yielding
    <3> QED
      BY <1>1, <2>2, <3>1, <3>3 DEF HartInv
  <2> QED
    BY <2>1, <2>2 DEF Inv, ShapeInv
<1> QED
  BY <1>2, <1>4, <1>5 DEF Inv

\* Every step of the hart keeps the invariant.
LEMMA NextInv == Inv /\ [Next]_vars => Inv'
<1> SUFFICES ASSUME Inv, [Next]_vars PROVE Inv'
  OBVIOUS
<1>1. CASE UNCHANGED vars
  BY <1>1, StutterInv
<1>2. CASE UserStep \/ UserTrap \/ Uservec \/ Usertrap
  BY <1>2, UserStepInv, UserTrapInv, UservecInv, UsertrapStepInv
<1>3. CASE InterruptOffRead \/ InterruptOffWrite \/ Unlock \/ CallReturns \/ CallForks
  BY <1>3, InterruptOffReadInv, InterruptOffWriteInv, UnlockInv, CallReturnsInv, CallForksInv
<1>4. CASE CallExits \/ ExecArguments \/ ExecCommit \/ GiveUp \/ Resume
  BY <1>4, CallExitsInv, ExecArgumentsInv, ExecCommitInv, GiveUpInv, ResumeInv
<1>5. CASE SchedWindow \/ SchedPick \/ SchedIdle \/ SchedBack
  BY <1>5, SchedWindowInv, SchedPickInv, SchedIdleInv, SchedBackInv
<1>6. CASE KernelTrap \/ Kernelvec \/ KernelvecReturn \/ PrepareReturn \/ Userret
  BY <1>6, KernelTrapInv, KernelvecStepInv, KernelvecReturnInv, PrepareReturnInv, UserretStepInv
<1>7. CASE CallPanics \/ PanicLoop
  BY <1>7, CallPanicsInv, StutterInv DEF PanicLoop
<1> QED
  BY <1>1, <1>2, <1>3, <1>4, <1>5, <1>6, <1>7 DEF Next

LEMMA Invariance == Spec => []Inv
BY InitInv, NextInv, PTL DEF Spec

\* For every number of processes: a process that is back in user mode has the
\* address, the registers and the page table it had when it trapped, except
\* for what its system call did to them.
THEOREM UserNeverNotices == Spec => []UserContextRestored
<1>1. Inv => UserContextRestored
  <2> SUFFICES ASSUME Inv, mode = "U" PROVE UserContextRestored
    BY DEF UserContextRestored
  <2>1. UserInv /\ user[current].pc = pc /\ IsUser(user[current])
    BY DEF Inv, HartInv, UserInv, ShapeInv
  <2> QED
    BY <2>1 DEF UserContextRestored, UserInv, IsUser
<1> QED
  BY <1>1, Invariance, PTL

\* stvec, satp and the trapframe fit the mode whenever a trap can be taken:
\* usertrap() and prepare_return() switch them in time.
THEOREM VectorsFit == Spec => []TrapVectorFits
<1>1. Inv => TrapVectorFits
  <2> SUFFICES ASSUME Inv PROVE TrapVectorFits
    OBVIOUS
  <2>1. mode = "U" => /\ csr.stvec = Kern("uservec") /\ tf[current].kernel_sp = Sp(current, 0)
                      /\ tf[current].kernel_satp = KernelSatp
                      /\ tf[current].trap_handler = Kern("usertrap")
    BY DEF Inv, HartInv, UserInv, Prepared
  <2>2. mode = "S" /\ csr.sie => csr.stvec = Kern("kernelvec") /\ csr.satp = KernelSatp
    BY EnabledFacts DEF KernelCsr
  <2> QED
    BY <2>1, <2>2 DEF TrapVectorFits
<1> QED
  BY <1>1, Invariance, PTL

\* The panics of usertrap() and kerneltrap() about the mode they come from,
\* enabled interrupts and a missing process cannot happen (the one about an
\* unknown cause can: it takes a fault or an external interrupt), and uservec
\* always runs on a user's page table.
THEOREM HandlersNeverReject == Spec => []HandlersAccept
<1>1. Inv => HandlersAccept
  <2> SUFFICES ASSUME Inv PROVE HandlersAccept
    OBVIOUS
  <2>1. At("uservec") => UservecAccepts
    BY AtFacts, KernFacts DEF Inv, AtInv, UserInv, UservecAccepts
  <2>2. At("usertrap") => UsertrapAccepts
    BY AtFacts, ThreadFacts DEF Inv, AtInv, UsertrapInv, Trapped, UsertrapAccepts
  <2>3. At("kernelvec") => KerneltrapAccepts
    BY AtFacts DEF Inv, AtInv, KernelvecInv, KerneltrapAccepts
  <2> QED
    BY <2>1, <2>2, <2>3 DEF HandlersAccept
<1> QED
  BY <1>1, Invariance, PTL

\* CPU.current is the process whose kernel stack is in use, so yeld() saves
\* every context where it belongs.
THEOREM CurrentIsRight == Spec => []CurrentOwnsStack
<1>1. Inv => CurrentOwnsStack
  <2> SUFFICES ASSUME Inv, mode = "S", pc # Kern("uservec"), pc # Kern("sched_back")
               PROVE  current = IF Self = Sched THEN None ELSE Self
    BY DEF CurrentOwnsStack
  <2>1. PICK l \in Labels : pc = Kern(l) /\ AtInv(l) /\ l # "uservec" /\ l # "sched_back"
    BY DEF Inv, HartInv
  <2>2. \E d : reg.sp = Sp(Thread, d)
    <3>1. CASE l \in {"kernelvec", "kt_end", "halt"}
      BY <2>1, <3>1 DEF AtInv, KernelvecInv, KtEndInv, HaltInv
    <3>2. CASE l \in SchedPlaces \cup {"pick"}
      BY <2>1, <3>2 DEF AtInv, SchedInv, Thread, SchedPlaces
    <3>3. CASE l \notin SchedPlaces \cup {"kernelvec", "kt_end", "halt", "pick"}
      <4>1. current \in Procs /\ \E d : reg.sp = Sp(current, d)
        BY <2>1, <3>3
        DEF AtInv, Labels, CodeInv, UsertrapInv, UserretInv, YeldInv, Yielding, BackInv
      <4> QED
        BY <4>1, ThreadFacts DEF Thread
    <3> QED
      BY <3>1, <3>2, <3>3
  <2>3. Self = Thread
    BY <2>2, KernFacts DEF Self
  <2> QED
    BY <2>3, ThreadFacts DEF Thread, Inv, ShapeInv
<1> QED
  BY <1>1, Invariance, PTL

\* However many switches lie between: the end of kerneltrap() is back at the
\* interrupted instruction, with the interrupted registers and interrupts on.
THEOREM InterruptsAreTransparent == Spec => InterruptIsTransparent
<1> DEFINE Step == pc = Kern("kt_end") /\ mode = "S" =>
                      /\ pc' = interrupted[Self].pc
                      /\ reg' = interrupted[Self].reg
                      /\ mode' = "S" /\ csr'.sie
<1>1. Inv /\ [Next]_vars => [Step]_vars
  <2> SUFFICES ASSUME Inv, Next, pc = Kern("kt_end"), mode = "S" PROVE Step
    OBVIOUS
  <2>1. ~csr.sie
    BY AtFacts DEF At, Inv, AtInv, KtEndInv
  <2>2. \A l : At(l) => l = "kt_end"
    BY KernFacts DEF At
  <2>3. KernelvecReturn
    BY <2>1, <2>2
    DEF Next, UserStep, UserTrap, Uservec, Usertrap, InterruptOffRead, InterruptOffWrite,
        Unlock, CallReturns, CallForks, CallExits, ExecArguments, ExecCommit, CallPanics,
        PanicLoop, GiveUp, Resume, SchedWindow, SchedPick, SchedIdle, SchedBack, KernelTrap, Kernelvec, PrepareReturn, Userret
  <2> QED
    BY <2>3, ReturnFacts
<1> QED
  BY <1>1, Invariance, PTL DEF Spec, InterruptIsTransparent

=============================================================================
