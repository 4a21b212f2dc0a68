----------------------------- MODULE UserMemory -----------------------------
(***************************************************************************)
(* User memory byte by byte: kexec() loads an image and builds the         *)
(* argument block on the new stack (process.rs), and the kernel copies for *)
(* system calls with copy_in, copy_in_cont, copy_in_str, copy_out and      *)
(* copy_out_cont, each of which translates its first address with walkaddr *)
(* and goes on in physical memory (virtmemory.rs).                         *)
(*                                                                         *)
(* Addresses count from USER_START.  The pages of the image are followed   *)
(* by a guard page, which is not mapped, and the stack; then nothing is    *)
(* mapped (one page stands for the gap) up to TRAPFRAME and TRAMPOLINE,    *)
(* which init_proc maps without PTE_U.  Frames need not be neighbours,     *)
(* come from the heap as their last owner left them, and the kernel        *)
(* reaches them through its identity mapping, where the text is read-only. *)
(* flat is memory as seen through the table of the process.  Copies into   *)
(* the kernel change no state and are operators.                           *)
(***************************************************************************)
EXTENDS Integers, Sequences, Functions

CONSTANTS
    PAGESIZE,   \* bytes of a page (scaled down)
    WordSize,   \* size_of::<usize>(), and of the u32 that wait copies out
    ALIGN,      \* 8: the alignment of an argument
    Images,     \* lengths of the images
    MaxArgs,    \* bound: arguments
    MaxLen,     \* bound: bytes of an argument
    MaxOps,     \* bound: writes to memory after exec
    CrossPages, \* whether user programs pass ranges that cross pages
    Layouts     \* the frames that the heap may give to the pages

VPages == 0 .. 6                \* at most two of the image, guard, stack; 4: the gap
TrapframePage  == 5
TrampolinePage == 6
Frames    == 0 .. 6
TextFrame == 6                  \* of the text of the kernel; not from the heap

ASSUME UserMemoryAssumption ==
    /\ {PAGESIZE, WordSize, ALIGN} \subseteq Nat \ {0}
    /\ Images \subseteq 1 .. 2 * PAGESIZE
    /\ PAGESIZE % ALIGN = 0 /\ ALIGN % WordSize = 0
    /\ {MaxArgs, MaxLen, MaxOps} \subseteq Nat /\ CrossPages \in BOOLEAN
    /\ Layouts \subseteq {f \in [VPages -> Frames] :
                              IsInjective(f) /\ f[TrampolinePage] = TextFrame}

VEnd   == 7 * PAGESIZE
PEnd   == 7 * PAGESIZE
None   == -1

\* Bytes say where they come from.
Nul       == <<"nul", 0, 0>>
Stale     == <<"stale", 0, 0>>      \* left by the last owner of the frame
Rodata    == <<"rodata", 0, 0>>     \* what follows an image in the kernel
Tf        == <<"trapframe", 0, 0>>
Text      == <<"text", 0, 0>>
Img(i)    == <<"img", i, 0>>
Arg(i, j) == <<"arg", i, j>>
Ptr(i, k) == <<"ptr", i, k>>        \* byte k of the address of argument i
Data(i)   == <<"data", i, 0>>
Err       == <<Nul, Nul, Nul, Nul, Nul>>

VARIABLES
    frame,      \* the frame of each page; nobody's for a page without mapping
    mem,        \* physical memory
    size,       \* bytes of the image
    at,         \* kexec(): "load", "arg", "pointers", "err"; then "run", and
                \* "panic" or "fault" after a system call that fails
    argv,       \* the lengths of the arguments
    sp,
    ustack,     \* the addresses of the arguments copied so far
    ops,        \* writes since exec
    flat        \* history: memory as the process should see it

vars == <<frame, mem, size, at, argv, sp, ustack, ops, flat>>

ImagePages == (size + PAGESIZE - 1) \div PAGESIZE
StackPage  == ImagePages + 1
UEnd       == (StackPage + 1) * PAGESIZE            \* Uvm::end
IsMapped(va) == va \in 0 .. UEnd - 1 /\ va \div PAGESIZE # ImagePages   \* with PTE_U
Mapped(va)   == IsMapped(va) \/ va \div PAGESIZE \in {TrapframePage, TrampolinePage}

Phys(va) == frame[va \div PAGESIZE] * PAGESIZE + (va % PAGESIZE)

\* Slip: the offset in the page is forgotten.
WalkaddrPage(va) == IF Mapped(va) THEN frame[va \div PAGESIZE] * PAGESIZE ELSE None

\* walkaddr asks for V and one of R, W, X, and not for U: the trapframe and the
\* trampoline have a translation, the guard page and the gap have none.
Walkaddr(va) == IF Mapped(va) THEN Phys(va) ELSE None

Init ==
    /\ frame \in Layouts
    /\ mem = [p \in 0 .. PEnd - 1 |-> CASE p \div PAGESIZE = frame[TrapframePage] -> Tf
                                        [] p \div PAGESIZE = TextFrame -> Text
                                        [] OTHER -> Stale]
    /\ flat = [a \in 0 .. VEnd - 1 |-> CASE a \div PAGESIZE = TrapframePage -> Tf
                                         [] a \div PAGESIZE = TrampolinePage -> Text
                                         [] OTHER -> Stale]
    /\ size = 0 /\ at = "load"
    /\ argv \in UNION {[1 .. n -> 0 .. MaxLen] : n \in 0 .. MaxArgs}
    /\ sp = 0 /\ ustack = <<>> /\ ops = 0

-----------------------------------------------------------------------------
(* exec.                                                                    *)

\* Slip: a short last chunk is not loaded.
ChunksWhole(len) == 0 .. (len \div PAGESIZE) - 1

\* img.chunks(PAGESIZE)
Chunks(len) == 0 .. ((len + PAGESIZE - 1) \div PAGESIZE) - 1

\* The bytes that load() leaves in the page of a chunk: it is cleared, and
\* then PAGESIZE bytes are copied, for the last chunk from beyond the image.
LoadedByte(len, va) == IF va < len THEN Img(va) ELSE Rodata

\* alloc, load, the guard page and the stack page.
Load ==
    /\ at = "load"
    /\ \E len \in Images :
          /\ size' = len
          /\ flat' = [a \in 0 .. VEnd - 1 |->
                        IF a \div PAGESIZE \in Chunks(len) THEN LoadedByte(len, a) ELSE flat[a]]
          /\ mem' = [p \in 0 .. PEnd - 1 |->
                       LET page == {v \in Chunks(len) : frame[v] = p \div PAGESIZE}
                       IN  IF page = {} THEN mem[p]
                           ELSE LoadedByte(len, (CHOOSE v \in page : TRUE) * PAGESIZE + (p % PAGESIZE))]
    /\ sp' = UEnd'
    /\ at' = IF argv = <<>> THEN "pointers" ELSE "arg"
    /\ UNCHANGED <<frame, argv, ustack, ops>>

\* Slip: one element too many is written.
WrittenMore(p, len) == p .. p + len

\* The places that copy_out_cont writes.
Written(p, len) == p .. p + len - 1

\* copy_out_cont and copy_out to addr, which has a translation; what follows
\* the bytes to copy in the kernel is Rodata here too.
CopyOut(addr, bytes) ==
    LET p == Walkaddr(addr)
        b(i) == IF i < Len(bytes) THEN bytes[i + 1] ELSE Rodata
    IN  /\ mem' = [q \in 0 .. PEnd - 1 |->
                     IF q \in Written(p, Len(bytes)) THEN b(q - p) ELSE mem[q]]
        /\ flat' = [a \in 0 .. VEnd - 1 |->
                      IF a \in addr .. addr + Len(bytes) - 1 THEN b(a - addr) ELSE flat[a]]

\* Slip: the length is taken off after the alignment.
PlaceUnaligned(len) == sp - (sp % ALIGN) - len

\* sp -= arg.len(); sp &= !0b111
Place(len) == ((sp - len) \div ALIGN) * ALIGN

StackBase == StackPage * PAGESIZE

\* One turn of the loop over argv.
CopyArg ==
    /\ at = "arg"
    /\ LET i == Len(ustack) + 1
           p == Place(argv[i])
       IN  IF p < StackBase \/ Walkaddr(p) = None
             THEN at' = "err" /\ UNCHANGED <<sp, ustack, mem, flat>>
             ELSE /\ sp' = p
                  /\ CopyOut(p, [j \in 1 .. argv[i] |-> Arg(i, j)])
                  /\ ustack' = Append(ustack, p)
                  /\ at' = IF i = Len(argv) THEN "pointers" ELSE "arg"
    /\ UNCHANGED <<frame, size, argv, ops>>

\* sp -= ustack.len() * size_of::<usize>(), with the 0 that was pushed.
PointersStart == sp - (Len(ustack) + 1) * WordSize

\* The array of pointers, which ends in a null pointer.
PointerBytes ==
    [k \in 1 .. (Len(ustack) + 1) * WordSize |->
        LET i == (k - 1) \div WordSize + 1
        IN  IF i > Len(ustack) THEN Nul ELSE Ptr(i, (k - 1) % WordSize)]

CopyPointers ==
    /\ at = "pointers"
    /\ IF PointersStart < StackBase
         THEN at' = "err" /\ UNCHANGED <<sp, mem, flat>>
         ELSE /\ sp' = PointersStart
              /\ CopyOut(PointersStart, PointerBytes)
              /\ at' = "run"
    /\ UNCHANGED <<frame, size, argv, ustack, ops>>

-----------------------------------------------------------------------------
(* The program and its system calls.                                        *)

\* The program clears a byte.
UserStore ==
    /\ at = "run" /\ ops < MaxOps
    /\ \E a \in 0 .. UEnd - 1 :
          /\ IsMapped(a)
          /\ mem' = [mem EXCEPT ![Phys(a)] = Nul]
          /\ flat' = [flat EXCEPT ![a] = Nul]
    /\ ops' = ops + 1
    /\ UNCHANGED <<frame, size, at, argv, sp, ustack>>

\* Ranges that programs pass: anywhere, and in one page unless CrossPages.
Passed(addr, len) ==
    /\ addr + len <= VEnd
    /\ CrossPages \/ (addr % PAGESIZE) + len <= PAGESIZE

\* A store of len bytes at p reaches the text, which the kernel maps R-X.
HitsText(p, len) == \E q \in Written(p, len) : q \div PAGESIZE = TextFrame

\* copy_out of the status for wait: the unwrap of an error panics, a store to
\* the text is a page fault in the kernel.
WaitStatus ==
    /\ at = "run" /\ ops < MaxOps
    /\ \E addr \in 0 .. VEnd - 1 :
          /\ Passed(addr, WordSize)
          /\ LET p == Walkaddr(addr)
             IN  \/ p = None /\ at' = "panic" /\ UNCHANGED <<mem, flat>>
                 \/ /\ p # None /\ HitsText(p, WordSize)
                    /\ at' = "fault" /\ UNCHANGED <<mem, flat>>
                 \/ /\ p # None /\ ~HitsText(p, WordSize)
                    /\ CopyOut(addr, [i \in 1 .. WordSize |-> Data(i)])
                    /\ UNCHANGED at
    /\ ops' = ops + 1
    /\ UNCHANGED <<frame, size, argv, sp, ustack>>

\* copy_in_cont for write, and copy_in for a pointer of exec.
CopyIn(addr, len) ==
    LET p == Walkaddr(addr)
    IN  IF p = None THEN Err ELSE [i \in 1 .. len |-> mem[p + i - 1]]

\* copy_in_str for exec: up to the first NUL byte in physical memory.
CopyInStr(addr) ==
    LET p    == Walkaddr(addr)
        nuls == {n \in 0 .. PEnd - 1 - p : mem[p + n] = Nul}
        len  == CHOOSE n \in nuls : \A m \in nuls : n <= m
    IN  CASE p = None  -> Err
          [] nuls = {} -> Err       \* runs on beyond the memory of the model
          [] OTHER     -> [i \in 1 .. len |-> mem[p + i - 1]]

Next == Load \/ CopyArg \/ CopyPointers \/ UserStore \/ WaitStatus

Spec == Init /\ [][Next]_vars

-----------------------------------------------------------------------------
(* Properties.                                                              *)

\* load, copy_out and copy_out_cont change what is seen through the table of
\* the process where they were told to and nowhere else, and no frame that this
\* table does not map.  The text behind the trampoline never changes, and
\* nothing that exec copies reaches the trapframe; wait, whose pointer may be
\* any address, reaches it when it is told to, for want of a check of PTE_U.
WritesReachTheUser ==
    /\ \A a \in 0 .. VEnd - 1 : at # "load" /\ Mapped(a) => mem[Phys(a)] = flat[a]
    /\ \A p \in (0 .. PEnd - 1) \ {Phys(a) : a \in {b \in 0 .. VEnd - 1 : Mapped(b)}} :
          mem[p] = Stale
    /\ \A a \in 0 .. VEnd - 1 :
          /\ a \div PAGESIZE = TrampolinePage => mem[Phys(a)] = Text
          /\ a \div PAGESIZE = TrapframePage /\ ops = 0 => mem[Phys(a)] = Tf

\* copy_in and copy_in_cont return the bytes that the table of the process has
\* at the address that was passed, copy_in_str those up to the first NUL byte,
\* for the trapframe and the trampoline too, which the user cannot read
\* itself; an address without a mapping (guard page, gap) is an error.
ReadsComeFromTheUser ==
    at = "run" =>
        /\ \A addr \in 0 .. VEnd - 1, len \in 1 .. WordSize + 1 :
              Passed(addr, len) /\ (\A a \in addr .. addr + len - 1 : Mapped(a))
              => CopyIn(addr, len) = [i \in 1 .. len |-> flat[addr + i - 1]]
        /\ \A addr \in 0 .. VEnd - 1, n \in 0 .. PAGESIZE :
              /\ Passed(addr, n + 1) /\ \A a \in addr .. addr + n : Mapped(a)
              /\ flat[addr + n] = Nul /\ \A m \in 0 .. n - 1 : flat[addr + m] # Nul
              => CopyInStr(addr) = [i \in 1 .. n |-> flat[addr + i - 1]]
        /\ \A addr \in 0 .. VEnd - 1 :
              ~Mapped(addr) => CopyIn(addr, 1) = Err /\ CopyInStr(addr) = Err

\* load() puts every byte of the image where the program expects it, and the
\* arguments on the stack do not touch it.
ImageIsLoaded ==
    at # "load" /\ ops = 0 => \A a \in 0 .. size - 1 : mem[Phys(a)] = Img(a)

\* The bytes that the arguments take with their padding, and the pointers.
Padded(len) == ((len + ALIGN - 1) \div ALIGN) * ALIGN
Needed ==
    LET Sum[i \in 0 .. Len(argv)] == IF i = 0 THEN 0 ELSE Sum[i - 1] + Padded(argv[i])
    IN  Sum[Len(argv)] + (Len(argv) + 1) * WordSize

\* What main(argc, argv) finds in its memory: argv[i] points to the bytes of
\* argument i, the array ends in a null pointer, and nothing overlaps.  exec
\* fails for arguments that do not fit the stack page, and for an empty first
\* argument, whose address is beyond the stack; never otherwise.
ArgumentsArrive ==
    /\ at = "run" /\ ops = 0 =>
        /\ \A i \in 1 .. Len(argv) :
              /\ \A j \in 1 .. argv[i] : mem[Phys(ustack[i] + j - 1)] = Arg(i, j)
              /\ \A k \in 0 .. WordSize - 1 : mem[Phys(sp + (i - 1) * WordSize + k)] = Ptr(i, k)
        /\ \A k \in 0 .. WordSize - 1 : mem[Phys(sp + Len(argv) * WordSize + k)] = Nul
        /\ sp % WordSize = 0 /\ Needed <= PAGESIZE
    /\ at = "err" => Needed > PAGESIZE \/ argv[1] = 0

=============================================================================
