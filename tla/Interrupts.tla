------------------------------ MODULE Interrupts ------------------------------
(***************************************************************************)
(* The ways into the kernel and back on the level of registers and stacks: *)
(* what boot/boot.s and kernel_main set up (descriptors, PICs, IDT, MSRs), *)
(* the stubs of cpu/irq.s and cpu/isr.s, syscall/do_syscall.s, get_to_ring3*)
(* of cpu/cpu.s, and the change of stacks in sched/switch.s.  Which thread *)
(* runs next and when is Scheduler's business: here it may be any that is  *)
(* ready.  Masks are Keyboard's business: here no line is masked.          *)
(*                                                                         *)
(* A step is the code between two points at which an interrupt may come or *)
(* which a property looks at.  A call of a C function destroys the         *)
(* registers that the ABI lets it destroy.                                 *)
(***************************************************************************)
EXTENDS Printf, Devices

CONSTANTS
  Main,        \* kernel_main, then the idle task
  Looper,      \* a task that is always ready: init_fs
  Loader,      \* tasks that sleep, load a program and go to ring 3: test_elf
  Nobody,      \* no thread
  Exceptions,  \* the exceptions that code may raise, without the page fault
  StackWords,  \* how many words a kernel stack holds, ten pages of them
  tss_entry    \* the address of the TSS, in the low part of the image

Thread == {Main, Looper} \cup Loader

ASSUME InterruptsAssumption ==
  /\ Main # Looper /\ {Main, Looper} \cap Loader = {} /\ Nobody \notin Thread
  /\ Exceptions \subseteq 0..31 \ {14} /\ StackWords \in Nat /\ StackWords >= 20
  /\ tss_entry \in Nat /\ tss_entry \div 65536 < 65536

\* Every number that a dump shows fits a long.
ASSUME LongAssumption == 2^LONG_BITS > 65535

VARIABLES
  cur,       \* current_task_TCB; whose stack is in use
  pc,        \* pc[t]: the code that t executes when it runs next
  ring, interrupts, cs, ss, regs,   \* of the CPU
  on_user,   \* the stack pointer is in a user's stack
  stack,     \* stack[t]: the words on t's kernel stack, the last on top
  rsp0,      \* the field of the TCB: how many words lie above it
  tss_rsp0,  \* whose kernel stack the TSS names
  io,        \* the devices
  idt,       \* the IDT is loaded
  msr,       \* the code segment and the mask of flags for syscall
  step,      \* the statements of kernel_main that were executed
  nr,        \* the number of the system call or the vector under way
  raised     \* history: the exception that was raised and not dealt with

cpu   == <<ring, interrupts, cs, ss, regs, on_user>>
stacks == <<stack, rsp0, tss_rsp0>>
setup == <<idt, msr, step>>
vars  == <<cur, pc, cpu, stacks, io, setup, nr, raised>>

-----------------------------------------------------------------------------
(* Registers, words and descriptors.                                        *)

\* cpu.inc: the order in which push_all pushes.
push_all == <<"rax", "rbx", "rcx", "rdx", "rbp", "rsi", "rdi", "r8", "r9",
              "r10", "r11", "r12", "r13", "r14", "r15">>

\* Mutant: two registers change places.
pop_all_swapped ==
            <<"r15", "r14", "r13", "r12", "r11", "r10", "r9", "r8", "rsi",
              "rdi", "rbp", "rdx", "rcx", "rbx", "rax">>

\* The order in which pop_all pops.
pop_all  == <<"r15", "r14", "r13", "r12", "r11", "r10", "r9", "r8", "rdi",
              "rsi", "rbp", "rdx", "rcx", "rbx", "rax">>

Reg == ToSet(push_all)

\* cpu.h: the registers that the ABI lets a C function keep, or destroy.
pt_regs == [preserved |-> {"r15", "r14", "r13", "r12", "rbp", "rbx"},
            clobbered |-> {"r11", "r10", "r9", "r8", "rax", "rcx", "rdx", "rsi", "rdi"}]
Clobbered == pt_regs.clobbered

\* A register holds what it held when t's own code was left, or something else.
Own(t) == [r \in Reg |-> <<t, r>>]
Lose(rs, S) == [r \in Reg |-> IF r \in S THEN <<Nobody, r>> ELSE rs[r]]

\* Words on a kernel stack: a saved register, what the CPU pushes for an
\* interrupt (the five words of its frame as one), an error code or vector, the
\* flags that switch_to_task pushes, the address and the flags of user code.
SavedReg(value) == [is |-> "reg", value |-> value]
Number(n)       == [is |-> "number", value |-> n]
Flags(f)        == [is |-> "flags", value |-> f]
Stale           == [is |-> "stale"]

\* Access bits and flags of boot.s.
PRESENT   == 128
DPL_LOW   == 64 + 32
NOT_SYS   == 16
EXEC      == 8
RW        == 2
GRAN_4K   == 128
SZ_32     == 64
LONG_MODE == 32

Segment(access, flags) == [access |-> access, flags |-> flags]

\* gdt_base: null, code, data, 32-bit user code, user data, user code.
Gdt == <<
  Segment(0, 0),
  Segment(PRESENT + NOT_SYS + EXEC + RW, GRAN_4K + LONG_MODE),
  Segment(PRESENT + NOT_SYS + RW, GRAN_4K + SZ_32),
  Segment(PRESENT + DPL_LOW + NOT_SYS + EXEC + RW, GRAN_4K + LONG_MODE),
  Segment(PRESENT + DPL_LOW + NOT_SYS + RW, GRAN_4K + LONG_MODE),
  Segment(PRESENT + DPL_LOW + NOT_SYS + EXEC + RW, GRAN_4K + LONG_MODE) >>

\* What the CPU sees in them; a selector is eight times the place, and the ring.
Bit(byte, bit)       == (byte \div bit) % 2 = 1
Descriptor(selector) == Gdt[selector \div 8 + 1]
Dpl(d)               == (d.access \div 32) % 4
IsSegment(d) == Bit(d.access, PRESENT) /\ Bit(d.access, NOT_SYS)
IsCode(d)    == IsSegment(d) /\ Bit(d.access, EXEC) /\ Bit(d.flags, LONG_MODE)
IsData(d)    == IsSegment(d) /\ ~Bit(d.access, EXEC) /\ Bit(d.access, RW)

\* The TSS: four reserved bytes, rsp0 and eleven more quads, two words.
tss_size == 4 + 12 * 8 + 2 * 2

\* set_tss takes the address and the size apart for the descriptor, from which
\* the CPU puts them together.
set_tss ==
  [limit_1 |-> tss_size % 65536,  limit_2 |-> (tss_size \div 65536) % 256,
   base_1  |-> tss_entry % 65536, base_2  |-> (tss_entry \div 65536) % 256,
   base_3  |-> (tss_entry \div 65536) \div 256]

\* The CPU finds rsp0 in the TSS.
TssFound ==
  /\ (set_tss.base_3 * 256 + set_tss.base_2) * 65536 + set_tss.base_1 = tss_entry
  /\ set_tss.limit_2 * 65536 + set_tss.limit_1 >= 4 + 8

-----------------------------------------------------------------------------
(* Lines and what is printed.                                               *)

\* The lines that a device of this machine raises: timer, keyboard, floppy.
Device == {0, 1, 6}

\* What came out of the serial port.
dump == io.uart.received

DeviceRaises ==
  /\ \E l \in Device \ io.pic1.irr : io' = [io EXCEPT !.pic1.irr = @ \cup {l}]
  /\ UNCHANGED <<cur, pc, cpu, stacks, setup, nr, raised>>

-----------------------------------------------------------------------------
(* Boot.                                                                    *)

\* boot.s: the boot loader hands over with interrupts off, the controllers are
\* where the BIOS had them; _start loads the segments and its own stack.
Init ==
  /\ cur = Main /\ pc = [t \in Thread |-> IF t = Main THEN "boot" ELSE "unborn"]
  /\ ring = 0 /\ interrupts = FALSE /\ cs = 8 /\ ss = 16
  /\ regs = Own(Main) /\ on_user = FALSE
  /\ stack = [t \in Thread |-> << >>] /\ rsp0 = [t \in Thread |-> 0]
  /\ tss_rsp0 = Nobody /\ nr = 0
  /\ io = PowerOn
  /\ idt = FALSE /\ msr = [cs |-> 0, cleared |-> {}] /\ step = 0
  /\ raised = << >>

\* The statements of kernel_main that matter here, in their order.
kernel_main == <<"PIC_init", "load_idt", "timer_init", "NMI_enable", "NMI_disable",
                 "set_ring0_msr", "create_tasks", "sti">>

\* set_ring0_msr: the upper half of IA32_STAR and the flags that syscall clears.
set_ring0_msr == [cs |-> 8, cleared |-> {"IF"}]

\* create_task: a new stack holds the flags 0x202 over task_start_up.
NewStack == <<Flags(TRUE)>>

BootStep ==
  /\ pc[Main] = "boot" /\ step' = step + 1
  /\ LET does(name) == kernel_main[step'] = name IN
       /\ io' = CASE does("PIC_init")    -> PIC_init(io)
                  [] does("timer_init")  -> timer_init(io)
                  [] does("NMI_enable")  -> NMI_enable(io)
                  [] does("NMI_disable") -> NMI_disable(io)
                  [] OTHER -> io
       /\ idt' = (idt \/ does("load_idt"))
       /\ msr' = IF does("set_ring0_msr") THEN set_ring0_msr ELSE msr
       /\ interrupts' = (interrupts \/ does("sti"))
       /\ pc' = [t \in Thread |->
                   IF t = Main THEN IF step' = Len(kernel_main) THEN "idle" ELSE "boot"
                   ELSE IF does("create_tasks") THEN "start" ELSE pc[t]]
       /\ stack' = IF does("create_tasks")
                   THEN [t \in Thread |-> IF t = Main THEN stack[t] ELSE NewStack] ELSE stack
       /\ rsp0' = [t \in Thread |-> Len(stack'[t])]
  /\ UNCHANGED <<cur, ring, cs, ss, regs, on_user, tss_rsp0, nr, raised>>

-----------------------------------------------------------------------------
(* Stacks, and the CPU's part of interrupts and returns (external).         *)

At(l) == pc[cur] = l
Goto(l) == pc' = [pc EXCEPT ![cur] = l]

\* Code of a thread outside the stubs, at which it may be interrupted.
OwnCode == {"idle", "kernel", "loading", "user"}

\* The machine runs away: no gate, no stack, no room, or a word that is not
\* what the code takes it for.
Wild == Goto("wild") /\ UNCHANGED <<cur, cpu, stacks, setup, nr, raised>>

Words == stack[cur]
Top(n) == Words[Len(Words) + 1 - n]
TopAre(kinds) ==
  /\ Len(Words) >= Len(kinds)
  /\ \A n \in DOMAIN kinds : Top(n).is = kinds[n]

\* The stack without its n upper words; the stack becomes words.
Less(n) == SubSeq(Words, 1, Len(Words) - n)
Stack(words) == stack' = [stack EXCEPT ![cur] = words]

Frame == [is |-> "frame", at |-> pc[cur], ring |-> ring, flag |-> interrupts, cs |-> cs, ss |-> ss]

\* The tables of stubs; four lines have none.
irq_stub_table == <<"irq_stub_0", "irq_stub_1", "none", "none", "none", "none", "irq_stub_6">>
isr_stub_table == [v \in 0..31 |-> IF v = 14 THEN "isr_stub_14" ELSE "isr_stub"]

\* An entry of the IDT; the three parts of the stub's address are one.
IDT_DESCRIPTOR_X32_INTERRUPT == 14
IDT_DESCRIPTOR_PRESENT       == 128
IDT_DESCRIPTOR_EXCEPTION     == IDT_DESCRIPTOR_X32_INTERRUPT + IDT_DESCRIPTOR_PRESENT
IDT_DESCRIPTOR_EXTERNAL      == IDT_DESCRIPTOR_X32_INTERRUPT + IDT_DESCRIPTOR_PRESENT

idt_set_descriptor(stub, flags) ==
  [isr |-> stub, kernel_cs |-> 8, ist |-> 0, attributes |-> flags]

IDT_CPU_EXCEPTION_COUNT == 32
IDT_IRQ_COUNT           == 7

\* The widths in bytes of the fields of an entry, and idtr.limit.
IDT_MAX_DESCRIPTORS == 256
idt_entry_t == [base_low |-> 2, kernel_cs |-> 2, ist |-> 1, attributes |-> 1,
                base_mid |-> 2, base_high |-> 4, reserved |-> 4]
sizeof_idt_entry ==
  LET e == idt_entry_t IN
  e.base_low + e.kernel_cs + e.ist + e.attributes + e.base_mid + e.base_high + e.reserved
idtr_limit == (sizeof_idt_entry * IDT_MAX_DESCRIPTORS - 1) % 65536

load_idt == [vector \in 0..(IDT_CPU_EXCEPTION_COUNT + IDT_IRQ_COUNT - 1) |->
  IF vector < IDT_CPU_EXCEPTION_COUNT
  THEN idt_set_descriptor(isr_stub_table[vector], IDT_DESCRIPTOR_EXCEPTION)
  ELSE idt_set_descriptor(irq_stub_table[vector - IDT_CPU_EXCEPTION_COUNT + 1],
                          IDT_DESCRIPTOR_EXTERNAL)]

\* The CPU takes a vector through its gate: its frame and more words go to the
\* stack in the TSS from ring 3, to the stack in use otherwise.
GateFound(vector) ==
  /\ idt /\ vector \in DOMAIN load_idt
  /\ sizeof_idt_entry = 16 /\ vector * 16 + 15 <= idtr_limit
  /\ Bit(load_idt[vector].attributes, IDT_DESCRIPTOR_PRESENT)
  /\ load_idt[vector].isr # "none" /\ load_idt[vector].ist = 0

Deliver(vector, more) ==
  LET gate  == load_idt[vector]
      words == (IF ring = 3 THEN << >> ELSE Words) \o <<Frame>> \o more IN
  IF /\ GateFound(vector) /\ Len(words) <= StackWords
     /\ IF ring = 3 THEN TssFound /\ tss_rsp0 = cur ELSE ~on_user
  THEN /\ Stack(words) /\ Goto(gate.isr)
       /\ cs' = gate.kernel_cs /\ ring' = Dpl(Descriptor(gate.kernel_cs))
       /\ interrupts' =
            (interrupts /\ gate.attributes % 16 # IDT_DESCRIPTOR_X32_INTERRUPT)
       /\ on_user' = FALSE /\ ss' = IF ring = 3 THEN 0 ELSE ss
       /\ regs' = Own(cur) /\ nr' = IF gate.isr = "isr_stub" THEN vector ELSE 0
       /\ UNCHANGED <<cur, rsp0, tss_rsp0, setup>>
  ELSE Goto("wild") /\ UNCHANGED <<cur, cpu, stacks, setup, nr>>

\* The CPU accepts the line of highest priority above those in service.
Interrupt ==
  /\ interrupts /\ io.pic1.expects = "mask" /\ io.pic1.irr # {}
  /\ LET l == Min(io.pic1.irr) IN
       /\ \A m \in io.pic1.isr : l < m
       /\ io' = [io EXCEPT !.pic1.irr = @ \ {l}, !.pic1.isr = @ \cup {l}]
       /\ Deliver(io.pic1.offset + l, << >>)
       /\ UNCHANGED raised

\* iretq with the frame under n words: the thread goes on where it was.
Iretq(n) ==
  LET f == Top(n + 1) IN
  /\ Stack(Less(n + 1)) /\ Goto(f.at)
  /\ ring' = f.ring /\ interrupts' = f.flag /\ cs' = f.cs /\ ss' = f.ss
  /\ on_user' = (f.ring = 3)
  /\ UNCHANGED <<cur, rsp0, tss_rsp0, setup, nr, raised>>

-----------------------------------------------------------------------------
(* irq.s and the handlers.                                                  *)

Pushed == [n \in 1..Len(push_all) |-> SavedReg(regs[push_all[n]])]
Popped == [r \in Reg |-> Top(CHOOSE n \in 1..Len(pop_all) : pop_all[n] = r).value]
RegsOnTop == [n \in 1..Len(pop_all) |-> "reg"]

\* push_all and the call of a handler up to its first point of interest.
PushAll(handler) ==
  IF Len(Words) + Len(push_all) > StackWords THEN Wild
  ELSE /\ Stack(Words \o Pushed) /\ Goto(handler) /\ regs' = Lose(regs, Clobbered)
       /\ UNCHANGED <<cur, ring, interrupts, cs, ss, on_user, rsp0, tss_rsp0,
                      setup, nr, raised>>

\* timer_handler acknowledges before it calls the hook, which may not return
\* here for long.
TimerHandler ==
  /\ At("irq_stub_0") /\ PushAll("task_hook")
  /\ io' = PIC_sendEOI(io, 0)

\* Mutant: a key that is released returns early.
KeyboardHandlerEarly ==
  /\ At("irq_stub_1") /\ PushAll("irq_end")
  /\ \E released \in BOOLEAN : io' = IF released THEN io ELSE PIC_sendEOI(io, 1)

\* keyboard_handler: both for a key pressed and for one released.
KeyboardHandler ==
  /\ At("irq_stub_1") /\ PushAll("irq_end")
  /\ io' = PIC_sendEOI(io, 1)

\* irq_stub_6 saves nothing.
FloppyHandler ==
  /\ At("irq_stub_6")
  /\ io' = PIC_sendEOI(io, 6)
  /\ IF TopAre(<<"frame">>)
     THEN Iretq(0) /\ regs' = Lose(regs, Clobbered)
     ELSE Wild

\* The end of irq_stub_0 and irq_stub_1.
IrqEnd ==
  /\ At("irq_end") /\ UNCHANGED io
  /\ IF TopAre(RegsOnTop \o <<"frame">>)
     THEN Iretq(Len(pop_all)) /\ regs' = Popped
     ELSE Wild

-----------------------------------------------------------------------------
(* isr.s.                                                                   *)

\* The exceptions for which the CPU pushes an error code, of those that this
\* machine raises.
PushesError == {8, 10, 11, 12, 13, 14, 17, 30}

\* Mutant: the alignment check counts as one without an error code.
isr_err_stub_few == {8, 10, 11, 12, 13, 30}

\* The stubs made by isr_err_stub.
isr_err_stub == {8, 10, 11, 12, 13, 17, 30}

\* Where code is, as exception_handler prints it.
Address == [idle |-> 4207, kernel |-> 5120, loading |-> 5136, user |-> 1048]
RFlags(f) == IF f THEN 514 ELSE 2

\* Own code of a thread raises an exception.
Raise ==
  /\ pc[cur] \in OwnCode
  /\ \E v \in Exceptions, e \in {0, 26} :
       /\ v \in PushesError \/ e = 0
       /\ raised' = <<v, e, Address[pc[cur]], cs, RFlags(interrupts)>>
       /\ Deliver(v, IF v \in PushesError THEN <<Number(e)>> ELSE << >>)
       /\ UNCHANGED io

\* What is printed goes to the screen and to the serial port.
printk(devices, format, args) == terminal_write(devices, vprintk_func(format, args))
panic(devices, format, args)  == printk(printk(devices, <<"[Error]">>, << >>), format, args)

\* What exception_handler and page_fault_handler print of their arguments; the
\* address that was touched, the stack pointer and the task are left out.
Field(name, conversion) == <<name, "=", "%", conversion>>
DumpFormat  == Field("vec", "u") \o Field("err", "x") \o Field("rip", "x")
                 \o Field("cs", "x") \o Field("rflags", "x")
FaultFormat == Field("err", "u") \o Field("rip", "x") \o Field("cs", "x")
                 \o Field("rflags", "x")

\* isr_stub_v, exception_common and exception_handler, which does not return.
\* What is not where the code looks for it prints as 0.
Exception ==
  /\ At("isr_stub")
  /\ LET v == nr
         under == IF v \in isr_err_stub THEN Words ELSE Words \o <<Number(0)>>
         err   == under[Len(under)]
         f     == under[Len(under) - 1]
         args  == IF err.is = "number" /\ Len(under) > 1 /\ f.is = "frame" /\ f.at \in OwnCode
                  THEN <<v, err.value, Address[f.at], f.cs, RFlags(f.flag)>>
                  ELSE <<v, 0, 0, 0, 0>>
     IN  /\ io' = printk(io, DumpFormat, args)
         /\ Stack(under \o <<Number(v)>>)
  /\ interrupts' = FALSE /\ Goto("halted") /\ regs' = Lose(regs, Reg)
  /\ UNCHANGED <<cur, ring, cs, ss, on_user, rsp0, tss_rsp0, setup, nr, raised>>

\* pagemanager.h: the bits of the error code of a page fault.
PF_PROT  == 1
PF_WRITE == 2
PF_USER  == 4

\* Code touches a page that is not there, or that it may not touch.
PageFault ==
  /\ pc[cur] \in OwnCode
  /\ \E prot \in {0, PF_PROT}, write \in {0, PF_WRITE} :
       LET e == prot + write + IF ring = 3 THEN PF_USER ELSE 0 IN
       /\ raised' = <<14, e, Address[pc[cur]], cs, RFlags(interrupts)>>
       /\ Deliver(14, <<Number(e)>>)
  /\ UNCHANGED io

\* page_fault_handler maps a page for user code that found none.
Mappable(error_code) ==
  ~Bit(error_code, PF_PROT) /\ Bit(error_code, PF_USER) /\ error_code \div 8 = 0

\* isr_stub_14 loads the arguments before it saves the registers.  Unless it
\* maps the page, which the address may forbid, page_fault_handler panics, and
\* waits for ever with interrupts off.
PageFaultHandler ==
  /\ At("isr_stub_14")
  /\ IF Len(Words) + Len(push_all) > StackWords \/ ~TopAre(<<"number", "frame">>)
     THEN Wild /\ UNCHANGED io
     ELSE LET args == Lose(regs, {"rdi", "rsi"})
              saved == [n \in 1..Len(push_all) |-> SavedReg(args[push_all[n]])]
              error_code == Top(1).value
              f == Top(2) IN
          /\ Stack(Words \o saved)
          /\ \/ /\ Mappable(error_code)
                /\ Goto("fault_end") /\ raised' = << >> /\ UNCHANGED io
             \/ /\ Mappable(error_code)
                /\ Goto("halted") /\ UNCHANGED raised
                /\ io' = panic(io, <<"Invalid">>, << >>)
             \/ /\ ~Mappable(error_code)
                /\ Goto("halted") /\ UNCHANGED raised
                /\ io' = panic(printk(io, FaultFormat,
                                  <<error_code, Address[f.at], f.cs, RFlags(f.flag)>>),
                               <<"Unknown">>, << >>)
          /\ regs' = Lose(args, Clobbered)
          /\ UNCHANGED <<cur, ring, interrupts, cs, ss, on_user, rsp0, tss_rsp0, setup, nr>>

FaultEnd ==
  /\ At("fault_end") /\ UNCHANGED io
  /\ IF TopAre(RegsOnTop \o <<"number", "frame">>)
     THEN Iretq(Len(pop_all) + 1) /\ regs' = Popped
     ELSE Wild

-----------------------------------------------------------------------------
(* switch.s, task_start_up, and the calls of the scheduler.                 *)

\* The threads that the scheduler may pick.  Main, the idle task, is picked only
\* if no other is ready, which Looper is.
Runnable == {t \in Thread \ {cur, Main} : pc[t] \in {"start", "irq_end", "asleep"}}

\* switch_to_task from a thread that will go on at label l: the flags are saved
\* on its stack, those of the next popped.  A thread that resumes in schedule
\* names its stack in the TSS, a new one starts in task_start_up; that and
\* nano_sleep_until end with sti.
SwitchTo(next, l) ==
  LET mine   == Append(Words, Flags(interrupts))
      theirs == SubSeq(stack[next], 1, rsp0[next]) IN
  IF Len(mine) > StackWords \/ Last(theirs).is # "flags" THEN Wild
  ELSE /\ cur' = next
       /\ pc' = [pc EXCEPT ![cur] = l,
                           ![next] = CASE @ = "start"  -> "kernel"
                                       [] @ = "asleep" -> "loading"
                                       [] OTHER        -> @]
       /\ stack' = [stack EXCEPT ![cur] = mine, ![next] = Front(theirs)]
       /\ rsp0' = [rsp0 EXCEPT ![cur] = Len(mine)]
       /\ tss_rsp0' = IF pc[next] = "start" THEN tss_rsp0 ELSE next
       /\ interrupts' = (Last(theirs).value \/ pc[next] # "irq_end")
       /\ UNCHANGED <<ring, cs, ss, regs, on_user, setup, nr, raised>>

\* task_hook_in_timer_handler: the slice is used up or not.
TimerHook ==
  /\ At("task_hook") /\ UNCHANGED io
  /\ \/ \E next \in Runnable : SwitchTo(next, "irq_end")
     \/ Goto("irq_end") /\ UNCHANGED <<cur, cpu, stacks, setup, nr, raised>>

\* test_elf sleeps before it loads a program.
Sleep ==
  /\ At("kernel") /\ cur \in Loader /\ UNCHANGED io
  /\ \E next \in Runnable : SwitchTo(next, "asleep")

-----------------------------------------------------------------------------
(* Ring 3 and system calls.                                                 *)

\* sysretq: the segments come from IA32_STAR[63:48], where get_to_ring3 has
\* written 0x18.
Sysretq(flag) ==
  /\ ring' = 3 /\ cs' = 24 + 16 + 3 /\ ss' = 24 + 8 + 3
  /\ interrupts' = flag /\ on_user' = TRUE /\ Goto("user")

\* get_to_ring3, when the program is loaded.
GetToRing3 ==
  /\ At("loading")
  /\ rsp0' = [rsp0 EXCEPT ![cur] = Len(Words)]
  /\ Sysretq(TRUE) /\ regs' = Lose(regs, Reg)
  /\ UNCHANGED <<cur, stack, tss_rsp0, io, setup, nr, raised>>

\* The table of system calls, and the entries that libc has a function for.
syscalls == <<"sys_read", "sys_write", "sys_get_task_id", "sys_get_rsp0", "sys_putchar",
              "sys_exit", "sys_exec", "sys_getchar", "sys_fork">>
LibcCalls == 0..5 \cup {7}

\* libc_do_syscall up to the instruction syscall.
Syscall ==
  /\ At("user") /\ Goto("do_syscall") /\ nr' \in LibcCalls
  /\ ring' = 0 /\ cs' = msr.cs /\ ss' = msr.cs + 8
  /\ interrupts' = (interrupts /\ "IF" \notin msr.cleared)
  /\ regs' = Lose(Own(cur), Clobbered)
  /\ UNCHANGED <<cur, on_user, stacks, io, setup, raised>>

\* do_syscall goes to the kernel stack at rsp0, whatever was left there, and
\* saves the user's flags and address; it uses rbx and r12.
DoSyscall ==
  /\ At("do_syscall") /\ UNCHANGED io
  /\ LET words == [n \in 1..rsp0[cur] |-> IF n <= Len(Words) THEN Words[n] ELSE Stale]
                  \o <<Flags(TRUE), Number(Address.user)>> IN
     IF Len(words) > StackWords THEN Wild
     ELSE /\ Stack(words) /\ Goto("service") /\ on_user' = FALSE
          /\ regs' = Lose(regs, {"rbx", "r12"})
          /\ UNCHANGED <<cur, ring, interrupts, cs, ss, rsp0, tss_rsp0, setup, nr, raised>>

\* What programs print is not followed further than the port.
Unheard(devices) == [devices EXCEPT !.uart.received = << >>]

\* What the services do is modelled elsewhere; sys_exit does not return.
Service ==
  /\ At("service")
  /\ io' = IF syscalls[nr + 1] = "sys_putchar" THEN Unheard(terminal_write(io, <<"c">>)) ELSE io
  /\ IF syscalls[nr + 1] = "sys_exit"
     THEN \E next \in Runnable : SwitchTo(next, "dead")
     ELSE /\ Goto("sysret") /\ regs' = Lose(regs, Clobbered)
          /\ UNCHANGED <<cur, ring, interrupts, cs, ss, on_user, stacks, setup, nr, raised>>

\* Mutant: the two words are left on the stack.
SysReturnLeaves ==
  /\ At("sysret") /\ UNCHANGED io
  /\ IF TopAre(<<"number", "flags">>)
     THEN /\ rsp0' = [rsp0 EXCEPT ![cur] = Len(Words)]
          /\ Sysretq(Top(2).value) /\ nr' = 0
          /\ UNCHANGED <<cur, regs, stack, tss_rsp0, setup, raised>>
     ELSE Wild

\* The end of do_syscall, from the return of the service on: the interrupt flag
\* is off before the user's stack is loaded.
SysReturn ==
  /\ At("sysret") /\ UNCHANGED io
  /\ IF TopAre(<<"number", "flags">>)
     THEN /\ Stack(Less(2)) /\ rsp0' = [rsp0 EXCEPT ![cur] = Len(Words) - 2]
          /\ Sysretq(Top(2).value) /\ nr' = 0
          /\ UNCHANGED <<cur, regs, tss_rsp0, setup, raised>>
     ELSE Wild

Next ==
  \/ DeviceRaises \/ BootStep \/ Interrupt
  \/ TimerHandler \/ TimerHook \/ KeyboardHandler \/ FloppyHandler \/ IrqEnd
  \/ Raise \/ Exception \/ PageFault \/ PageFaultHandler \/ FaultEnd
  \/ Sleep \/ GetToRing3 \/ Syscall \/ DoSyscall \/ Service \/ SysReturn

Spec == Init /\ [][Next]_vars

-----------------------------------------------------------------------------
(* Properties.                                                              *)

\* boot.s, idt.c, cpu.s, switch.s, do_syscall.s: whatever comes in which order,
\* every vector finds its gate and its stack, every frame, register and flag is
\* popped by the code and the thread that it was pushed for, no kernel stack
\* grows over time, the segments fit the ring, a tick is a millisecond and the
\* vector that nothing masks does not come.
OnTrack ==
  /\ pc[cur] # "wild"
  /\ IsCode(Descriptor(cs)) /\ Dpl(Descriptor(cs)) = ring
  /\ pc[Main] # "boot" => TicksAreMilliseconds(io) /\ NmiMasked(io)
  /\ ss # 0 => IsData(Descriptor(ss))
  /\ ring = 3 => ss # 0 /\ Dpl(Descriptor(ss)) = 3

\* timer.c, keyboard.c, floppy.c: while interrupts are on, no line is in
\* service, so that none of them shuts out those below it, although the timer's
\* handler may be left for another thread and be resumed much later.
NoneInServiceWhenEnabled == interrupts => io.pic1.isr = {}

\* Which registers a thread may find changed when it goes on after the code at a
\* label: what isr_stub_14 loads before it saves, and what irq_stub_6 and
\* do_syscall do not save.
Lost == [irq_end |-> {}, fault_end |-> {"rdi", "rsi"}, irq_stub_6 |-> Clobbered,
         sysret |-> Clobbered \cup {"rbx", "r12"}]

Resumes == pc[cur] \in DOMAIN Lost /\ pc'[cur] \in OwnCode

\* cpu.inc, irq.s, isr.s, do_syscall.s: the other registers of the code that was
\* interrupted are what they were, although other threads ran meanwhile.
RegistersKept ==
  [][Resumes => \A r \in Reg \ Lost[pc[cur]] : regs'[r] = <<cur, r>>]_vars

\* cpu.h 17: registers that a C function may destroy are always saved on kernel
\* entry; here for entries that the interrupted code does not ask for.
ClobberedAreSaved ==
  [][Resumes /\ ~At("sysret") => \A r \in Clobbered : regs'[r] = <<cur, r>>]_vars

\* The number that a dump shows after a name.
Shown(name, base) ==
  LET from == CHOOSE i \in DOMAIN dump : dump[i] = name
      end  == Min({i \in from + 2..Len(dump) : dump[i] \notin Numerals} \cup {Len(dump) + 1})
  IN  Value(SubSeq(dump, from + 2, end - 1), base)

\* What was printed tells the exception e.
Tells(e) ==
  IF e[1] = 14
  THEN /\ ToSet(dump) \cap {"Invalid", "Unknown"} # {} /\ "[Error]" \in ToSet(dump)
       /\ "Unknown" \in ToSet(dump) <=> ~(e[4] % 4 = 3 /\ ~Bit(e[2], PF_PROT))
       /\ "Unknown" \in ToSet(dump) =>
            <<14, Shown("err", 10), Shown("rip", 16), Shown("cs", 16), Shown("rflags", 16)>> = e
  ELSE <<Shown("vec", 10), Shown("err", 16), Shown("rip", 16), Shown("cs", 16),
         Shown("rflags", 16)>> = e

\* isr.s, idt.c, pagemanager.c, printf.c, tty.c: what comes out of the serial port
\* when the machine halts is the vector that the CPU raised, its error code if it
\* has one, and where and how the code ran that raised it; it halts for no
\* interrupt, for no page that user code finds missing unless it gives another
\* reason, and never in silence.
DumpTellsException ==
  /\ dump # << >> <=> At("halted")
  /\ dump # << >> => raised # << >> /\ Tells(raised)

\* printf.c: a format of several pieces prints what each piece means, one after
\* the other, and nothing else: no digit is lost or turned round, no % taken
\* for another, and each directive takes its own argument.  It does not depend
\* on the state and is evaluated in one.
PiecesPrinted == step = 0 /\ io.pic1.irr = {} => \A p, q, r \in Piece : PrintedInPieces(p, q, r)
=============================================================================
