--------------------------- MODULE InterruptsProofs ---------------------------
(***************************************************************************)
(* Theorems about Interrupts, for any loaders, exceptions, stack size from *)
(* 20 words on and address of the TSS: with interrupts, exceptions and     *)
(* system calls in any order the machine never runs away, no line is in    *)
(* service while interrupts are on, interrupted code finds its registers   *)
(* as they were, and a machine that halts tells the exception.             *)
(*                                                                         *)
(* MachineInv is the inductive invariant.  It says of every thread which   *)
(* words are on its kernel stack at the place where it is or waits, and    *)
(* that the registers among them are its own: a kernel stack that is left  *)
(* in the middle of a handler is only understood by what was pushed when   *)
(* the handler was entered.                                                *)
(*                                                                         *)
(* DumpInv is the one for what comes out of the serial port: the stubs of  *)
(* isr.s find on their stack what the CPU raised, and the formats of the   *)
(* handlers print these words.  Its lemmas are about printf.c and tty.c,   *)
(* for any base, alphabet and arguments that fit a long.                   *)
(* They also give what any format of three pieces prints.                  *)
(***************************************************************************)
EXTENDS Interrupts, NumberProofs, SequenceTheorems

\* Where a thread is: by an entry's stub, in the kernel, or waiting.
InStub   == {"irq_stub_0", "irq_stub_1", "irq_stub_6", "isr_stub_14"}
Entered  == InStub \cup {"task_hook", "irq_end", "fault_end"}
InCall   == {"service", "sysret"}
InKernel == Entered \cup InCall \cup {"boot", "isr_stub", "halted", "do_syscall"}
Waiting  == {"unborn", "start", "asleep", "irq_end", "dead"}

\* What may be on a stack; a saved register holds anything.
Content == (Thread \cup {Nobody}) \X Reg
Word ==
  [is : {"reg"}, value : Content]
  \cup [is : {"number"}, value : Nat] \cup [is : {"flags"}, value : BOOLEAN]
  \cup [is : {"stale"}]
  \cup [is : {"frame"}, at : OwnCode, ring : {0, 3}, flag : BOOLEAN, cs : {8, 43},
        ss : {0, 16, 35}]

TypeInv ==
  /\ cur \in Thread /\ pc \in [Thread -> OwnCode \cup InKernel \cup Waiting]
  /\ stack \in [Thread -> Seq(Word)] /\ rsp0 \in [Thread -> Nat] /\ nr \in Nat

\* The state in which own code runs, as a frame.
OwnFrame(f) ==
  /\ f \in Word /\ f.is = "frame" /\ f.at \in OwnCode /\ f.flag = TRUE
  /\ IF f.at = "user" THEN f.ring = 3 /\ f.cs = 43 /\ f.ss = 35
                      ELSE f.ring = 0 /\ f.cs = 8 /\ f.ss \in {0, 16}

\* The words above the first n are the registers rs, in push_all's order.
HoldsRegs(words, n, rs) ==
  /\ Len(words) >= n + Len(push_all)
  /\ \A i \in 1..Len(push_all) : words[n + i] = SavedReg(rs[push_all[i]])

\* The kernel stack of a user thread never holds more than what task_hook left
\* on it, all of which is garbage once user code runs.
DeepestUser == 17

\* task.c: a thread that was left in task_hook has its frame, its registers and
\* the flags of switch_to_task on its stack.
Preempted(t) ==
  /\ Len(stack[t]) = 17 /\ rsp0[t] = 17
  /\ OwnFrame(stack[t][1]) /\ HoldsRegs(stack[t], 1, Own(t))
  /\ stack[t][17] = Flags(FALSE)

\* The threads that wait.
WaitOK == \A t \in Thread \ {cur} :
  /\ pc[t] \in Waiting
  /\ pc[t] = "unborn" => stack[t] = << >>
  /\ pc[t] \in {"start", "asleep"} => stack[t] = <<Flags(TRUE)>> /\ rsp0[t] = 1
  /\ pc[t] = "irq_end" => Preempted(t)

\* The thread that runs: in its own code,
OwnStackFor(l) == l \in {"loading", "user"} => tss_rsp0 = cur

OwnOK == pc[cur] \in OwnCode =>
  /\ OwnFrame(Frame) /\ on_user = (ring = 3) /\ OwnStackFor(pc[cur])
  /\ IF pc[cur] = "user" THEN Len(Words) <= DeepestUser ELSE Words = << >>

\* in the kernel,
KernelOK == pc[cur] \in InKernel =>
  /\ ring = 0 /\ cs = 8 /\ ss \in {0, 16} /\ interrupts = FALSE
  /\ pc[cur] = "boot" => cur = Main /\ Words = << >> /\ on_user = FALSE

\* on the way in from an interrupt and back,
Depth == [irq_stub_0 |-> 1, irq_stub_1 |-> 1, irq_stub_6 |-> 1, isr_stub_14 |-> 2,
          task_hook |-> 16, irq_end |-> 16, fault_end |-> 17]

EnteredOK == pc[cur] \in Entered =>
  /\ OwnFrame(Words[1]) /\ OwnStackFor(Words[1].at) /\ on_user = FALSE
  /\ Len(Words) = Depth[pc[cur]]
  /\ pc[cur] \in InStub => regs = Own(cur)
  /\ pc[cur] \in {"isr_stub_14", "fault_end"} => Words[2].is = "number"
  /\ pc[cur] \in {"task_hook", "irq_end"} => HoldsRegs(Words, 1, Own(cur))
  /\ pc[cur] = "fault_end" => HoldsRegs(Words, 2, Lose(Own(cur), {"rdi", "rsi"}))

\* in a system call.
CallOK ==
  /\ pc[cur] = "do_syscall" => Len(Words) <= DeepestUser /\ tss_rsp0 = cur
                               /\ regs = Lose(Own(cur), Clobbered)
  /\ pc[cur] \in InCall =>
       /\ Len(Words) = rsp0[cur] + 2 /\ on_user = FALSE /\ tss_rsp0 = cur
       /\ Words[Len(Words)].is = "number" /\ Words[Len(Words) - 1] = Flags(TRUE)
       /\ \A r \in Reg \ Lost["sysret"] : regs[r] = <<cur, r>>

RunOK ==
  /\ pc[cur] \in OwnCode \cup InKernel /\ rsp0[cur] <= DeepestUser
  /\ OwnOK /\ KernelOK /\ EnteredOK /\ CallOK

\* The devices: a line is in service from the interrupt to the handler's call.
ServedAt(l) == CASE l = "irq_stub_0" -> {0} [] l = "irq_stub_1" -> {1}
                 [] l = "irq_stub_6" -> {6} [] OTHER -> {}

Chip == [offset : Nat, expects : {"mask", "offset", "cascade", "mode"},
         irr : SUBSET Device, isr : SUBSET Device]
Pit == [access : Nat, expects : {"low", "high"}, reload : Nat]

IsDevices(d) == \E u, ready :
  d \in [pic1 : Chip, pic2 : Chip, pit : Pit, cmos : Nat, uart : {u}, serial_ready : {ready}]

DevicesOK == IsDevices(io) /\ io.pic1.expects = "mask" /\ io.pic1.isr = ServedAt(pc[cur])

\* What kernel_main has done.
BootOK ==
  /\ step \in 0..8 /\ (pc[Main] = "boot" <=> step < 8)
  /\ pc[Main] = "boot" => \A t \in Thread \ {Main} : pc[t] \in {"unborn", "start"}
  /\ step >= 1 => io.pic1.offset = 32
  /\ step >= 2 => idt = TRUE
  /\ step >= 3 => TicksAreMilliseconds(io)
  /\ step >= 5 => NmiMasked(io)
  /\ step >= 6 => msr = set_ring0_msr

MachineInv == TypeInv /\ WaitOK /\ RunOK /\ DevicesOK /\ BootOK

-----------------------------------------------------------------------------
(* Tables.                                                                  *)

\* boot.s: the descriptors that the kernel's and the user's selectors name.
LEMMA Descriptors ==
  /\ IsCode(Descriptor(8))  /\ Dpl(Descriptor(8)) = 0
  /\ IsData(Descriptor(16))
  /\ IsCode(Descriptor(43)) /\ Dpl(Descriptor(43)) = 3
  /\ IsData(Descriptor(35)) /\ Dpl(Descriptor(35)) = 3
<1>1. Descriptor(8) = [access |-> 154, flags |-> 160]
  BY DEF Descriptor, Gdt, Segment, PRESENT, NOT_SYS, EXEC, RW, GRAN_4K, LONG_MODE
<1>2. Descriptor(16) = [access |-> 146, flags |-> 192]
  BY DEF Descriptor, Gdt, Segment, PRESENT, NOT_SYS, RW, GRAN_4K, SZ_32
<1>3. Descriptor(43) = [access |-> 250, flags |-> 160]
  BY DEF Descriptor, Gdt, Segment, PRESENT, DPL_LOW, NOT_SYS, EXEC, RW, GRAN_4K, LONG_MODE
<1>4. Descriptor(35) = [access |-> 242, flags |-> 160]
  BY DEF Descriptor, Gdt, Segment, PRESENT, DPL_LOW, NOT_SYS, RW, GRAN_4K, LONG_MODE
<1> USE DEF IsCode, IsData, IsSegment, Dpl, Bit, PRESENT, NOT_SYS, EXEC, RW, LONG_MODE
<1>5. IsCode(Descriptor(8)) /\ Dpl(Descriptor(8)) = 0
  BY <1>1
<1>6. IsData(Descriptor(16))
  BY <1>2
<1>7. IsCode(Descriptor(43)) /\ Dpl(Descriptor(43)) = 3
  BY <1>3
<1>8. IsData(Descriptor(35)) /\ Dpl(Descriptor(35)) = 3
  BY <1>4
<1> QED BY <1>5, <1>6, <1>7, <1>8

\* boot.s: the CPU finds the TSS where it is.
LEMMA TssIsFound == TssFound
<1>1. tss_entry \in Nat
  BY InterruptsAssumption DEF InterruptsAssumption
<1>2. PICK h : h = tss_entry \div 65536
  OBVIOUS
<1>3. PICK l : l = tss_entry % 65536
  OBVIOUS
<1>4. h * 65536 + l = tss_entry
  BY <1>1, <1>2, <1>3
<1>5. h \in Nat
  BY <1>1, <1>2
<1>8. (h \div 256) * 256 + (h % 256) = h
  BY <1>5
<1>6. set_tss.base_3 = h \div 256 /\ set_tss.base_2 = h % 256 /\ set_tss.base_1 = l
  BY <1>2, <1>3 DEF set_tss
<1>7. set_tss.limit_2 = 0 /\ set_tss.limit_1 = 104
  BY DEF set_tss, tss_size
<1> QED BY <1>4, <1>6, <1>7, <1>8 DEF TssFound

\* The gates of the vectors that come.
Vectors == Exceptions \cup {14, 32, 33, 38}

StubOf(v) == CASE v = 14 -> "isr_stub_14" [] v = 32 -> "irq_stub_0" [] v = 33 -> "irq_stub_1"
               [] v = 38 -> "irq_stub_6" [] OTHER -> "isr_stub"

LEMMA Gates ==
  ASSUME idt = TRUE, NEW v \in Vectors
  PROVE  /\ GateFound(v)
         /\ load_idt[v].isr = StubOf(v) /\ load_idt[v].kernel_cs = 8
         /\ load_idt[v].attributes % 16 = IDT_DESCRIPTOR_X32_INTERRUPT
<1>1. v \in 0..38 /\ v \in (0..31) \cup {32, 33, 38}
  BY InterruptsAssumption DEF InterruptsAssumption, Vectors
<1>2. sizeof_idt_entry = 16 /\ idtr_limit = 4095
  BY DEF sizeof_idt_entry, idt_entry_t, idtr_limit, IDT_MAX_DESCRIPTORS
<1>3. v \in DOMAIN load_idt
  BY <1>1 DEF load_idt, IDT_CPU_EXCEPTION_COUNT, IDT_IRQ_COUNT
<1>4. /\ load_idt[v].isr = StubOf(v) /\ load_idt[v].kernel_cs = 8
      /\ load_idt[v].ist = 0 /\ load_idt[v].attributes = 142
  BY <1>1 DEF load_idt, IDT_CPU_EXCEPTION_COUNT, IDT_IRQ_COUNT, idt_set_descriptor,
    isr_stub_table, irq_stub_table, StubOf, IDT_DESCRIPTOR_EXCEPTION, IDT_DESCRIPTOR_EXTERNAL,
    IDT_DESCRIPTOR_X32_INTERRUPT, IDT_DESCRIPTOR_PRESENT
<1>5. StubOf(v) # "none"
  BY DEF StubOf
<1> QED BY <1>1, <1>2, <1>3, <1>4, <1>5 DEF GateFound, Bit,
    IDT_DESCRIPTOR_X32_INTERRUPT, IDT_DESCRIPTOR_PRESENT

-----------------------------------------------------------------------------
(* Devices.                                                                 *)

\* Everything but the first controller is what it was; or the timer; or the
\* CMOS; or the serial port.
OnlyPic1(d, e) == IsDevices(e) /\ e.pit = d.pit /\ e.cmos = d.cmos
OnlyPit(d, e)  == IsDevices(e) /\ e.pic1 = d.pic1 /\ e.cmos = d.cmos
OnlyCmos(d, e) == IsDevices(e) /\ e.pic1 = d.pic1 /\ e.pit = d.pit
OnlyUart(d, e) == IsDevices(e) /\ e.pic1 = d.pic1 /\ e.pit = d.pit /\ e.cmos = d.cmos

LEMMA Fields ==
  ASSUME NEW d, IsDevices(d)
  PROVE  d.pic1 \in Chip /\ d.pic2 \in Chip /\ d.pit \in Pit /\ d.cmos \in Nat
BY DEF IsDevices

\* One device changes.
LEMMA Pic1Changes ==
  ASSUME NEW d, IsDevices(d), NEW chip \in Chip
  PROVE  OnlyPic1(d, [d EXCEPT !.pic1 = chip]) /\ [d EXCEPT !.pic1 = chip].pic1 = chip
         /\ [d EXCEPT !.pic1 = chip].pic2 = d.pic2
BY DEF IsDevices, OnlyPic1

LEMMA Pic2Changes ==
  ASSUME NEW d, IsDevices(d), NEW chip \in Chip
  PROVE  OnlyPic1(d, [d EXCEPT !.pic2 = chip]) /\ [d EXCEPT !.pic2 = chip].pic1 = d.pic1
BY DEF IsDevices, OnlyPic1

LEMMA PitChanges ==
  ASSUME NEW d, IsDevices(d), NEW pit \in Pit
  PROVE  OnlyPit(d, [d EXCEPT !.pit = pit]) /\ [d EXCEPT !.pit = pit].pit = pit
BY DEF IsDevices, OnlyPit

LEMMA CmosChanges ==
  ASSUME NEW d, IsDevices(d), NEW n \in Nat
  PROVE  OnlyCmos(d, [d EXCEPT !.cmos = n]) /\ [d EXCEPT !.cmos = n].cmos = n
BY DEF IsDevices, OnlyCmos

LEMMA UartChanges ==
  ASSUME NEW d, IsDevices(d), NEW u, NEW r,
         NEW e, e = [d EXCEPT !.uart = u, !.serial_ready = r]
  PROVE  OnlyUart(d, e)
BY DEF IsDevices, OnlyUart

\* A word that is written to a controller leaves a controller.
LEMMA ChipStays ==
  ASSUME NEW chip \in Chip, NEW register \in {0, 1}, NEW val \in Nat,
         register = 0 => val \in {PIC_EOI, ICW1_INIT + ICW1_ICW4}
  PROVE  PicWritten(chip, register, val) \in Chip
<1>1. CASE register = 0 /\ val = ICW1_INIT + ICW1_ICW4
  BY <1>1 DEF PicWritten, Chip
<1>2. CASE register = 0 /\ val = PIC_EOI
  <2>1. PicWritten(chip, register, val) =
          [chip EXCEPT !.isr = chip.isr \ (IF chip.isr = {} THEN {} ELSE {Min(chip.isr)})]
    BY <1>2 DEF PicWritten, PIC_EOI, ICW1_INIT, ICW1_ICW4
  <2> QED BY <2>1 DEF Chip
<1>3. CASE register = 1
  BY <1>3 DEF PicWritten, Chip
<1> QED BY <1>1, <1>2, <1>3

\* The words of an initialisation one after the other.
LEMMA InitWords ==
  ASSUME NEW chip \in Chip, NEW val \in Nat
  PROVE  /\ LET e == PicWritten(chip, 0, ICW1_INIT + ICW1_ICW4)
            IN  e.expects = "offset" /\ e.isr = {}
         /\ chip.expects = "offset" =>
              LET e == PicWritten(chip, 1, val)
              IN  e.offset = val /\ e.expects = "cascade" /\ e.isr = chip.isr
         /\ chip.expects = "cascade" =>
              LET e == PicWritten(chip, 1, val)
              IN  e.offset = chip.offset /\ e.expects = "mode" /\ e.isr = chip.isr
         /\ chip.expects = "mode" =>
              LET e == PicWritten(chip, 1, val)
              IN  e.offset = chip.offset /\ e.expects = "mask" /\ e.isr = chip.isr
         /\ chip.expects = "mask" => PicWritten(chip, 1, val) = chip
<1>1. PicWritten(chip, 0, ICW1_INIT + ICW1_ICW4) =
        [chip EXCEPT !.expects = "offset", !.irr = {}, !.isr = {}]
  BY DEF PicWritten, ICW1_INIT, ICW1_ICW4, PIC_EOI
<1>2. chip.expects = "offset" =>
        PicWritten(chip, 1, val) = [chip EXCEPT !.offset = val, !.expects = "cascade"]
  BY DEF PicWritten
<1>3. /\ chip.expects = "cascade" => PicWritten(chip, 1, val) = [chip EXCEPT !.expects = "mode"]
      /\ chip.expects = "mode" => PicWritten(chip, 1, val) = [chip EXCEPT !.expects = "mask"]
      /\ chip.expects = "mask" => PicWritten(chip, 1, val) = chip
  BY DEF PicWritten
<1> HIDE DEF PicWritten
<1>4. LET e == PicWritten(chip, 0, ICW1_INIT + ICW1_ICW4) IN e.expects = "offset" /\ e.isr = {}
  BY <1>1 DEF Chip
<1>5. chip.expects = "offset" =>
        LET e == PicWritten(chip, 1, val)
        IN  e.offset = val /\ e.expects = "cascade" /\ e.isr = chip.isr
  BY <1>2 DEF Chip
<1> QED BY <1>3, <1>4, <1>5 DEF Chip

\* io.c: what is written to the ports of the controllers reaches them, and
\* port 128 reaches nobody.
LEMMA PicPorts ==
  ASSUME NEW d, IsDevices(d), NEW val
  PROVE  /\ outb(d, PIC1_COMMAND, val) = [d EXCEPT !.pic1 = PicWritten(d.pic1, 0, val)]
         /\ outb(d, PIC1_DATA, val) = [d EXCEPT !.pic1 = PicWritten(d.pic1, 1, val)]
         /\ outb(d, PIC2_COMMAND, val) = [d EXCEPT !.pic2 = PicWritten(d.pic2, 0, val)]
         /\ outb(d, PIC2_DATA, val) = [d EXCEPT !.pic2 = PicWritten(d.pic2, 1, val)]
         /\ io_wait(d) = d
<1> USE DEF PIC1_COMMAND, PIC1_DATA, PIC1, PIC2_COMMAND, PIC2_DATA, PIC2, COM1
<1>1. outb(d, PIC1_COMMAND, val) = [d EXCEPT !.pic1 = PicWritten(d.pic1, 0, val)]
  BY DEF outb
<1>2. outb(d, PIC1_DATA, val) = [d EXCEPT !.pic1 = PicWritten(d.pic1, 1, val)]
  BY DEF outb
<1>3. outb(d, PIC2_COMMAND, val) = [d EXCEPT !.pic2 = PicWritten(d.pic2, 0, val)]
  BY DEF outb
<1>4. outb(d, PIC2_DATA, val) = [d EXCEPT !.pic2 = PicWritten(d.pic2, 1, val)]
  BY DEF outb
<1>5. io_wait(d) = d
  BY DEF outb, io_wait
<1> QED BY <1>1, <1>2, <1>3, <1>4, <1>5

\* pic.c: a word written to the ports of both controllers.
LEMMA BothWritten ==
  ASSUME NEW d, IsDevices(d), NEW register \in {0, 1}, NEW v1 \in Nat, NEW v2 \in Nat,
         register = 0 => v1 = ICW1_INIT + ICW1_ICW4 /\ v2 = ICW1_INIT + ICW1_ICW4,
         NEW p1, p1 = (PIC1 + register),
         NEW p2, p2 = (PIC2 + register)
  PROVE  /\ OnlyPic1(d, Both(d, p1, v1, p2, v2))
         /\ Both(d, p1, v1, p2, v2).pic1 = PicWritten(d.pic1, register, v1)
<1> DEFINE c == PicWritten(d.pic1, register, v1)
           e == [d EXCEPT !.pic1 = c]
           f == [e EXCEPT !.pic2 = PicWritten(e.pic2, register, v2)]
<1> USE DEF PIC1_COMMAND, PIC1_DATA, PIC2_COMMAND, PIC2_DATA, PIC1, PIC2
<1>3. outb(d, p1, v1) = e
  BY PicPorts
<1>5. ASSUME IsDevices(e)
      PROVE  outb(e, p2, v2) = f
  <2> HIDE DEF e
  <2> QED BY <1>5, PicPorts
<1>1. c \in Chip
  BY ChipStays, Fields
<1> HIDE DEF c
<1>2. OnlyPic1(d, e) /\ e.pic1 = c
  BY <1>1, Pic1Changes
<1> HIDE DEF e
<1>4. OnlyPic1(e, f) /\ f.pic1 = e.pic1
  <2>1. PicWritten(e.pic2, register, v2) \in Chip
    BY <1>2, ChipStays, Fields DEF OnlyPic1
  <2> QED BY <1>2, <2>1, Pic2Changes DEF OnlyPic1
<1> HIDE DEF f
<1>6. io_wait(e) = e /\ io_wait(f) = f
  BY <1>2, <1>4, PicPorts DEF OnlyPic1
<1>7. Both(d, p1, v1, p2, v2) = f
  BY <1>2, <1>3, <1>5, <1>6 DEF Both, OnlyPic1
<1> QED BY <1>2, <1>4, <1>7 DEF OnlyPic1, c

LEMMA BothCommands ==
  ASSUME NEW d, IsDevices(d)
  PROVE  LET e == Both(d, PIC1_COMMAND, ICW1_INIT + ICW1_ICW4,
                          PIC2_COMMAND, ICW1_INIT + ICW1_ICW4)
         IN  OnlyPic1(d, e) /\ e.pic1 = PicWritten(d.pic1, 0, ICW1_INIT + ICW1_ICW4)
<1>1. PIC1_COMMAND = PIC1 + 0 /\ PIC2_COMMAND = PIC2 + 0
  BY DEF PIC1_COMMAND, PIC2_COMMAND, PIC1, PIC2
<1>2. ICW1_INIT + ICW1_ICW4 \in Nat
  BY DEF ICW1_INIT, ICW1_ICW4
<1> QED BY <1>1, <1>2, BothWritten

LEMMA BothData ==
  ASSUME NEW d, IsDevices(d), NEW v1 \in Nat, NEW v2 \in Nat,
         NEW e, e = Both(d, PIC1_DATA, v1, PIC2_DATA, v2)
  PROVE  OnlyPic1(d, e) /\ e.pic1 = PicWritten(d.pic1, 1, v1)
<1>1. PIC1_DATA = PIC1 + 1 /\ PIC2_DATA = PIC2 + 1
  BY DEF PIC1_DATA, PIC2_DATA
<1> QED BY <1>1, BothWritten

\* pic.c: the offset, the cascade, the mode and the mask, after which the
\* vectors of the first controller start at 32 and no line is in service.
LEMMA PicIsSet ==
  ASSUME NEW d, IsDevices(d)
  PROVE  LET chip == PIC_init(d).pic1
         IN  /\ OnlyPic1(d, PIC_init(d))
             /\ chip.offset = 32 /\ chip.expects = "mask" /\ chip.isr = {}
<1> DEFINE Begin == ICW1_INIT + ICW1_ICW4
           Chip1(e, offset, expects) ==
             e.pic1.offset = offset /\ e.pic1.expects = expects /\ e.pic1.isr = {}
<1>1. PICK started : started = Both(d, PIC1_COMMAND, Begin, PIC2_COMMAND, Begin)
  OBVIOUS
<1>2. OnlyPic1(d, started) /\ started.pic1 = PicWritten(d.pic1, 0, Begin)
  BY <1>1, BothCommands
<1>3. started.pic1.expects = "offset" /\ started.pic1.isr = {}
  BY <1>2, InitWords, Fields
<1>4. PICK moved : moved = Both(started, PIC1_DATA, 32, PIC2_DATA, 40)
  OBVIOUS
<1>5. OnlyPic1(started, moved) /\ moved.pic1 = PicWritten(started.pic1, 1, 32)
  <2>1. IsDevices(started)
    BY <1>2 DEF OnlyPic1
  <2> QED BY <1>4, <2>1, BothData
<1>6. Chip1(moved, 32, "cascade")
  BY <1>2, <1>3, <1>5, InitWords, Fields DEF OnlyPic1
<1>7. PICK chained : chained = Both(moved, PIC1_DATA, 4, PIC2_DATA, 2)
  OBVIOUS
<1>8. OnlyPic1(moved, chained) /\ chained.pic1 = PicWritten(moved.pic1, 1, 4)
  <2>1. IsDevices(moved)
    BY <1>5 DEF OnlyPic1
  <2> QED BY <1>7, <2>1, BothData
<1>9. Chip1(chained, 32, "mode")
  BY <1>5, <1>6, <1>8, InitWords, Fields DEF OnlyPic1
<1>10. PICK ready : ready = Both(chained, PIC1_DATA, ICW4_8086, PIC2_DATA, ICW4_8086)
  OBVIOUS
<1>11. OnlyPic1(chained, ready) /\ ready.pic1 = PicWritten(chained.pic1, 1, ICW4_8086)
  <2>1. IsDevices(chained)
    BY <1>8 DEF OnlyPic1
  <2> QED BY <1>10, <2>1, BothData DEF ICW4_8086
<1>12. Chip1(ready, 32, "mask")
  BY <1>8, <1>9, <1>11, InitWords, Fields DEF OnlyPic1, ICW4_8086
<1>13. PICK first : first = outb(ready, PIC1_DATA, 0)
  OBVIOUS
<1>14. PicWritten(ready.pic1, 1, 0) = ready.pic1
  BY <1>11, <1>12, InitWords, Fields DEF OnlyPic1
<1>15. OnlyPic1(ready, first) /\ first.pic1 = ready.pic1
  <2>1. first = [ready EXCEPT !.pic1 = ready.pic1]
    BY <1>11, <1>13, <1>14, PicPorts DEF OnlyPic1
  <2> QED BY <2>1, <1>11, Pic1Changes, Fields DEF OnlyPic1
<1>16. PICK last : last = outb(first, PIC2_DATA, 0)
  OBVIOUS
<1>18. OnlyPic1(first, last) /\ last.pic1 = first.pic1
  <2>1. last = [first EXCEPT !.pic2 = PicWritten(first.pic2, 1, 0)]
    BY <1>15, <1>16, PicPorts DEF OnlyPic1
  <2>2. PicWritten(first.pic2, 1, 0) \in Chip
    BY <1>15, ChipStays, Fields DEF OnlyPic1
  <2> QED BY <2>1, <2>2, <1>15, Pic2Changes DEF OnlyPic1
<1>19. PIC_init(d) = last
  BY <1>1, <1>4, <1>7, <1>10, <1>13, <1>16 DEF PIC_init, PIC_remap
<1> QED BY <1>2, <1>5, <1>8, <1>11, <1>12, <1>15, <1>18, <1>19 DEF OnlyPic1

\* pic.c: the end of interrupt takes the line that is served out of service.
LEMMA EoiEnds ==
  ASSUME NEW d, IsDevices(d), NEW l \in Device, d.pic1.isr = {l}
  PROVE  LET e == PIC_sendEOI(d, l)
         IN  OnlyPic1(d, e) /\ e.pic1 = [d.pic1 EXCEPT !.isr = {}]
<1>1. Min({l}) = l
  BY DEF Min, Device
<1>2. PIC_sendEOI(d, l) = outb(d, PIC1_COMMAND, PIC_EOI)
  BY DEF PIC_sendEOI, Device
<1>3. PIC_sendEOI(d, l) = [d EXCEPT !.pic1 = PicWritten(d.pic1, 0, PIC_EOI)]
  BY <1>2, PicPorts
<1>4. PicWritten(d.pic1, 0, PIC_EOI) =
        [d.pic1 EXCEPT !.isr = d.pic1.isr \ (IF d.pic1.isr = {} THEN {} ELSE {Min(d.pic1.isr)})]
  BY DEF PicWritten, ICW1_INIT, ICW1_ICW4, PIC_EOI
<1>5. d.pic1.isr \ (IF d.pic1.isr = {} THEN {} ELSE {Min(d.pic1.isr)}) = {}
  BY <1>1
<1>6. PicWritten(d.pic1, 0, PIC_EOI) = [d.pic1 EXCEPT !.isr = {}]
  BY <1>4, <1>5
<1>7. [d.pic1 EXCEPT !.isr = {}] \in Chip
  BY Fields DEF Chip
<1> QED BY <1>3, <1>6, <1>7, Pic1Changes

Loaded(pit, n, e) == [pit EXCEPT !.reload = n, !.expects = e]

LEMMA PitReload ==
  ASSUME NEW pit \in Pit, NEW n \in Nat, NEW e \in {"low", "high"}
  PROVE  LET p == Loaded(pit, n, e)
         IN  p \in Pit /\ p.access = pit.access /\ p.expects = e /\ p.reload = n
<1>1. PICK p : p = [pit EXCEPT !.reload = n]
  OBVIOUS
<1>2. p \in Pit /\ p.access = pit.access /\ p.reload = n
  BY <1>1 DEF Pit
<1>3. Loaded(pit, n, e) = [p EXCEPT !.expects = e]
  BY <1>1 DEF Loaded
<1> QED BY <1>2, <1>3 DEF Pit

\* timer.c: the reload value.
LEMMA TimerIsSet ==
  ASSUME NEW d, IsDevices(d)
  PROVE  /\ OnlyPit(d, timer_init(d)) /\ TicksAreMilliseconds(timer_init(d))
<1> DEFINE Mode(e) == [e EXCEPT !.pit = PitMode(e.pit, 54)]
           Data(e, n) == [e EXCEPT !.pit = PitData(e.pit, n)]
<1>1. ASSUME NEW e, IsDevices(e), NEW n \in Nat
      PROVE  outb(e, 64, n) = Data(e, n) /\ outb(e, 67, 54) = Mode(e)
  BY DEF outb, PIC1_COMMAND, PIC1_DATA, PIC1, PIC2_COMMAND, PIC2_DATA, PIC2, COM1
<1> HIDE DEF Mode, Data
<1>2. PICK d1 : d1 = outb(d, 67, 54)
  OBVIOUS
<1>3. OnlyPit(d, d1) /\ d1.pit.access = 3 /\ d1.pit.expects = "low"
  <2>1. PitMode(d.pit, 54) = [d.pit EXCEPT !.access = 3, !.expects = "low"]
    BY DEF PitMode
  <2>2. [d.pit EXCEPT !.access = 3, !.expects = "low"] \in Pit
    BY Fields DEF Pit
  <2>3. [d.pit EXCEPT !.access = 3, !.expects = "low"].access = 3
        /\ [d.pit EXCEPT !.access = 3, !.expects = "low"].expects = "low"
    BY Fields DEF Pit
  <2>4. d1 = [d EXCEPT !.pit = [d.pit EXCEPT !.access = 3, !.expects = "low"]]
    BY <1>1, <1>2, <2>1 DEF Mode
  <2> QED BY <2>2, <2>3, <2>4, PitChanges
<1>6. PICK d2 : d2 = outb(d1, 64, 169)
  OBVIOUS
<1>9. OnlyPit(d1, d2) /\ d2.pit.access = 3 /\ d2.pit.expects = "high" /\ d2.pit.reload = 169
  <2>0. PICK p : p = Loaded(d1.pit, 169, "high")
    OBVIOUS
  <2>1. PitData(d1.pit, 169) = p
    BY <1>3, <2>0 DEF PitData, Loaded
  <2>2. p \in Pit /\ p.access = 3 /\ p.expects = "high" /\ p.reload = 169
    <3>1. d1.pit \in Pit
      BY <1>3, Fields DEF OnlyPit
    <3>2. p \in Pit /\ p.access = d1.pit.access /\ p.expects = "high" /\ p.reload = 169
      BY <2>0, <3>1, PitReload
    <3> QED BY <1>3, <3>2
  <2>4. d2 = [d1 EXCEPT !.pit = p]
    BY <1>1, <1>3, <1>6, <2>1 DEF Data, OnlyPit
  <2> QED BY <1>3, <2>2, <2>4, PitChanges DEF OnlyPit
<1>10. PICK d3 : d3 = outb(d2, 64, 4)
  OBVIOUS
<1>13. OnlyPit(d2, d3) /\ d3.pit.reload = 1193
  <2>0. PICK p : p = Loaded(d2.pit, 1193, "low")
    OBVIOUS
  <2>1. PitData(d2.pit, 4) = p
    BY <1>9, <2>0 DEF PitData, Loaded
  <2>2. p \in Pit /\ p.reload = 1193
    <3>1. d2.pit \in Pit
      BY <1>9, Fields DEF OnlyPit
    <3> QED BY <2>0, <3>1, PitReload
  <2>4. d3 = [d2 EXCEPT !.pit = p]
    BY <1>1, <1>9, <1>10, <2>1 DEF Data, OnlyPit
  <2> QED BY <1>9, <2>2, <2>4, PitChanges DEF OnlyPit
<1>14. (1193180 \div 1000) % 256 = 169 /\ ((1193180 \div 1000) \div 256) % 256 = 4
  OBVIOUS
<1>15. timer_init(d) = d3
  BY <1>2, <1>6, <1>10, <1>14 DEF timer_init
<1> QED BY <1>3, <1>9, <1>13, <1>15 DEF TicksAreMilliseconds, OnlyPit

\* nmi.c: the mask bit of the index register.
LEMMA NmiIsSet ==
  ASSUME NEW d, IsDevices(d)
  PROVE  /\ OnlyCmos(d, NMI_enable(d))
         /\ OnlyCmos(d, NMI_disable(d)) /\ NmiMasked(NMI_disable(d))
<1>1. ASSUME NEW n \in Nat
      PROVE  outb(d, 112, n) = [d EXCEPT !.cmos = n]
  BY DEF outb, PIC1_COMMAND, PIC1_DATA, PIC1, PIC2_COMMAND, PIC2_DATA, PIC2, COM1
<1>2. inb(d, 112) = d.cmos /\ d.cmos \in Nat
  BY Fields DEF inb
<1>3. d.cmos % 128 \in Nat /\ (d.cmos % 128) + 128 \in Nat /\ (d.cmos % 128) + 128 >= 128
  BY <1>2
<1>4. NMI_enable(d) = [d EXCEPT !.cmos = d.cmos % 128]
      /\ NMI_disable(d) = [d EXCEPT !.cmos = (d.cmos % 128) + 128]
  BY <1>1, <1>2, <1>3 DEF NMI_enable, NMI_disable
<1> QED BY <1>3, <1>4, CmosChanges DEF NmiMasked

\* tty.c: what is printed reaches the serial port only.
LEMMA PrintStays ==
  ASSUME NEW d, IsDevices(d), NEW text
  PROVE  OnlyUart(d, terminal_write(d, text))
<1> DEFINE tty == serial_write(d.uart, d.serial_ready, text)
<1>1. terminal_write(d, text) = [d EXCEPT !.uart = tty.uart, !.serial_ready = tty.serial_ready]
  BY DEF terminal_write
<1> QED BY <1>1, UartChanges

-----------------------------------------------------------------------------
(* Registers and stacks.                                                    *)

\* cpu.inc: push_all and pop_all name the same registers, in opposite orders.
LEMMA Orders ==
  /\ Len(push_all) = 15 /\ Len(pop_all) = 15
  /\ \A n \in 1..15 : push_all[n] \in Reg /\ pop_all[n] = push_all[16 - n]
  /\ \A r \in Reg : \E n \in 1..15 : pop_all[n] = r
  /\ \A m, n \in 1..15 : pop_all[m] = pop_all[n] => m = n
<1>1. Len(push_all) = 15 /\ Len(pop_all) = 15
  BY DEF push_all, pop_all
<1>2. DOMAIN push_all = 1..15
  BY DEF push_all
<1>3. 1..15 = {1, 2, 3, 4, 5, 6, 7, 8, 9, 10, 11, 12, 13, 14, 15}
  OBVIOUS
<1>4. \A n \in 1..15 : pop_all[n] = push_all[16 - n]
  BY <1>3 DEF push_all, pop_all
<1>5. \A n \in 1..15 : push_all[n] \in Reg
  BY <1>2 DEF Reg, ToSet
<1>6. \A r \in Reg : \E n \in 1..15 : pop_all[n] = r
  <2> SUFFICES ASSUME NEW m \in 1..15
               PROVE  \E n \in 1..15 : pop_all[n] = push_all[m]
    BY <1>2 DEF Reg, ToSet
  <2>1. 16 - m \in 1..15 /\ pop_all[16 - m] = push_all[16 - (16 - m)] /\ 16 - (16 - m) = m
    BY <1>4
  <2> QED BY <2>1
<1>7. \A m, n \in 1..15 : pop_all[m] = pop_all[n] => m = n
  BY <1>3 DEF pop_all
<1> QED BY <1>1, <1>4, <1>5, <1>6, <1>7

LEMMA WordIs ==
  /\ \A v \in Content : SavedReg(v) \in Word
  /\ \A n \in Nat : Number(n) \in Word
  /\ \A b \in BOOLEAN : Flags(b) \in Word
  /\ Stale \in Word
BY DEF Word, SavedReg, Number, Flags, Stale

\* A register of its own, or that was lost.
LEMMA RegsAre ==
  ASSUME NEW t \in Thread, NEW S
  PROVE  Own(t) \in [Reg -> Content] /\ Lose(Own(t), S) \in [Reg -> Content]
BY DEF Own, Lose, Content

\* Sequences.
LEMMA Joined ==
  ASSUME NEW S, NEW s \in Seq(S), NEW t \in Seq(S), NEW u, u = s \o t
  PROVE  /\ u \in Seq(S) /\ Len(u) = Len(s) + Len(t)
         /\ \A i \in 1..Len(s) : u[i] = s[i]
         /\ \A i \in 1..Len(t) : u[Len(s) + i] = t[i]
<1>1. u \in Seq(S)
  BY ConcatProperties, Zenon
<1>2. Len(u) = Len(s) + Len(t)
  BY ConcatProperties, Zenon
<1>3. \A i \in 1..Len(s) + Len(t) : u[i] = IF i <= Len(s) THEN s[i] ELSE t[i - Len(s)]
  BY ConcatProperties, Zenon
<1>4. Len(s) \in Nat /\ Len(t) \in Nat
  BY LenProperties, Zenon
<1>5. \A i \in 1..Len(s) : u[i] = s[i]
  BY <1>3, <1>4
<1>6. ASSUME NEW i \in 1..Len(t)
      PROVE  u[Len(s) + i] = t[i]
  <2>1. /\ Len(s) + i \in 1..(Len(s) + Len(t)) /\ ~(Len(s) + i <= Len(s))
        /\ (Len(s) + i) - Len(s) = i
    BY <1>4
  <2> QED BY <2>1, <1>3
<1> QED BY <1>1, <1>2, <1>5, <1>6

LEMMA Appended ==
  ASSUME NEW S, NEW s \in Seq(S), NEW e \in S, NEW u, u = Append(s, e)
  PROVE  /\ u \in Seq(S) /\ Len(u) = Len(s) + 1 /\ u[Len(s) + 1] = e
         /\ \A i \in 1..Len(s) : u[i] = s[i]
<1>1. u \in Seq(S) /\ Len(u) = Len(s) + 1
  BY AppendProperties, Zenon
<1>2. \A i \in 1..Len(s) : u[i] = s[i]
  BY AppendProperties, Zenon
<1>3. u[Len(s) + 1] = e
  BY AppendProperties, Zenon
<1> QED BY <1>1, <1>2, <1>3

LEMMA Cut ==
  ASSUME NEW S, NEW s \in Seq(S), NEW n \in 0..Len(s), NEW u, u = SubSeq(s, 1, n)
  PROVE  /\ u \in Seq(S) /\ Len(u) = n
         /\ \A i \in 1..n : u[i] = s[i]
OBVIOUS

LEMMA CutNothing ==
  ASSUME NEW S, NEW s \in Seq(S)
  PROVE  SubSeq(s, 1, Len(s)) = s /\ SubSeq(s, 1, 0) = << >>
OBVIOUS

LEMMA FunctionIsSequence ==
  ASSUME NEW S, NEW n \in Nat, NEW s \in [1..n -> S]
  PROVE  s \in Seq(S) /\ Len(s) = n
<1>1. \E m \in Nat : s \in [1..m -> S]
  OBVIOUS
<1>2. s \in Seq(S)
  BY <1>1, SeqDef
<1>3. DOMAIN s = 1..n /\ DOMAIN s = 1..Len(s) /\ Len(s) \in Nat
  BY <1>2, LenProperties
<1> QED BY <1>2, <1>3

\* What push_all pushes and what it leaves on a stack.
Saved(rs) == [n \in 1..Len(push_all) |-> SavedReg(rs[push_all[n]])]

LEMMA SavedIs ==
  ASSUME NEW rs \in [Reg -> Content]
  PROVE  /\ Saved(rs) \in Seq(Word) /\ Len(Saved(rs)) = 15
         /\ \A n \in 1..15 : Saved(rs)[n] = SavedReg(rs[push_all[n]])
<1>1. Saved(rs) = [n \in 1..15 |-> SavedReg(rs[push_all[n]])]
  BY Orders DEF Saved
<1>2. \A n \in 1..15 : SavedReg(rs[push_all[n]]) \in Word
  BY Orders, WordIs
<1>3. Saved(rs) \in [1..15 -> Word]
  BY <1>1, <1>2
<1>4. Saved(rs) \in Seq(Word) /\ Len(Saved(rs)) = 15
  BY <1>3, FunctionIsSequence
<1> QED BY <1>1, <1>4

LEMMA PushAllIs ==
  ASSUME NEW words \in Seq(Word), NEW rs \in [Reg -> Content],
         NEW new, new = words \o Saved(rs)
  PROVE  /\ new \in Seq(Word) /\ Len(new) = Len(words) + 15
         /\ \A i \in 1..Len(words) : new[i] = words[i]
         /\ HoldsRegs(new, Len(words), rs)
<1>1. Saved(rs) \in Seq(Word) /\ Len(Saved(rs)) = 15
      /\ \A n \in 1..15 : Saved(rs)[n] = SavedReg(rs[push_all[n]])
  BY SavedIs
<1>2. /\ new \in Seq(Word) /\ Len(new) = Len(words) + Len(Saved(rs))
      /\ \A i \in 1..Len(words) : new[i] = words[i]
      /\ \A i \in 1..Len(Saved(rs)) : new[Len(words) + i] = Saved(rs)[i]
  <2>1. Saved(rs) \in Seq(Word)
    BY <1>1
  <2>2. new \in Seq(Word) /\ Len(new) = Len(words) + Len(Saved(rs))
    BY <2>1, Joined
  <2>3. \A i \in 1..Len(words) : new[i] = words[i]
    BY <2>1, Joined
  <2>4. \A i \in 1..Len(Saved(rs)) : new[Len(words) + i] = Saved(rs)[i]
    BY <2>1, Joined
  <2> QED BY <2>2, <2>3, <2>4
<1>3. \A i \in 1..15 : new[Len(words) + i] = SavedReg(rs[push_all[i]])
  BY <1>1, <1>2
<1>4. Len(new) = Len(words) + 15 /\ Len(new) >= Len(words) + 15
  BY <1>1, <1>2
<1>5. HoldsRegs(new, Len(words), rs)
  BY <1>3, <1>4, Orders DEF HoldsRegs
<1> QED BY <1>2, <1>4, <1>5

\* cpu.inc: pop_all finds the registers that push_all saved.
LEMMA PopAllIs ==
  ASSUME TypeInv, NEW rs \in [Reg -> Content], NEW n \in Nat,
         Len(Words) = n + 15, HoldsRegs(Words, n, rs)
  PROVE  /\ Popped = [r \in Reg |-> rs[r]]
         /\ \A m \in 1..15 : Top(m).is = "reg"
         /\ \A m \in Nat : Top(15 + m) = Words[n + 1 - m]
<1>1. \A m \in 1..15 : Top(m) = SavedReg(rs[pop_all[m]])
  <2> TAKE m \in 1..15
  <2>1. 16 - m \in 1..15 /\ Len(Words) + 1 - m = n + (16 - m)
    OBVIOUS
  <2>2. Words[n + (16 - m)] = SavedReg(rs[push_all[16 - m]])
    BY <2>1, Orders DEF HoldsRegs
  <2> QED BY <2>1, <2>2, Orders DEF Top
<1>2. ASSUME NEW r \in Reg
      PROVE  Top(CHOOSE m \in 1..Len(pop_all) : pop_all[m] = r).value = rs[r]
  <2> DEFINE m == CHOOSE k \in 1..Len(pop_all) : pop_all[k] = r
  <2>1. m \in 1..15 /\ pop_all[m] = r
    BY Orders
  <2> HIDE DEF m
  <2>2. Top(m).value = rs[r]
    BY <2>1, <1>1 DEF SavedReg
  <2> QED BY <2>2 DEF m
<1>3. Popped = [r \in Reg |-> rs[r]]
  BY <1>2 DEF Popped
<1>4. \A m \in 1..15 : Top(m).is = "reg"
  BY <1>1 DEF SavedReg
<1>5. \A m \in Nat : Top(15 + m) = Words[n + 1 - m]
  BY DEF Top
<1> QED BY <1>3, <1>4, <1>5

-----------------------------------------------------------------------------
(* What the steps have in common.                                           *)

\* Nothing happens to the threads that wait.
LEMMA WaitStays ==
  ASSUME WaitOK, cur' = cur,
         \A t \in Thread \ {cur} : pc'[t] = pc[t] /\ stack'[t] = stack[t] /\ rsp0'[t] = rsp0[t]
  PROVE  WaitOK'
BY DEF WaitOK, Preempted

\* After kernel_main everything is set up.
Booted ==
  /\ step = 8 /\ pc[Main] # "boot" /\ idt = TRUE /\ msr = set_ring0_msr
  /\ io.pic1.offset = 32 /\ TicksAreMilliseconds(io) /\ NmiMasked(io)

LEMMA Running ==
  ASSUME MachineInv, pc[cur] # "boot"
  PROVE  Booted
<1>1. Main \in Thread
  BY DEF Thread
<1>2. pc[Main] # "boot"
  BY <1>1 DEF MachineInv, WaitOK, Waiting
<1> QED BY <1>2 DEF MachineInv, BootOK, Booted

\* The devices as far as the kernel depends on what it wrote to them.
IoKept ==
  IsDevices(io') /\ io'.pic1.offset = io.pic1.offset /\ io'.pit = io.pit /\ io'.cmos = io.cmos

LEMMA SameDevices ==
  ASSUME MachineInv, io' = io
  PROVE  IoKept
BY DEF MachineInv, DevicesOK, IoKept

\* A step of the thread that runs, after which it runs still.
LEMMA LocalStep ==
  ASSUME MachineInv, pc[cur] # "boot", NEW l \in OwnCode \cup InKernel, l # "boot",
         NEW words \in Seq(Word), NEW n \in Nat,
         UNCHANGED <<cur, setup>>, IoKept, Goto(l), Stack(words), nr' \in Nat,
         rsp0' = [rsp0 EXCEPT ![cur] = n]
  PROVE  /\ TypeInv' /\ WaitOK' /\ BootOK'
         /\ pc'[cur'] = l /\ stack'[cur'] = words /\ rsp0'[cur'] = n
<1>1. cur \in Thread /\ cur' = cur
  BY DEF MachineInv, TypeInv
<1>2. pc'[cur'] = l /\ \A t \in Thread \ {cur} : pc'[t] = pc[t]
  BY <1>1 DEF MachineInv, TypeInv, Goto
<1>3. stack'[cur'] = words /\ \A t \in Thread \ {cur} : stack'[t] = stack[t]
  BY <1>1 DEF MachineInv, TypeInv, Stack
<1>4. rsp0'[cur'] = n /\ \A t \in Thread \ {cur} : rsp0'[t] = rsp0[t]
  BY <1>1 DEF MachineInv, TypeInv
<1>5. TypeInv'
  <2>1. pc' \in [Thread -> OwnCode \cup InKernel \cup Waiting]
    BY <1>1 DEF MachineInv, TypeInv, Goto
  <2>2. stack' \in [Thread -> Seq(Word)]
    BY <1>1 DEF MachineInv, TypeInv, Stack
  <2>3. rsp0' \in [Thread -> Nat]
    BY <1>1 DEF MachineInv, TypeInv
  <2> QED BY <1>1, <2>1, <2>2, <2>3 DEF TypeInv
<1>6. WaitOK'
  BY <1>1, <1>2, <1>3, <1>4, WaitStays DEF MachineInv
<1>7. BootOK'
  <2>1. Booted
    BY Running
  <2>2. Main \in Thread /\ pc'[Main] # "boot"
    BY <1>1, <1>2, <2>1 DEF Thread, Booted
  <2>3. step' = step /\ idt' = idt /\ msr' = msr
    BY DEF setup
  <2>4. TicksAreMilliseconds(io)' /\ NmiMasked(io)'
    BY <2>1 DEF Booted, IoKept, TicksAreMilliseconds, NmiMasked
  <2> QED BY <2>1, <2>2, <2>3, <2>4 DEF Booted, BootOK, IoKept
<1> QED BY <1>2, <1>3, <1>4, <1>5, <1>6, <1>7

\* What is left to show of the thread that runs, by where it is.
LEMMA InOwnCode ==
  ASSUME pc'[cur'] \in OwnCode, rsp0'[cur'] <= DeepestUser,
         OwnFrame(Frame'), on_user' = (ring' = 3),
         pc'[cur'] \in {"loading", "user"} => tss_rsp0' = cur',
         IF pc'[cur'] = "user" THEN Len(stack'[cur']) <= DeepestUser ELSE stack'[cur'] = << >>,
         IsDevices(io'), io'.pic1.expects = "mask", io'.pic1.isr = {}
  PROVE  RunOK' /\ DevicesOK'
BY DEF RunOK, OwnOK, KernelOK, EnteredOK, CallOK, DevicesOK, ServedAt, OwnStackFor, Words,
  OwnCode, InKernel, Entered, InStub, InCall

LEMMA InEntered ==
  ASSUME pc'[cur'] \in Entered, rsp0'[cur'] <= DeepestUser,
         ring' = 0, cs' = 8, ss' \in {0, 16}, interrupts' = FALSE, on_user' = FALSE,
         OwnFrame(stack'[cur'][1]),
         stack'[cur'][1].at \in {"loading", "user"} => tss_rsp0' = cur',
         Len(stack'[cur']) = Depth[pc'[cur']],
         pc'[cur'] \in InStub => regs' = Own(cur'),
         pc'[cur'] \in {"isr_stub_14", "fault_end"} => stack'[cur'][2].is = "number",
         pc'[cur'] \in {"task_hook", "irq_end"} => HoldsRegs(stack'[cur'], 1, Own(cur')),
         pc'[cur'] = "fault_end" =>
           HoldsRegs(stack'[cur'], 2, Lose(Own(cur'), {"rdi", "rsi"})),
         IsDevices(io'), io'.pic1.expects = "mask", io'.pic1.isr = ServedAt(pc'[cur'])
  PROVE  RunOK' /\ DevicesOK'
BY DEF RunOK, OwnOK, KernelOK, EnteredOK, CallOK, DevicesOK, OwnStackFor, Words,
  OwnCode, InKernel, Entered, InStub, InCall

-----------------------------------------------------------------------------
(* Into the kernel.                                                         *)

LEMMA FrameIs ==
  ASSUME MachineInv, pc[cur] \in OwnCode
  PROVE  /\ OwnFrame(Frame) /\ Frame \in Word /\ Frame.at = pc[cur] /\ Booted
         /\ ss \in {0, 16, 35} /\ (ring # 3 => ss # 35)
<1>1. OwnFrame(Frame) /\ pc[cur] # "boot"
  BY DEF MachineInv, RunOK, OwnOK, OwnCode
<1>2. Frame \in Word
  BY <1>1 DEF OwnFrame
<1>3. Frame.at = pc[cur] /\ Frame.ring = ring /\ Frame.ss = ss
  BY DEF Frame
<1>4. ss \in {0, 16, 35} /\ (ring # 3 => ss # 35)
  BY <1>1, <1>3 DEF OwnFrame
<1> QED BY <1>1, <1>2, <1>3, <1>4, Running

\* A vector finds its gate and its stack, on which there is nothing else.
LEMMA DeliverIs ==
  ASSUME MachineInv, pc[cur] \in OwnCode, NEW v \in Vectors,
         NEW more \in Seq(Word), Len(more) <= 1, Deliver(v, more)
  PROVE  /\ UNCHANGED <<cur, rsp0, tss_rsp0, setup>>
         /\ Goto(StubOf(v)) /\ Stack(<<Frame>> \o more)
         /\ ring' = 0 /\ cs' = 8 /\ ss' \in {0, 16} /\ interrupts' = FALSE
         /\ on_user' = FALSE /\ regs' = Own(cur) /\ nr' \in Nat
         /\ nr' = IF StubOf(v) = "isr_stub" THEN v ELSE 0
<1>1. OwnFrame(Frame) /\ Frame \in Word /\ Frame.at = pc[cur] /\ Booted
      /\ ss \in {0, 16, 35} /\ (ring # 3 => ss # 35)
  BY FrameIs
<1> DEFINE words == (IF ring = 3 THEN << >> ELSE Words) \o <<Frame>> \o more
<1>2. pc[cur] = "user" <=> ring = 3
  BY <1>1 DEF OwnFrame, Frame
<1>3. (IF ring = 3 THEN << >> ELSE Words) = << >>
  BY <1>2 DEF MachineInv, RunOK, OwnOK
<1>4. PICK f : f = <<Frame>>
  OBVIOUS
<1>5. f \in Seq(Word) /\ Len(f) = 1
  BY <1>1, <1>4
<1>6. << >> \o f = f
  BY <1>5
<1>7. words = f \o more
  BY <1>3, <1>4, <1>6
<1>8. PICK w : w = f \o more
  OBVIOUS
<1>9. Len(w) <= StackWords
  <2>1. Len(w) = Len(f) + Len(more)
    BY <1>5, <1>8, Joined
  <2> QED BY <1>5, <2>1, InterruptsAssumption DEF InterruptsAssumption
<1>10. IF ring = 3 THEN TssFound /\ tss_rsp0 = cur ELSE ~on_user
  BY <1>2, TssIsFound DEF MachineInv, RunOK, OwnOK, OwnStackFor
<1>11. /\ GateFound(v) /\ load_idt[v].isr = StubOf(v) /\ load_idt[v].kernel_cs = 8
       /\ load_idt[v].attributes % 16 = IDT_DESCRIPTOR_X32_INTERRUPT
  BY <1>1, Gates DEF Booted
<1> HIDE DEF words
<1>12. /\ Stack(words) /\ Goto(StubOf(v)) /\ cs' = 8 /\ ring' = Dpl(Descriptor(8))
       /\ interrupts' = (interrupts /\ FALSE)
       /\ on_user' = FALSE /\ ss' = (IF ring = 3 THEN 0 ELSE ss)
       /\ regs' = Own(cur) /\ UNCHANGED <<cur, rsp0, tss_rsp0, setup>>
       /\ nr' = IF StubOf(v) = "isr_stub" THEN v ELSE 0
  BY <1>7, <1>8, <1>9, <1>10, <1>11 DEF Deliver, words
<1>14. nr' \in Nat
  BY <1>12, InterruptsAssumption DEF InterruptsAssumption, Vectors
<1>13. interrupts' = FALSE /\ ss' \in {0, 16} /\ ring' = 0
  BY <1>1, <1>12, Descriptors
<1> QED BY <1>4, <1>7, <1>12, <1>13, <1>14

\* After which the stub runs.
LEMMA StubEntered ==
  ASSUME MachineInv, pc[cur] \in OwnCode, NEW v \in Vectors,
         NEW more \in Seq(Word), Len(more) <= 1,
         v = 14 => Len(more) = 1 /\ more[1].is = "number",
         v \in {32, 33, 38} => Len(more) = 0,
         Deliver(v, more), IoKept,
         io'.pic1.expects = "mask", io'.pic1.isr = ServedAt(StubOf(v))
  PROVE  MachineInv'
<1>1. /\ UNCHANGED <<cur, rsp0, tss_rsp0, setup>>
      /\ Goto(StubOf(v)) /\ Stack(<<Frame>> \o more)
      /\ ring' = 0 /\ cs' = 8 /\ ss' \in {0, 16} /\ interrupts' = FALSE
      /\ on_user' = FALSE /\ regs' = Own(cur) /\ nr' \in Nat
  BY DeliverIs
<1>2. OwnFrame(Frame) /\ Frame \in Word /\ Frame.at = pc[cur] /\ Booted
  BY FrameIs
<1>3. PICK f : f = <<Frame>>
  OBVIOUS
<1>4. f \in Seq(Word) /\ Len(f) = 1 /\ f[1] = Frame
  BY <1>2, <1>3
<1>5. PICK words : words = f \o more
  OBVIOUS
<1>6. words \in Seq(Word) /\ Len(words) = 1 + Len(more) /\ words[1] = Frame
      /\ (Len(more) = 1 => words[2] = more[1])
  <2>1. words \in Seq(Word) /\ Len(words) = Len(f) + Len(more)
    <3>1. words \in Seq(Word)
      BY <1>4, <1>5, ConcatProperties, Zenon
    <3>2. Len(words) = Len(f) + Len(more)
      BY <1>4, <1>5, ConcatProperties, Zenon
    <3> QED BY <3>1, <3>2
  <2>2. \A i \in 1..Len(f) : words[i] = f[i]
    BY <1>4, <1>5, Joined
  <2>3. \A i \in 1..Len(f) + Len(more) : words[i] = IF i <= Len(f) THEN f[i] ELSE more[i - Len(f)]
    BY <1>4, <1>5, ConcatProperties, Zenon
  <2> QED BY <1>4, <2>1, <2>2, <2>3
<1>7. StubOf(v) \in InKernel /\ StubOf(v) # "boot" /\ pc[cur] # "boot"
      /\ StubOf(v) \in {"isr_stub"} \cup InStub
  BY DEF StubOf, InKernel, Entered, InStub, OwnCode
<1>8. rsp0' = [rsp0 EXCEPT ![cur] = rsp0[cur]] /\ rsp0[cur] \in Nat /\ rsp0[cur] <= DeepestUser
  BY <1>1 DEF MachineInv, TypeInv, RunOK
<1>9. Stack(words)
  BY <1>1, <1>3, <1>5
<1>10. /\ TypeInv' /\ WaitOK' /\ BootOK'
       /\ pc'[cur'] = StubOf(v) /\ stack'[cur'] = words /\ rsp0'[cur'] = rsp0[cur]
  BY <1>1, <1>6, <1>7, <1>8, <1>9, LocalStep
<1>11. CASE StubOf(v) = "isr_stub"
  <2>1. RunOK' /\ DevicesOK'
    BY <1>1, <1>8, <1>10, <1>11 DEF RunOK, OwnOK, KernelOK, EnteredOK, CallOK, DevicesOK,
      IoKept, OwnCode, InKernel, Entered, InStub, InCall
  <2> QED BY <1>10, <2>1 DEF MachineInv
<1>12. CASE StubOf(v) \in InStub
  <2>1. Len(words) = Depth[StubOf(v)]
    <3>1. v \in {14, 32, 33, 38}
      BY <1>12 DEF StubOf, InStub
    <3> QED BY <1>6, <3>1 DEF Depth, StubOf
  <2>2. StubOf(v) = "isr_stub_14" => words[2].is = "number"
    BY <1>6 DEF StubOf
  <2>3. pc[cur] \in {"loading", "user"} => tss_rsp0 = cur
    BY DEF MachineInv, RunOK, OwnOK, OwnStackFor
  <2>4. RunOK' /\ DevicesOK'
    BY <1>1, <1>2, <1>6, <1>8, <1>10, <1>12, <2>1, <2>2, <2>3, InEntered
      DEF Entered, InStub, IoKept
  <2> QED BY <1>10, <2>4 DEF MachineInv
<1> QED BY <1>7, <1>11, <1>12

\* A device raises its line.
LEMMA DeviceRaisesKeeps ==
  ASSUME MachineInv, DeviceRaises
  PROVE  MachineInv'
<1> USE DEF MachineInv
<1>1. PICK l \in Device : io' = [io EXCEPT !.pic1.irr = @ \cup {l}]
  BY DEF DeviceRaises
<1>2. PICK chip : chip = [io.pic1 EXCEPT !.irr = io.pic1.irr \cup {l}]
  OBVIOUS
<1>3. io.pic1 \in Chip /\ IsDevices(io)
  BY Fields DEF DevicesOK
<1>4. /\ chip \in Chip /\ chip.offset = io.pic1.offset /\ chip.expects = io.pic1.expects
      /\ chip.isr = io.pic1.isr
  BY <1>2, <1>3 DEF Chip
<1>5. io' = [io EXCEPT !.pic1 = chip]
  BY <1>1, <1>2
<1>6. OnlyPic1(io, io') /\ io'.pic1 = chip
  BY <1>3, <1>4, <1>5, Pic1Changes
<1>7. UNCHANGED <<cur, pc, stack, rsp0, tss_rsp0, nr>> /\ UNCHANGED cpu /\ UNCHANGED setup
  BY DEF DeviceRaises, stacks
<1>8. TypeInv'
  BY <1>7 DEF TypeInv
<1>9. WaitOK'
  BY <1>7, WaitStays
<1>10. RunOK'
  BY <1>7 DEF cpu, RunOK, OwnOK, KernelOK, EnteredOK, CallOK, OwnStackFor, Words, Frame
<1>11. DevicesOK'
  BY <1>4, <1>6, <1>7 DEF DevicesOK, OnlyPic1
<1>12. BootOK'
  BY <1>4, <1>6, <1>7 DEF BootOK, setup, OnlyPic1, TicksAreMilliseconds, NmiMasked
<1> QED BY <1>8, <1>9, <1>10, <1>11, <1>12

\* A line is served.
LEMMA InterruptKeeps ==
  ASSUME MachineInv, Interrupt
  PROVE  MachineInv'
<1>1. pc[cur] \in OwnCode
  BY DEF Interrupt, MachineInv, RunOK, KernelOK
<1>2. Booted
  BY <1>1, FrameIs
<1>3. io.pic1 \in Chip /\ IsDevices(io) /\ io.pic1.expects = "mask" /\ io.pic1.isr = {}
  BY <1>1, Fields DEF MachineInv, DevicesOK, ServedAt, OwnCode
<1>4. PICK l : l = Min(io.pic1.irr)
  OBVIOUS
<1>5. /\ io' = [io EXCEPT !.pic1.irr = @ \ {l}, !.pic1.isr = @ \cup {l}]
      /\ Deliver(io.pic1.offset + l, << >>) /\ io.pic1.irr # {}
  BY <1>4 DEF Interrupt
<1>6. l \in Device
  <2>1. io.pic1.irr \subseteq Device
    BY <1>3 DEF Chip
  <2>2. \E m \in io.pic1.irr : \A n \in io.pic1.irr : m <= n
    BY <1>5, <2>1 DEF Device
  <2>3. l \in io.pic1.irr
    BY <1>4, <2>2 DEF Min
  <2> QED BY <2>1, <2>3
<1>7. PICK v : v = io.pic1.offset + l
  OBVIOUS
<1>8. v \in Vectors /\ v \in {32, 33, 38} /\ ServedAt(StubOf(v)) = {l}
  BY <1>2, <1>6, <1>7 DEF Booted, Vectors, Device, StubOf, ServedAt
<1>9. PICK chip : chip = [io.pic1 EXCEPT !.irr = io.pic1.irr \ {l}, !.isr = {l}]
  OBVIOUS
<1>10. io.pic1.isr \cup {l} = {l}
  BY <1>3
<1>11. io' = [io EXCEPT !.pic1 = chip]
  BY <1>3, <1>5, <1>9, <1>10
<1>12. PICK some : some = [io.pic1 EXCEPT !.irr = io.pic1.irr \ {l}]
  OBVIOUS
<1>13. some \in Chip /\ some.offset = io.pic1.offset /\ some.expects = "mask"
  BY <1>3, <1>12 DEF Chip
<1>14. chip = [some EXCEPT !.isr = {l}]
  BY <1>9, <1>12
<1>15. chip \in Chip /\ chip.offset = io.pic1.offset /\ chip.expects = "mask" /\ chip.isr = {l}
  BY <1>6, <1>13, <1>14 DEF Chip
<1>16. OnlyPic1(io, io') /\ io'.pic1 = chip
  BY <1>3, <1>11, <1>15, Pic1Changes
<1>17. IoKept
  BY <1>15, <1>16 DEF IoKept, OnlyPic1
<1>18. PICK more : more = << >>
  OBVIOUS
<1>19. more \in Seq(Word) /\ Len(more) = 0
  BY <1>18
<1>20. Deliver(v, more)
  BY <1>5, <1>7, <1>18
<1>21. v # 14 /\ Len(more) <= 1
  BY <1>8, <1>19
<1>22. io'.pic1.expects = "mask" /\ io'.pic1.isr = ServedAt(StubOf(v))
  BY <1>8, <1>15, <1>16
<1> QED BY <1>1, <1>8, <1>17, <1>19, <1>20, <1>21, <1>22, StubEntered

\* isr.s: own code raises an exception.
LEMMA ExceptionRaised ==
  ASSUME MachineInv, pc[cur] \in OwnCode, NEW v \in Exceptions \cup {14},
         NEW more \in Seq(Word), Len(more) <= 1,
         v = 14 => Len(more) = 1 /\ more[1].is = "number", Deliver(v, more), io' = io
  PROVE  MachineInv'
<1>1. v \in Vectors /\ v \notin {32, 33, 38} /\ ServedAt(StubOf(v)) = {}
  <2>1. v \in Vectors /\ v \notin {32, 33, 38}
    BY InterruptsAssumption DEF InterruptsAssumption, Vectors
  <2>2. StubOf(v) \in {"isr_stub_14", "isr_stub"}
    BY <2>1 DEF StubOf
  <2> QED BY <2>1, <2>2 DEF ServedAt
<1>2. io'.pic1.expects = "mask" /\ io'.pic1.isr = {}
  BY DEF MachineInv, DevicesOK, ServedAt, OwnCode
<1> QED BY <1>1, <1>2, SameDevices, StubEntered

LEMMA RaiseKeeps ==
  ASSUME MachineInv, Raise
  PROVE  MachineInv'
<1>1. PICK v \in Exceptions, e \in {0, 26} :
        /\ Deliver(v, IF v \in PushesError THEN <<Number(e)>> ELSE << >>)
        /\ io' = io /\ pc[cur] \in OwnCode
  BY DEF Raise
<1>2. PICK more : more = IF v \in PushesError THEN <<Number(e)>> ELSE << >>
  OBVIOUS
<1>3. Number(e) \in Word
  BY WordIs
<1>4. more \in Seq(Word) /\ Len(more) <= 1
  BY <1>2, <1>3
<1>5. v # 14
  BY InterruptsAssumption DEF InterruptsAssumption
<1> QED BY <1>1, <1>2, <1>4, <1>5, ExceptionRaised

LEMMA PageFaultKeeps ==
  ASSUME MachineInv, PageFault
  PROVE  MachineInv'
<1>1. PICK prot \in {0, PF_PROT}, write \in {0, PF_WRITE} :
        /\ Deliver(14, <<Number(prot + write + IF ring = 3 THEN PF_USER ELSE 0)>>)
        /\ io' = io /\ pc[cur] \in OwnCode
  BY DEF PageFault
<1>2. PICK e : e = prot + write + IF ring = 3 THEN PF_USER ELSE 0
  OBVIOUS
<1>3. e \in Nat
  BY <1>2 DEF PF_PROT, PF_WRITE, PF_USER
<1>4. PICK w : w = Number(e)
  OBVIOUS
<1>5. w \in Word /\ w.is = "number"
  BY <1>3, <1>4, WordIs DEF Number
<1>6. PICK more : more = <<w>>
  OBVIOUS
<1>7. more \in Seq(Word) /\ Len(more) = 1 /\ more[1] = w
  BY <1>5, <1>6
<1>8. PICK v : v = 14
  OBVIOUS
<1>9. Deliver(v, more)
  BY <1>1, <1>2, <1>4, <1>6, <1>8
<1>10. v \in Exceptions \cup {14} /\ Len(more) <= 1 /\ more[1].is = "number"
  BY <1>5, <1>7, <1>8
<1> QED BY <1>1, <1>7, <1>9, <1>10, ExceptionRaised

-----------------------------------------------------------------------------
(* irq.s: the handlers and the way back.                                    *)

\* The handlers of the timer and of the keyboard, which end the interrupt.
LEMMA HandlerKeeps ==
  ASSUME MachineInv, NEW l \in Device, NEW handler \in {"task_hook", "irq_end"},
         pc[cur] \in {"irq_stub_0", "irq_stub_1"}, ServedAt(pc[cur]) = {l},
         PushAll(handler), io' = PIC_sendEOI(io, l)
  PROVE  MachineInv'
<1>1. /\ cur \in Thread /\ Words \in Seq(Word) /\ Len(Words) = 1 /\ regs = Own(cur)
      /\ OwnFrame(Words[1]) /\ OwnStackFor(Words[1].at) /\ on_user = FALSE
      /\ ring = 0 /\ cs = 8 /\ ss \in {0, 16} /\ interrupts = FALSE
      /\ rsp0[cur] \in Nat /\ rsp0[cur] <= DeepestUser /\ rsp0 \in [Thread -> Nat]
  <2>1. pc[cur] \in InStub /\ pc[cur] \in Entered /\ pc[cur] \in InKernel /\ Depth[pc[cur]] = 1
    BY DEF InKernel, Entered, InStub, Depth
  <2>2. /\ Len(Words) = 1 /\ regs = Own(cur)
        /\ OwnFrame(Words[1]) /\ OwnStackFor(Words[1].at) /\ on_user = FALSE
    BY <2>1 DEF MachineInv, RunOK, EnteredOK
  <2>3. ring = 0 /\ cs = 8 /\ ss \in {0, 16} /\ interrupts = FALSE
    BY <2>1 DEF MachineInv, RunOK, KernelOK
  <2>4. /\ cur \in Thread /\ Words \in Seq(Word)
        /\ rsp0[cur] \in Nat /\ rsp0[cur] <= DeepestUser /\ rsp0 \in [Thread -> Nat]
    BY DEF MachineInv, TypeInv, Words, RunOK
  <2> QED BY <2>2, <2>3, <2>4
<1>2. PICK new : new = Words \o Saved(Own(cur))
  OBVIOUS
<1>3. Own(cur) \in [Reg -> Content]
  BY <1>1, RegsAre
<1>4. /\ new \in Seq(Word) /\ Len(new) = 16 /\ new[1] = Words[1] /\ HoldsRegs(new, 1, Own(cur))
  <2>1. /\ new \in Seq(Word) /\ Len(new) = Len(Words) + 15
        /\ \A i \in 1..Len(Words) : new[i] = Words[i]
        /\ HoldsRegs(new, Len(Words), Own(cur))
    BY <1>1, <1>2, <1>3, PushAllIs
  <2> QED BY <1>1, <2>1
<1>5. Pushed = Saved(Own(cur))
  BY <1>1 DEF Pushed, Saved
<1>6. ~(Len(Words) + Len(push_all) > StackWords)
  BY <1>1, Orders, InterruptsAssumption DEF InterruptsAssumption
<1>7. /\ Stack(new) /\ Goto(handler)
      /\ UNCHANGED <<cur, ring, interrupts, cs, ss, on_user, rsp0, tss_rsp0, setup, nr>>
  BY <1>2, <1>5, <1>6 DEF PushAll
<1>8. IsDevices(io) /\ io.pic1 \in Chip /\ io.pic1.isr = {l} /\ io.pic1.expects = "mask"
  BY Fields DEF MachineInv, DevicesOK
<1>9. OnlyPic1(io, io') /\ io'.pic1 = [io.pic1 EXCEPT !.isr = {}]
  BY <1>8, EoiEnds
<1>10. IoKept /\ io'.pic1.expects = "mask" /\ io'.pic1.isr = {}
  BY <1>8, <1>9 DEF IoKept, OnlyPic1, Chip
<1>11. rsp0' = [rsp0 EXCEPT ![cur] = rsp0[cur]] /\ nr' \in Nat
  BY <1>1, <1>7 DEF MachineInv, TypeInv
<1>12. handler \in OwnCode \cup InKernel /\ handler # "boot" /\ pc[cur] # "boot"
  BY DEF InKernel, Entered
<1>13. /\ TypeInv' /\ WaitOK' /\ BootOK'
       /\ pc'[cur'] = handler /\ stack'[cur'] = new /\ rsp0'[cur'] = rsp0[cur]
  BY <1>1, <1>4, <1>7, <1>10, <1>11, <1>12, LocalStep
<1>14. ServedAt(handler) = {} /\ handler \in Entered /\ handler \notin InStub /\ Depth[handler] = 16
  BY DEF ServedAt, Entered, InStub, Depth
<1>15. RunOK' /\ DevicesOK'
  BY <1>1, <1>4, <1>7, <1>10, <1>13, <1>14, InEntered DEF OwnStackFor, IoKept
<1> QED BY <1>13, <1>15 DEF MachineInv

LEMMA TimerHandlerKeeps ==
  ASSUME MachineInv, TimerHandler
  PROVE  MachineInv'
<1>1. 0 \in Device /\ ServedAt("irq_stub_0") = {0}
  BY DEF Device, ServedAt
<1> QED BY <1>1, HandlerKeeps DEF TimerHandler, At

LEMMA KeyboardHandlerKeeps ==
  ASSUME MachineInv, KeyboardHandler
  PROVE  MachineInv'
<1>1. 1 \in Device /\ ServedAt("irq_stub_1") = {1}
  BY DEF Device, ServedAt
<1> QED BY <1>1, HandlerKeeps DEF KeyboardHandler, At

\* The frame at the bottom of the stack takes the thread back to its own code.
LEMMA ReturnKeeps ==
  ASSUME MachineInv, pc[cur] # "boot", NEW n \in Nat, Len(Words) = n + 1,
         OwnFrame(Words[1]), OwnStackFor(Words[1].at), Iretq(n), IoKept,
         io'.pic1.expects = "mask", io'.pic1.isr = {}
  PROVE  MachineInv' /\ pc'[cur] \in OwnCode
<1>1. /\ cur \in Thread /\ Words \in Seq(Word)
      /\ rsp0[cur] \in Nat /\ rsp0[cur] <= DeepestUser /\ rsp0 \in [Thread -> Nat]
  BY DEF MachineInv, TypeInv, Words, RunOK
<1>2. PICK f : f = Words[1]
  OBVIOUS
<1>3. Top(n + 1) = f
  BY <1>2 DEF Top
<1>4. Less(n + 1) = << >>
  <2>1. Less(n + 1) = SubSeq(Words, 1, 0)
    BY DEF Less
  <2> QED BY <1>1, <2>1, CutNothing
<1>5. /\ Stack(<< >>) /\ Goto(f.at) /\ ring' = f.ring /\ interrupts' = f.flag
      /\ cs' = f.cs /\ ss' = f.ss /\ on_user' = (f.ring = 3)
      /\ UNCHANGED <<cur, rsp0, tss_rsp0, setup, nr>>
  BY <1>3, <1>4 DEF Iretq
<1>6. /\ f.at \in OwnCode /\ f.flag = TRUE
      /\ IF f.at = "user" THEN f.ring = 3 /\ f.cs = 43 /\ f.ss = 35
                          ELSE f.ring = 0 /\ f.cs = 8 /\ f.ss \in {0, 16}
  BY <1>2 DEF OwnFrame
<1>7. PICK words : words = << >>
  OBVIOUS
<1>8. words \in Seq(Word) /\ Stack(words)
  BY <1>5, <1>7
<1>9. rsp0' = [rsp0 EXCEPT ![cur] = rsp0[cur]] /\ f.at # "boot" /\ nr' \in Nat
  BY <1>1, <1>5, <1>6 DEF OwnCode, MachineInv, TypeInv
<1>10. /\ TypeInv' /\ WaitOK' /\ BootOK'
       /\ pc'[cur'] = f.at /\ stack'[cur'] = words /\ rsp0'[cur'] = rsp0[cur]
  BY <1>1, <1>5, <1>6, <1>8, <1>9, LocalStep
<1>11. OwnFrame(Frame')
  BY <1>5, <1>6, <1>10 DEF OwnFrame, Frame, Word
<1>12. f.at \in {"loading", "user"} => tss_rsp0' = cur'
  BY <1>2, <1>5 DEF OwnStackFor
<1>13. IsDevices(io')
  BY DEF IoKept
<1>14. IF f.at = "user" THEN Len(words) <= DeepestUser ELSE words = << >>
  BY <1>7 DEF DeepestUser
<1>15. RunOK' /\ DevicesOK'
  BY <1>1, <1>5, <1>6, <1>10, <1>11, <1>12, <1>13, <1>14, InOwnCode
<1> QED BY <1>5, <1>6, <1>10, <1>15 DEF MachineInv

\* What the ends of the stubs look for on top.
Kind == {"reg", "number", "frame"}

LEMMA KindsAre ==
  ASSUME NEW rest \in Seq(Kind), NEW kinds, kinds = RegsOnTop \o rest
  PROVE  /\ DOMAIN kinds = 1..(15 + Len(rest)) /\ Len(kinds) = 15 + Len(rest)
         /\ \A i \in 1..15 : kinds[i] = "reg"
         /\ \A i \in 1..Len(rest) : kinds[15 + i] = rest[i]
<1>1. RegsOnTop = [m \in 1..15 |-> "reg"]
  BY Orders DEF RegsOnTop
<1>2. RegsOnTop \in [1..15 -> Kind]
  BY <1>1 DEF Kind
<1>3. RegsOnTop \in Seq(Kind)
  <2>1. 15 \in Nat
    OBVIOUS
  <2> QED BY <1>2, <2>1, FunctionIsSequence, Zenon
<1>4. Len(RegsOnTop) = 15
  <2>1. 15 \in Nat
    OBVIOUS
  <2> QED BY <1>2, <2>1, FunctionIsSequence, Zenon
<1>5. kinds \in Seq(Kind)
  BY <1>3, ConcatProperties, Zenon
<1>6. Len(kinds) = Len(RegsOnTop) + Len(rest)
  BY <1>3, ConcatProperties, Zenon
<1>7. \A i \in 1..Len(RegsOnTop) + Len(rest) :
        kinds[i] = IF i <= Len(RegsOnTop) THEN RegsOnTop[i] ELSE rest[i - Len(RegsOnTop)]
  BY <1>3, ConcatProperties, Zenon
<1>8. DOMAIN kinds = 1..Len(kinds) /\ Len(rest) \in Nat
  BY <1>5, LenProperties, Zenon
<1>9. \A i \in 1..15 : kinds[i] = "reg"
  BY <1>1, <1>4, <1>7, <1>8
<1>10. \A i \in 1..Len(rest) : kinds[15 + i] = rest[i]
  <2> TAKE i \in 1..Len(rest)
  <2>1. 15 + i \in 1..(15 + Len(rest)) /\ ~(15 + i <= 15) /\ (15 + i) - 15 = i
    BY <1>8
  <2> QED BY <1>4, <1>7, <2>1
<1> QED BY <1>4, <1>6, <1>8, <1>9, <1>10

LEMMA TopAreKinds ==
  ASSUME NEW n \in Nat, Len(Words) >= n + 15, \A m \in 1..15 : Top(m).is = "reg",
         NEW rest \in Seq(Kind), Len(rest) <= n,
         \A m \in 1..Len(rest) : Top(15 + m).is = rest[m],
         NEW kinds, kinds = RegsOnTop \o rest
  PROVE  TopAre(kinds)
<1>1. /\ DOMAIN kinds = 1..(15 + Len(rest)) /\ Len(kinds) = 15 + Len(rest)
      /\ \A i \in 1..15 : kinds[i] = "reg"
      /\ \A i \in 1..Len(rest) : kinds[15 + i] = rest[i]
  BY KindsAre, Zenon
<1>2. Len(rest) \in Nat
  BY LenProperties, Zenon
<1>3. PICK k \in Nat : k = Len(rest)
  BY <1>2
<1>4. ASSUME NEW i \in 1..(15 + k)
      PROVE  Top(i).is = kinds[i]
  <2>1. CASE i <= 15
    <3>1. i \in 1..15
      BY <1>4, <2>1
    <3>2. kinds[i] = "reg"
      BY <1>1, <3>1
    <3> QED BY <3>1, <3>2
  <2>2. CASE ~(i <= 15)
    <3>1. i - 15 \in 1..k /\ 15 + (i - 15) = i
      BY <1>4, <2>2
    <3> QED BY <1>1, <1>3, <3>1
  <2> QED BY <2>1, <2>2
<1>5. Len(Words) >= Len(kinds)
  BY <1>1, <1>2
<1> QED BY <1>1, <1>3, <1>4, <1>5 DEF TopAre

\* The end of irq_stub_0 and irq_stub_1: the thread gets all its registers back.
LEMMA IrqEndIs ==
  ASSUME MachineInv, IrqEnd
  PROVE  MachineInv' /\ pc'[cur] \in OwnCode /\ regs' = Own(cur)
<1>1. /\ pc[cur] = "irq_end" /\ io' = io /\ cur \in Thread /\ TypeInv
      /\ Len(Words) = 1 + 15 /\ OwnFrame(Words[1]) /\ OwnStackFor(Words[1].at)
      /\ HoldsRegs(Words, 1, Own(cur))
  BY DEF IrqEnd, At, MachineInv, TypeInv, RunOK, EnteredOK, Entered, Depth
<1>2. Own(cur) \in [Reg -> Content]
  BY <1>1, RegsAre
<1>3. Popped = [r \in Reg |-> Own(cur)[r]] /\ \A m \in 1..15 : Top(m).is = "reg"
  BY <1>1, <1>2, PopAllIs
<1>4. Popped = Own(cur)
  BY <1>2, <1>3
<1>5. Top(15 + 1) = Words[1]
  BY <1>1, <1>2, PopAllIs
<1>6. PICK rest : rest = <<"frame">>
  OBVIOUS
<1>7. rest \in Seq(Kind) /\ Len(rest) = 1 /\ rest[1] = "frame"
  BY <1>6 DEF Kind
<1>8. TopAre(RegsOnTop \o <<"frame">>)
  <2>1. PICK kinds : kinds = RegsOnTop \o rest
    OBVIOUS
  <2>2. \A m \in 1..Len(rest) : Top(15 + m).is = rest[m]
    BY <1>1, <1>5, <1>7 DEF OwnFrame
  <2>3. Len(Words) >= 1 + 15 /\ Len(rest) <= 1 /\ 1 \in Nat
    BY <1>1, <1>7
  <2>4. rest \in Seq(Kind) /\ \A m \in 1..15 : Top(m).is = "reg"
    BY <1>3, <1>7
  <2>5. TopAre(kinds)
    BY <2>1, <2>2, <2>3, <2>4, TopAreKinds
  <2> QED BY <1>6, <2>1, <2>5, Zenon
<1>9. Iretq(15) /\ regs' = Own(cur)
  BY <1>4, <1>8, Orders DEF IrqEnd
<1>10. IoKept /\ io'.pic1.expects = "mask" /\ io'.pic1.isr = {}
  BY <1>1, SameDevices DEF MachineInv, DevicesOK, ServedAt
<1> QED BY <1>1, <1>9, <1>10, ReturnKeeps

\* The end of isr_stub_14: all but two.
LEMMA FaultEndIs ==
  ASSUME MachineInv, FaultEnd
  PROVE  /\ MachineInv' /\ pc'[cur] \in OwnCode
         /\ regs' = Lose(Own(cur), {"rdi", "rsi"})
<1>1. /\ pc[cur] = "fault_end" /\ io' = io /\ cur \in Thread /\ TypeInv
      /\ Len(Words) = 2 + 15 /\ OwnFrame(Words[1]) /\ OwnStackFor(Words[1].at)
      /\ Words[2].is = "number"
      /\ HoldsRegs(Words, 2, Lose(Own(cur), {"rdi", "rsi"}))
  BY DEF FaultEnd, At, MachineInv, TypeInv, RunOK, EnteredOK, Entered, Depth
<1>2. PICK rs : rs = Lose(Own(cur), {"rdi", "rsi"})
  OBVIOUS
<1>3. rs \in [Reg -> Content] /\ HoldsRegs(Words, 2, rs)
  BY <1>1, <1>2, RegsAre
<1>4. Popped = [r \in Reg |-> rs[r]] /\ \A m \in 1..15 : Top(m).is = "reg"
  BY <1>1, <1>3, PopAllIs
<1>5. Popped = rs
  BY <1>3, <1>4
<1>6. Top(15 + 1) = Words[2] /\ Top(15 + 2) = Words[1]
  <2>1. PICK n \in Nat : n = 2
    OBVIOUS
  <2>2. \A m \in Nat : Top(15 + m) = Words[n + 1 - m]
    BY <1>1, <1>3, <2>1, PopAllIs
  <2>3. n + 1 - 1 = 2 /\ n + 1 - 2 = 1
    BY <2>1
  <2>4. Top(15 + 1) = Words[n + 1 - 1] /\ Top(15 + 2) = Words[n + 1 - 2]
    BY <2>2
  <2> QED BY <2>3, <2>4
<1>7. PICK rest : rest = <<"number", "frame">>
  OBVIOUS
<1>8. rest \in Seq(Kind) /\ Len(rest) = 2 /\ rest[1] = "number" /\ rest[2] = "frame"
  BY <1>7 DEF Kind
<1>9. TopAre(RegsOnTop \o <<"number", "frame">>)
  <2>1. PICK kinds : kinds = RegsOnTop \o rest
    OBVIOUS
  <2>2. \A m \in 1..Len(rest) : Top(15 + m).is = rest[m]
    <3>1. Top(16).is = "number" /\ Top(17).is = "frame"
      BY <1>1, <1>6 DEF OwnFrame
    <3>2. \A m \in 1..Len(rest) : m = 1 \/ m = 2
      BY <1>8
    <3> QED BY <1>8, <3>1, <3>2
  <2>3. Len(Words) >= 2 + 15 /\ Len(rest) <= 2 /\ 2 \in Nat
    BY <1>1, <1>8
  <2>4. rest \in Seq(Kind) /\ \A m \in 1..15 : Top(m).is = "reg"
    BY <1>4, <1>8
  <2>5. TopAre(kinds)
    BY <2>1, <2>2, <2>3, <2>4, TopAreKinds
  <2> QED BY <1>7, <2>1, <2>5, Zenon
<1>10. Iretq(15 + 1) /\ regs' = rs
  BY <1>5, <1>9, Orders DEF FaultEnd
<1>11. IoKept /\ io'.pic1.expects = "mask" /\ io'.pic1.isr = {}
  BY <1>1, SameDevices DEF MachineInv, DevicesOK, ServedAt
<1> QED BY <1>1, <1>2, <1>10, <1>11, ReturnKeeps

\* irq_stub_6 ends its interrupt; what C code may destroy is lost.
LEMMA FloppyHandlerIs ==
  ASSUME MachineInv, FloppyHandler
  PROVE  /\ MachineInv' /\ pc'[cur] \in OwnCode
         /\ regs' = Lose(Own(cur), Clobbered)
<1>1. /\ pc[cur] = "irq_stub_6" /\ io' = PIC_sendEOI(io, 6) /\ cur \in Thread
      /\ Len(Words) = 1 /\ OwnFrame(Words[1]) /\ OwnStackFor(Words[1].at)
      /\ regs = Own(cur)
  BY DEF FloppyHandler, At, MachineInv, TypeInv, RunOK, EnteredOK, Entered, InStub, Depth
<1>2. Top(1) = Words[1] /\ Top(1).is = "frame"
  BY <1>1 DEF Top, OwnFrame
<1>3. TopAre(<<"frame">>)
  BY <1>1, <1>2 DEF TopAre
<1>4. Iretq(0) /\ regs' = Lose(Own(cur), Clobbered)
  BY <1>1, <1>3 DEF FloppyHandler
<1>5. IsDevices(io) /\ io.pic1 \in Chip /\ io.pic1.isr = {6} /\ io.pic1.expects = "mask"
  BY <1>1, Fields DEF MachineInv, DevicesOK, ServedAt
<1>6. OnlyPic1(io, io') /\ io'.pic1 = [io.pic1 EXCEPT !.isr = {}]
  BY <1>1, <1>5, EoiEnds DEF Device
<1>7. IoKept /\ io'.pic1.expects = "mask" /\ io'.pic1.isr = {}
  BY <1>5, <1>6 DEF IoKept, OnlyPic1, Chip
<1> QED BY <1>1, <1>4, <1>7, ReturnKeeps

-----------------------------------------------------------------------------
(* isr.s: the exceptions.                                                   *)

LEMMA PrintsKeep ==
  ASSUME MachineInv, OnlyUart(io, io')
  PROVE  IoKept /\ io'.pic1.expects = "mask" /\ io'.pic1.isr = ServedAt(pc[cur])
BY DEF MachineInv, DevicesOK, IoKept, OnlyUart

\* The machine halts.
LEMMA HaltKeeps ==
  ASSUME MachineInv, pc[cur] \in {"isr_stub", "isr_stub_14"}, NEW words \in Seq(Word),
         Stack(words), Goto("halted"), interrupts' = FALSE,
         UNCHANGED <<cur, ring, cs, ss, rsp0, setup, nr>>, OnlyUart(io, io')
  PROVE  MachineInv'
<1>1. /\ ring = 0 /\ cs = 8 /\ ss \in {0, 16} /\ pc[cur] # "boot"
      /\ rsp0[cur] \in Nat /\ rsp0[cur] <= DeepestUser /\ rsp0 \in [Thread -> Nat]
      /\ nr \in Nat /\ cur \in Thread /\ ServedAt(pc[cur]) = {}
  BY DEF MachineInv, TypeInv, RunOK, KernelOK, InKernel, Entered, InStub, ServedAt
<1>2. IoKept /\ io'.pic1.expects = "mask" /\ io'.pic1.isr = {}
  BY <1>1, PrintsKeep
<1>3. rsp0' = [rsp0 EXCEPT ![cur] = rsp0[cur]] /\ nr' \in Nat
  BY <1>1
<1>4. "halted" \in OwnCode \cup InKernel
  BY DEF InKernel
<1>5. /\ TypeInv' /\ WaitOK' /\ BootOK'
      /\ pc'[cur'] = "halted" /\ rsp0'[cur'] = rsp0[cur]
  BY <1>1, <1>2, <1>3, <1>4, LocalStep
<1>6. RunOK' /\ DevicesOK'
  BY <1>1, <1>2, <1>5 DEF RunOK, OwnOK, KernelOK, EnteredOK, CallOK, DevicesOK, IoKept,
    ServedAt, OwnCode, InKernel, Entered, InStub, InCall
<1> QED BY <1>5, <1>6 DEF MachineInv

LEMMA ExceptionKeeps ==
  ASSUME MachineInv, Exception
  PROVE  MachineInv'
<1>1. PICK zero, vector : zero = Number(0) /\ vector = Number(nr)
  OBVIOUS
<1>2. zero \in Word /\ vector \in Word /\ Words \in Seq(Word)
  BY <1>1, WordIs DEF MachineInv, TypeInv, Words
<1>3. PICK under : under = IF nr \in isr_err_stub THEN Words ELSE Words \o <<zero>>
  OBVIOUS
<1>4. under \in Seq(Word)
  BY <1>2, <1>3
<1>5. PICK words : words = under \o <<vector>>
  OBVIOUS
<1>6. words \in Seq(Word)
  BY <1>2, <1>4, <1>5
<1>7. Stack(words)
  BY <1>1, <1>3, <1>5 DEF Exception
<1>8. OnlyUart(io, io')
  <2>1. IsDevices(io)
    BY DEF MachineInv, DevicesOK
  <2>2. \E text : io' = terminal_write(io, text)
    BY DEF Exception, printk
  <2> QED BY <2>1, <2>2, PrintStays
<1>9. /\ pc[cur] = "isr_stub" /\ Goto("halted") /\ interrupts' = FALSE
      /\ UNCHANGED <<cur, ring, cs, ss, rsp0, setup, nr>>
  BY DEF Exception, At
<1> QED BY <1>6, <1>7, <1>8, <1>9, HaltKeeps

\* isr_stub_14 saves all registers but those that it has loaded before.
LEMMA PageFaultHandlerKeeps ==
  ASSUME MachineInv, PageFaultHandler
  PROVE  MachineInv'
<1>1. pc[cur] = "isr_stub_14" /\ cur \in Thread
  BY DEF PageFaultHandler, At, MachineInv, TypeInv
<1>2. /\ Words \in Seq(Word) /\ Len(Words) = 2 /\ regs = Own(cur)
      /\ OwnFrame(Words[1]) /\ OwnStackFor(Words[1].at) /\ on_user = FALSE
      /\ Words[2].is = "number"
      /\ rsp0[cur] \in Nat /\ rsp0[cur] <= DeepestUser /\ rsp0 \in [Thread -> Nat] /\ nr \in Nat
  BY <1>1 DEF MachineInv, TypeInv, Words, RunOK, EnteredOK, Entered, InStub, Depth
<1>3. ring = 0 /\ cs = 8 /\ ss \in {0, 16} /\ interrupts = FALSE
  BY <1>1 DEF MachineInv, RunOK, KernelOK, InKernel, Entered, InStub
<1>4. PICK args : args = Lose(Own(cur), {"rdi", "rsi"})
  OBVIOUS
<1>5. args \in [Reg -> Content]
  BY <1>1, <1>4, RegsAre
<1>6. PICK new : new = Words \o Saved(args)
  OBVIOUS
<1>7. /\ new \in Seq(Word) /\ Len(new) = 17 /\ HoldsRegs(new, 2, args)
      /\ new[1] = Words[1] /\ new[2] = Words[2]
  <2>1. /\ new \in Seq(Word) /\ Len(new) = Len(Words) + 15
        /\ \A i \in 1..Len(Words) : new[i] = Words[i]
        /\ HoldsRegs(new, Len(Words), args)
    BY <1>2, <1>5, <1>6, PushAllIs
  <2> QED BY <1>2, <2>1
<1>8. ~(Len(Words) + Len(push_all) > StackWords \/ ~TopAre(<<"number", "frame">>))
  <2>1. Top(1) = Words[2] /\ Top(2) = Words[1]
    BY <1>2 DEF Top
  <2>2. TopAre(<<"number", "frame">>)
    BY <1>2, <2>1 DEF TopAre, OwnFrame
  <2>3. Len(Words) + Len(push_all) = 17
    BY <1>2, Orders
  <2> QED BY <2>2, <2>3, InterruptsAssumption DEF InterruptsAssumption
<1>9. /\ Stack(new)
      /\ UNCHANGED <<cur, ring, interrupts, cs, ss, on_user, rsp0, tss_rsp0, setup, nr>>
      /\ \/ Goto("fault_end") /\ io' = io
         \/ Goto("halted") /\ \E format, a : io' = panic(io, format, a)
         \/ Goto("halted") /\ \E format, a, b : io' = panic(printk(io, format, a), b, << >>)
  BY <1>2, <1>4, <1>6, <1>8 DEF PageFaultHandler, Saved
<1>10. rsp0' = [rsp0 EXCEPT ![cur] = rsp0[cur]] /\ nr' \in Nat
  BY <1>2, <1>9
<1>11. CASE Goto("fault_end") /\ io' = io
  <2>1. IoKept /\ io'.pic1.expects = "mask" /\ io'.pic1.isr = {}
    BY <1>1, <1>11, SameDevices DEF MachineInv, DevicesOK, ServedAt
  <2>2. "fault_end" \in OwnCode \cup InKernel /\ "fault_end" \in Entered \ InStub
        /\ Depth["fault_end"] = 17 /\ ServedAt("fault_end") = {}
    BY DEF InKernel, Entered, InStub, Depth, ServedAt
  <2>3. /\ TypeInv' /\ WaitOK' /\ BootOK'
        /\ pc'[cur'] = "fault_end" /\ stack'[cur'] = new /\ rsp0'[cur'] = rsp0[cur]
    BY <1>1, <1>2, <1>7, <1>9, <1>10, <1>11, <2>1, <2>2, LocalStep
  <2>4. RunOK' /\ DevicesOK'
    BY <1>2, <1>3, <1>4, <1>7, <1>9, <2>1, <2>2, <2>3, InEntered DEF OwnStackFor, IoKept
  <2> QED BY <2>3, <2>4 DEF MachineInv
<1>12. CASE Goto("halted") /\ \E format, a : io' = panic(io, format, a)
  <2>1. IsDevices(io)
    BY DEF MachineInv, DevicesOK
  <2>2. PICK t1, t2 : io' = terminal_write(terminal_write(io, t1), t2)
    BY <1>12 DEF panic, printk
  <2>3. PICK first : first = terminal_write(io, t1)
    OBVIOUS
  <2>4. OnlyUart(io, first)
    BY <2>1, <2>3, PrintStays
  <2>5. OnlyUart(first, io')
    BY <2>2, <2>3, <2>4, PrintStays DEF OnlyUart
  <2>6. OnlyUart(io, io')
    BY <2>4, <2>5 DEF OnlyUart
  <2> QED BY <1>1, <1>3, <1>7, <1>9, <1>12, <2>6, HaltKeeps
<1>13. CASE Goto("halted") /\ \E format, a, b : io' = panic(printk(io, format, a), b, << >>)
  <2>1. IsDevices(io)
    BY DEF MachineInv, DevicesOK
  <2>2. PICK t1, t2, t3 :
          io' = terminal_write(terminal_write(terminal_write(io, t1), t2), t3)
    BY <1>13 DEF panic, printk
  <2>3. PICK first : first = terminal_write(io, t1)
    OBVIOUS
  <2>4. PICK second : second = terminal_write(first, t2)
    OBVIOUS
  <2>5. OnlyUart(io, first)
    BY <2>1, <2>3, PrintStays
  <2>6. OnlyUart(first, second)
    BY <2>4, <2>5, PrintStays DEF OnlyUart
  <2>7. OnlyUart(second, io')
    BY <2>2, <2>3, <2>4, <2>6, PrintStays DEF OnlyUart
  <2>8. OnlyUart(io, io')
    BY <2>5, <2>6, <2>7 DEF OnlyUart
  <2> QED BY <1>1, <1>3, <1>7, <1>9, <1>13, <2>8, HaltKeeps
<1> QED BY <1>9, <1>11, <1>12, <1>13

-----------------------------------------------------------------------------
(* switch.s.                                                                *)

LEMMA HoldsMore ==
  ASSUME NEW a \in Seq(Word), NEW b \in Seq(Word), NEW n \in Nat, NEW rs, HoldsRegs(a, n, rs),
         NEW m \in Nat, m = n + 15, Len(b) >= m, \A i \in 1..m : b[i] = a[i]
  PROVE  HoldsRegs(b, n, rs)
<1>1. \A i \in 1..15 : a[n + i] = SavedReg(rs[push_all[i]])
  BY Orders DEF HoldsRegs
<1>2. \A i \in 1..15 : n + i \in 1..m
  OBVIOUS
<1>3. \A i \in 1..15 : b[n + i] = SavedReg(rs[push_all[i]])
  BY <1>1, <1>2
<1> QED BY <1>3, Orders DEF HoldsRegs

LEMMA OneWord ==
  ASSUME NEW S, NEW w \in S, NEW s, s = <<w>>
  PROVE  s \in Seq(S) /\ Len(s) = 1 /\ s[1] = w /\ Last(s) = w /\ Front(s) = << >>
<1>1. s \in Seq(S)
  OBVIOUS
<1>2. Len(s) = 1 /\ s[1] = w
  OBVIOUS
<1>3. Last(s) = w
  BY <1>2 DEF Last
<1>4. Front(s) = << >>
  <2>1. Front(s) = SubSeq(s, 1, 0)
    BY <1>2 DEF Front
  <2> QED BY <1>1, <2>1, CutNothing
<1> QED BY <1>1, <1>2, <1>3, <1>4

\* The thread that goes: what it leaves on its stack.
Mine == Append(Words, Flags(interrupts))

LEMMA Leaving ==
  ASSUME MachineInv, NEW l,
         \/ pc[cur] = "task_hook" /\ l = "irq_end"
         \/ pc[cur] = "kernel" /\ l = "asleep"
         \/ pc[cur] = "service" /\ l = "dead"
  PROVE  /\ Mine \in Seq(Word) /\ Len(Mine) <= 20
         /\ l = "asleep" => Mine = <<Flags(TRUE)>> /\ Len(Mine) = 1
         /\ l = "irq_end" =>
              /\ Len(Mine) = 17 /\ OwnFrame(Mine[1]) /\ HoldsRegs(Mine, 1, Own(cur))
              /\ Mine[17] = Flags(FALSE)
         /\ ring = 0 /\ cs = 8 /\ ss \in {0, 16} /\ on_user = FALSE
         /\ io.pic1.expects = "mask" /\ io.pic1.isr = {}
<1>1. Words \in Seq(Word) /\ cur \in Thread /\ rsp0[cur] \in Nat /\ rsp0[cur] <= 17
  BY DEF MachineInv, TypeInv, Words, RunOK, DeepestUser
<1>2. io.pic1.expects = "mask" /\ io.pic1.isr = {}
  BY DEF MachineInv, DevicesOK, ServedAt
<1>3. PICK w : w = Flags(interrupts)
  OBVIOUS
<1>4. Mine = Append(Words, w)
  BY <1>3 DEF Mine
<1>5. CASE pc[cur] = "task_hook" /\ l = "irq_end"
  <2>1. ring = 0 /\ cs = 8 /\ ss \in {0, 16} /\ interrupts = FALSE
    BY <1>5 DEF MachineInv, RunOK, KernelOK, InKernel, Entered
  <2>2. /\ OwnFrame(Words[1]) /\ on_user = FALSE /\ Len(Words) = 16
        /\ HoldsRegs(Words, 1, Own(cur))
    BY <1>5 DEF MachineInv, RunOK, EnteredOK, Entered, Depth
  <2>3. w \in Word /\ w = Flags(FALSE)
    BY <1>3, <2>1, WordIs
  <2>4. /\ Mine \in Seq(Word) /\ Len(Mine) = Len(Words) + 1 /\ Mine[Len(Words) + 1] = w
        /\ \A i \in 1..Len(Words) : Mine[i] = Words[i]
    <3>1. Words \in Seq(Word) /\ w \in Word
      BY <1>1, <2>3
    <3>2. Mine \in Seq(Word) /\ Len(Mine) = Len(Words) + 1
      BY <3>1, <1>4, Appended
    <3>3. Mine[Len(Words) + 1] = w
      BY <3>1, <1>4, Appended
    <3>4. \A i \in 1..Len(Words) : Mine[i] = Words[i]
      BY <3>1, <1>4, Appended
    <3> QED BY <3>2, <3>3, <3>4
  <2>5. Len(Mine) = 17 /\ Mine[17] = w /\ \A i \in 1..16 : Mine[i] = Words[i]
    BY <2>2, <2>4
  <2>6. 1 \in Nat /\ 16 \in Nat /\ 16 = 1 + 15 /\ Len(Mine) >= 16
    BY <2>5
  <2>7. HoldsRegs(Mine, 1, Own(cur))
    BY <1>1, <2>2, <2>4, <2>5, <2>6, HoldsMore
  <2>8. OwnFrame(Mine[1])
    BY <2>2, <2>5
  <2>9. Len(Mine) <= 20 /\ l # "asleep"
    BY <1>5, <2>5
  <2> QED BY <1>2, <2>1, <2>2, <2>3, <2>4, <2>5, <2>7, <2>8, <2>9
<1>6. CASE pc[cur] = "kernel" /\ l = "asleep"
  <2>1. OwnFrame(Frame) /\ on_user = (ring = 3) /\ Words = << >>
    BY <1>6 DEF MachineInv, RunOK, OwnOK, OwnCode
  <2>2. ring = 0 /\ cs = 8 /\ ss \in {0, 16} /\ interrupts = TRUE
    BY <1>6, <2>1 DEF OwnFrame, Frame
  <2>3. w \in Word /\ w = Flags(TRUE)
    BY <1>3, <2>2, WordIs
  <2>4. Mine = <<w>>
    BY <1>4, <2>1
  <2>5. Mine \in Seq(Word) /\ Len(Mine) = 1
    BY <2>3, <2>4, OneWord
  <2>6. Mine = <<Flags(TRUE)>>
    BY <2>3, <2>4
  <2>7. Mine \in Seq(Word) /\ Len(Mine) <= 20
    BY <2>5
  <2>8. on_user = FALSE
    <3>1. (ring = 3) = FALSE
      BY <2>2
    <3> QED BY <2>1, <3>1
  <2>9. l = "asleep" => Mine = <<Flags(TRUE)>> /\ Len(Mine) = 1
    BY <2>5, <2>6, Zenon
  <2>10. l = "irq_end" =>
           /\ Len(Mine) = 17 /\ OwnFrame(Mine[1]) /\ HoldsRegs(Mine, 1, Own(cur))
           /\ Mine[17] = Flags(FALSE)
    BY <1>6
  <2>11. ring = 0 /\ cs = 8 /\ ss \in {0, 16}
    BY <2>2
  <2> QED BY <1>2, <2>7, <2>8, <2>9, <2>10, <2>11, Zenon
<1>7. CASE pc[cur] = "service" /\ l = "dead"
  <2>1. ring = 0 /\ cs = 8 /\ ss \in {0, 16} /\ interrupts = FALSE
    BY <1>7 DEF MachineInv, RunOK, KernelOK, InKernel, InCall
  <2>2. on_user = FALSE /\ Len(Words) = rsp0[cur] + 2
    BY <1>7 DEF MachineInv, RunOK, CallOK, InCall
  <2>3. w \in Word
    BY <1>3, <2>1, WordIs
  <2>4. Mine \in Seq(Word) /\ Len(Mine) = Len(Words) + 1
    BY <1>1, <1>4, <2>3, Appended
  <2> QED BY <1>1, <1>2, <1>7, <2>1, <2>2, <2>4
<1> QED BY <1>5, <1>6, <1>7

\* The thread that comes: what it finds on its stack.
Theirs(next) == SubSeq(stack[next], 1, rsp0[next])

LEMMA Coming ==
  ASSUME MachineInv, NEW next \in Runnable
  PROVE  /\ next \in Thread /\ next # cur /\ next # Main /\ rsp0[next] <= DeepestUser
         /\ pc[next] \in {"start", "irq_end", "asleep"}
         /\ Front(Theirs(next)) \in Seq(Word)
         /\ Last(Theirs(next)) = IF pc[next] = "irq_end" THEN Flags(FALSE) ELSE Flags(TRUE)
         /\ pc[next] \in {"start", "asleep"} => Front(Theirs(next)) = << >>
         /\ pc[next] = "irq_end" =>
              /\ Len(Front(Theirs(next))) = 16 /\ OwnFrame(Front(Theirs(next))[1])
              /\ HoldsRegs(Front(Theirs(next)), 1, Own(next))
<1>1. next \in Thread /\ next # cur /\ next # Main /\ pc[next] \in {"start", "irq_end", "asleep"}
  BY DEF Runnable
<1>2. PICK words : words = stack[next]
  OBVIOUS
<1>3. words \in Seq(Word)
  BY <1>1, <1>2 DEF MachineInv, TypeInv
<1>4. CASE pc[next] \in {"start", "asleep"}
  <2>1. words = <<Flags(TRUE)>> /\ rsp0[next] = 1
    BY <1>1, <1>2, <1>4 DEF MachineInv, WaitOK
  <2>2. PICK w : w = Flags(TRUE)
    OBVIOUS
  <2>3. w \in Word
    BY <2>2, WordIs
  <2>4. words = <<w>>
    BY <2>1, <2>2
  <2>5. Len(words) = 1 /\ Last(words) = w /\ Front(words) = << >>
    BY <2>3, <2>4, OneWord
  <2>6. Theirs(next) = SubSeq(words, 1, Len(words))
    BY <1>2, <2>1, <2>5 DEF Theirs
  <2>7. Theirs(next) = words
    BY <1>3, <2>6, CutNothing
  <2>8. Last(Theirs(next)) = Flags(TRUE) /\ Front(Theirs(next)) = << >>
    BY <2>2, <2>5, <2>7
  <2>9. Front(Theirs(next)) \in Seq(Word)
    BY <2>8
  <2>10. pc[next] # "irq_end" /\ rsp0[next] <= DeepestUser
    BY <1>4, <2>1 DEF DeepestUser
  <2> QED BY <1>1, <2>8, <2>9, <2>10
<1>5. CASE pc[next] = "irq_end"
  <2>1. Preempted(next)
    BY <1>1, <1>5 DEF MachineInv, WaitOK
  <2>2. /\ Len(words) = 17 /\ rsp0[next] = 17 /\ OwnFrame(words[1])
        /\ HoldsRegs(words, 1, Own(next)) /\ words[17] = Flags(FALSE)
    BY <1>2, <2>1 DEF Preempted
  <2>3. Theirs(next) = SubSeq(words, 1, Len(words))
    BY <1>2, <2>2 DEF Theirs
  <2>4. Theirs(next) = words
    BY <1>3, <2>3, CutNothing
  <2>5. Last(Theirs(next)) = Flags(FALSE)
    BY <2>2, <2>4 DEF Last
  <2>6. PICK rest : rest = Front(Theirs(next))
    OBVIOUS
  <2>7. rest = SubSeq(words, 1, 16)
    BY <2>2, <2>4, <2>6 DEF Front
  <2>8. rest \in Seq(Word) /\ Len(rest) = 16 /\ \A i \in 1..16 : rest[i] = words[i]
    <3>1. PICK n : n = 16
      OBVIOUS
    <3>2. n \in 0..Len(words)
      BY <2>2, <3>1
    <3>3. rest = SubSeq(words, 1, n)
      BY <2>7, <3>1
    <3>4. rest \in Seq(Word) /\ Len(rest) = n /\ \A i \in 1..n : rest[i] = words[i]
      BY <1>3, <3>2, <3>3, Cut
    <3> QED BY <3>1, <3>4
  <2>9. HoldsRegs(rest, 1, Own(next))
    <3>1. 1 \in Nat /\ 16 \in Nat /\ 16 = 1 + 15 /\ Len(rest) >= 16
      BY <2>8
    <3> QED BY <1>3, <2>2, <2>8, <3>1, HoldsMore
  <2>10. OwnFrame(rest[1])
    BY <2>2, <2>8
  <2>11. rsp0[next] <= DeepestUser
    BY <2>2 DEF DeepestUser
  <2> QED BY <1>1, <1>5, <2>5, <2>6, <2>8, <2>9, <2>10, <2>11
<1> QED BY <1>1, <1>4, <1>5

\* switch_to_task: the words that the next thread left are there for it, and
\* those of this one stay for its return.
LEMMA SwitchIs ==
  ASSUME MachineInv, NEW next \in Runnable, NEW l,
         \/ pc[cur] = "task_hook" /\ l = "irq_end"
         \/ pc[cur] = "kernel" /\ l = "asleep"
         \/ pc[cur] = "service" /\ l = "dead",
         SwitchTo(next, l)
  PROVE  /\ cur' = next
         /\ pc'[next] = CASE pc[next] = "start"  -> "kernel"
                          [] pc[next] = "asleep" -> "loading"
                          [] OTHER               -> pc[next]
         /\ pc'[cur] = l /\ \A t \in Thread \ {cur, next} : pc'[t] = pc[t]
         /\ stack'[next] = Front(Theirs(next)) /\ stack'[cur] = Mine
         /\ \A t \in Thread \ {cur, next} : stack'[t] = stack[t]
         /\ stack' \in [Thread -> Seq(Word)]
         /\ rsp0'[cur] = Len(Mine) /\ \A t \in Thread \ {cur} : rsp0'[t] = rsp0[t]
         /\ rsp0' \in [Thread -> Nat]
         /\ pc[next] # "start" => tss_rsp0' = next
         /\ interrupts' = (pc[next] # "irq_end")
         /\ UNCHANGED <<ring, cs, ss, regs, on_user, setup, nr>>
<1>1. Mine \in Seq(Word) /\ Len(Mine) <= 20
  BY Leaving
<1>2. /\ next \in Thread /\ next # cur
      /\ Front(Theirs(next)) \in Seq(Word)
      /\ Last(Theirs(next)) = IF pc[next] = "irq_end" THEN Flags(FALSE) ELSE Flags(TRUE)
  BY Coming
<1>3. Last(Theirs(next)).is = "flags" /\ Last(Theirs(next)).value = (pc[next] # "irq_end")
  <2>1. CASE pc[next] = "irq_end"
    <3>1. Last(Theirs(next)) = Flags(FALSE) /\ (pc[next] # "irq_end") = FALSE
      BY <1>2, <2>1
    <3>2. Last(Theirs(next)).is = "flags" /\ Last(Theirs(next)).value = FALSE
      BY <3>1 DEF Flags
    <3> QED BY <3>1, <3>2
  <2>2. CASE pc[next] # "irq_end"
    <3>1. Last(Theirs(next)) = Flags(TRUE) /\ (pc[next] # "irq_end") = TRUE
      BY <1>2, <2>2
    <3>2. Last(Theirs(next)).is = "flags" /\ Last(Theirs(next)).value = TRUE
      BY <3>1 DEF Flags
    <3> QED BY <3>1, <3>2
  <2> QED BY <2>1, <2>2
<1>4. Len(Mine) \in Nat
  BY <1>1, LenProperties
<1>5. ~(Len(Mine) > StackWords \/ Last(Theirs(next)).is # "flags")
  BY <1>1, <1>3, <1>4, InterruptsAssumption DEF InterruptsAssumption
<1>6. /\ cur' = next
      /\ pc' = [pc EXCEPT ![cur] = l,
                          ![next] = CASE @ = "start"  -> "kernel"
                                      [] @ = "asleep" -> "loading"
                                      [] OTHER        -> @]
      /\ stack' = [stack EXCEPT ![cur] = Mine, ![next] = Front(Theirs(next))]
      /\ rsp0' = [rsp0 EXCEPT ![cur] = Len(Mine)]
      /\ tss_rsp0' = (IF pc[next] = "start" THEN tss_rsp0 ELSE next)
      /\ interrupts' = (Last(Theirs(next)).value \/ pc[next] # "irq_end")
      /\ UNCHANGED <<ring, cs, ss, regs, on_user, setup, nr>>
  BY <1>5 DEF SwitchTo, Mine, Theirs
<1>7. interrupts' = (pc[next] # "irq_end")
  BY <1>3, <1>6
<1>8. cur \in Thread /\ pc \in [Thread -> OwnCode \cup InKernel \cup Waiting]
      /\ stack \in [Thread -> Seq(Word)] /\ rsp0 \in [Thread -> Nat]
  BY DEF MachineInv, TypeInv
<1>9. /\ pc'[next] = CASE pc[next] = "start"  -> "kernel"
                       [] pc[next] = "asleep" -> "loading"
                       [] OTHER               -> pc[next]
      /\ pc'[cur] = l /\ \A t \in Thread \ {cur, next} : pc'[t] = pc[t]
  BY <1>2, <1>6, <1>8
<1>10. stack' \in [Thread -> Seq(Word)]
  BY <1>1, <1>2, <1>6, <1>8
<1>11. /\ stack'[next] = Front(Theirs(next)) /\ stack'[cur] = Mine
       /\ \A t \in Thread \ {cur, next} : stack'[t] = stack[t]
  BY <1>2, <1>6, <1>8
<1>12. /\ rsp0'[cur] = Len(Mine) /\ \A t \in Thread \ {cur} : rsp0'[t] = rsp0[t]
       /\ rsp0' \in [Thread -> Nat]
  BY <1>4, <1>6, <1>8
<1>13. pc[next] # "start" => tss_rsp0' = next
  BY <1>6
<1> QED BY <1>6, <1>7, <1>9, <1>10, <1>11, <1>12, <1>13

LEMMA SwitchKeeps ==
  ASSUME MachineInv, NEW next \in Runnable, NEW l,
         \/ pc[cur] = "task_hook" /\ l = "irq_end"
         \/ pc[cur] = "kernel" /\ l = "asleep"
         \/ pc[cur] = "service" /\ l = "dead",
         SwitchTo(next, l), io' = io
  PROVE  MachineInv'
<1>1. /\ cur' = next
      /\ pc'[next] = CASE pc[next] = "start"  -> "kernel"
                       [] pc[next] = "asleep" -> "loading"
                       [] OTHER               -> pc[next]
      /\ pc'[cur] = l /\ \A t \in Thread \ {cur, next} : pc'[t] = pc[t]
      /\ stack'[next] = Front(Theirs(next)) /\ stack'[cur] = Mine
      /\ \A t \in Thread \ {cur, next} : stack'[t] = stack[t]
      /\ stack' \in [Thread -> Seq(Word)]
      /\ rsp0'[cur] = Len(Mine) /\ \A t \in Thread \ {cur} : rsp0'[t] = rsp0[t]
      /\ rsp0' \in [Thread -> Nat]
      /\ pc[next] # "start" => tss_rsp0' = next
      /\ interrupts' = (pc[next] # "irq_end")
      /\ UNCHANGED <<ring, cs, ss, regs, on_user, setup, nr>>
  BY SwitchIs
<1>2. /\ l = "asleep" => Mine = <<Flags(TRUE)>> /\ Len(Mine) = 1
      /\ l = "irq_end" =>
           /\ Len(Mine) = 17 /\ OwnFrame(Mine[1]) /\ HoldsRegs(Mine, 1, Own(cur))
           /\ Mine[17] = Flags(FALSE)
      /\ ring = 0 /\ cs = 8 /\ ss \in {0, 16} /\ on_user = FALSE
      /\ io.pic1.expects = "mask" /\ io.pic1.isr = {}
  BY Leaving
<1>3. /\ next \in Thread /\ next # cur /\ next # Main /\ rsp0[next] <= DeepestUser
      /\ pc[next] \in {"start", "irq_end", "asleep"}
      /\ pc[next] \in {"start", "asleep"} => Front(Theirs(next)) = << >>
      /\ pc[next] = "irq_end" =>
           /\ Len(Front(Theirs(next))) = 16 /\ OwnFrame(Front(Theirs(next))[1])
           /\ HoldsRegs(Front(Theirs(next)), 1, Own(next))
  BY Coming
<1>4. TypeInv /\ cur \in Thread /\ l \in Waiting /\ pc[cur] # "boot" /\ l # "boot"
  BY DEF MachineInv, TypeInv, Waiting
<1>5. TypeInv'
  <2>1. pc'[next] \in OwnCode \cup InKernel
    BY <1>1, <1>3 DEF OwnCode, InKernel, Entered
  <2>2. \A t \in Thread : pc'[t] \in OwnCode \cup InKernel \cup Waiting
    BY <1>1, <1>3, <1>4, <2>1 DEF TypeInv
  <2>3. \E f : pc' = [t \in Thread |-> f[t]]
    <3>1. DOMAIN pc' = Thread /\ pc' = [t \in DOMAIN pc' |-> pc'[t]]
      BY <1>4 DEF SwitchTo, Wild, Goto, TypeInv
    <3> QED BY <3>1
  <2>4. pc' \in [Thread -> OwnCode \cup InKernel \cup Waiting]
    BY <2>2, <2>3
  <2> QED BY <1>1, <1>3, <1>4, <2>4 DEF TypeInv
<1>6. WaitOK'
  <2> SUFFICES ASSUME NEW t \in Thread \ {next}
               PROVE  /\ pc'[t] \in Waiting
                      /\ pc'[t] = "unborn" => stack'[t] = << >>
                      /\ pc'[t] \in {"start", "asleep"} =>
                           stack'[t] = <<Flags(TRUE)>> /\ rsp0'[t] = 1
                      /\ pc'[t] = "irq_end" => Preempted(t)'
    BY <1>1 DEF WaitOK
  <2>1. CASE t = cur
    <3>1. pc'[t] = l /\ stack'[t] = Mine /\ rsp0'[t] = Len(Mine)
      BY <1>1, <2>1
    <3>2. l \in {"asleep", "irq_end", "dead"}
      OBVIOUS
    <3>3. l = "irq_end" => Preempted(t)'
      BY <1>2, <2>1, <3>1 DEF Preempted
    <3>4. l = "asleep" => stack'[t] = <<Flags(TRUE)>> /\ rsp0'[t] = 1
      BY <1>2, <3>1, Zenon
    <3> QED BY <1>4, <3>1, <3>2, <3>3, <3>4
  <2>2. CASE t # cur
    <3>1. pc'[t] = pc[t] /\ stack'[t] = stack[t] /\ rsp0'[t] = rsp0[t]
      BY <1>1, <2>2
    <3>2. /\ pc[t] \in Waiting
          /\ pc[t] = "unborn" => stack[t] = << >>
          /\ pc[t] \in {"start", "asleep"} => stack[t] = <<Flags(TRUE)>> /\ rsp0[t] = 1
          /\ pc[t] = "irq_end" => Preempted(t)
      BY <2>2 DEF MachineInv, WaitOK
    <3>3. Preempted(t) => Preempted(t)'
      BY <3>1 DEF Preempted
    <3> QED BY <3>1, <3>2, <3>3, Zenon
  <2> QED BY <2>1, <2>2
<1>7. BootOK'
  <2>1. Booted
    BY <1>4, Running
  <2>2. Main \in Thread /\ pc'[Main] # "boot"
    BY <1>1, <1>3, <1>4, <2>1 DEF Thread, Booted
  <2>3. step' = step /\ idt' = idt /\ msr' = msr
    BY <1>1 DEF setup
  <2> QED BY <2>1, <2>2, <2>3 DEF Booted, BootOK, TicksAreMilliseconds, NmiMasked
<1>8. IsDevices(io') /\ io'.pic1.expects = "mask" /\ io'.pic1.isr = {}
  BY <1>2 DEF MachineInv, DevicesOK
<1>9. rsp0'[cur'] <= DeepestUser
  BY <1>1, <1>3
<1>10. CASE pc[next] = "irq_end"
  <2>1. pc'[cur'] = "irq_end" /\ interrupts' = FALSE /\ tss_rsp0' = cur'
    BY <1>1, <1>10
  <2>2. "irq_end" \in Entered \ InStub /\ Depth["irq_end"] = 16 /\ ServedAt("irq_end") = {}
    BY DEF Entered, InStub, Depth, ServedAt
  <2>3. RunOK' /\ DevicesOK'
    BY <1>1, <1>2, <1>3, <1>8, <1>9, <1>10, <2>1, <2>2, InEntered
  <2> QED BY <1>5, <1>6, <1>7, <2>3 DEF MachineInv
<1>11. CASE pc[next] \in {"start", "asleep"}
  <2>1. /\ pc'[cur'] \in {"kernel", "loading"} /\ interrupts' = TRUE
        /\ pc'[cur'] = "loading" => tss_rsp0' = cur'
    BY <1>1, <1>11
  <2>2. ring' = 0 /\ cs' = 8 /\ ss' \in {0, 16} /\ on_user' = FALSE
    BY <1>1, <1>2
  <2>3. OwnFrame(Frame')
    BY <2>1, <2>2 DEF OwnFrame, Frame, Word, OwnCode
  <2>4. on_user' = (ring' = 3)
    <3>1. (ring' = 3) = FALSE
      BY <2>2
    <3> QED BY <2>2, <3>1
  <2>5. stack'[cur'] = << >> /\ pc'[cur'] # "user" /\ pc'[cur'] \in OwnCode
    BY <1>1, <1>3, <1>11, <2>1 DEF OwnCode
  <2>6. RunOK' /\ DevicesOK'
    BY <1>8, <1>9, <2>1, <2>3, <2>4, <2>5, InOwnCode
  <2> QED BY <1>5, <1>6, <1>7, <2>6 DEF MachineInv
<1> QED BY <1>3, <1>10, <1>11

\* task_hook_in_timer_handler, with or without a change of threads.
LEMMA TimerHookKeeps ==
  ASSUME MachineInv, TimerHook
  PROVE  MachineInv'
<1>1. pc[cur] = "task_hook" /\ io' = io
  BY DEF TimerHook, At
<1>2. CASE \E next \in Runnable : SwitchTo(next, "irq_end")
  BY <1>1, <1>2, SwitchKeeps
<1>3. CASE Goto("irq_end") /\ UNCHANGED <<cur, cpu, stacks, setup, nr, raised>>
  <2>1. PICK words : words = Words
    OBVIOUS
  <2>2. /\ cur \in Thread /\ words \in Seq(Word) /\ stack \in [Thread -> Seq(Word)]
        /\ rsp0 \in [Thread -> Nat] /\ rsp0[cur] <= DeepestUser /\ nr \in Nat
        /\ OwnFrame(words[1]) /\ OwnStackFor(words[1].at) /\ on_user = FALSE
        /\ Len(words) = 16 /\ HoldsRegs(words, 1, Own(cur))
        /\ ring = 0 /\ cs = 8 /\ ss \in {0, 16} /\ interrupts = FALSE
        /\ io.pic1.expects = "mask" /\ io.pic1.isr = {}
    <3>1. pc[cur] \in Entered \ InStub /\ pc[cur] \in InKernel /\ ServedAt(pc[cur]) = {}
          /\ Depth[pc[cur]] = 16
      BY <1>1 DEF Entered, InStub, InKernel, ServedAt, Depth
    <3>2. /\ OwnFrame(words[1]) /\ OwnStackFor(words[1].at) /\ on_user = FALSE
          /\ Len(words) = 16 /\ HoldsRegs(words, 1, Own(cur)) /\ rsp0[cur] <= DeepestUser
      BY <1>1, <2>1, <3>1 DEF MachineInv, RunOK, EnteredOK
    <3>3. ring = 0 /\ cs = 8 /\ ss \in {0, 16} /\ interrupts = FALSE
      BY <3>1 DEF MachineInv, RunOK, KernelOK
    <3>4. io.pic1.expects = "mask" /\ io.pic1.isr = {}
      BY <3>1 DEF MachineInv, DevicesOK
    <3>5. /\ cur \in Thread /\ words \in Seq(Word) /\ stack \in [Thread -> Seq(Word)]
          /\ rsp0 \in [Thread -> Nat] /\ nr \in Nat
      BY <2>1 DEF MachineInv, TypeInv, Words
    <3> QED BY <3>2, <3>3, <3>4, <3>5
  <2>3. /\ UNCHANGED <<cur, ring, interrupts, cs, ss, regs, on_user, stack, rsp0, tss_rsp0,
                       setup, nr>>
    BY <1>3 DEF cpu, stacks
  <2>4. IoKept
    BY <1>1, SameDevices
  <2>5. Stack(words)
    BY <2>1, <2>2, <2>3 DEF Stack, Words
  <2>6. rsp0' = [rsp0 EXCEPT ![cur] = rsp0[cur]] /\ nr' \in Nat /\ rsp0[cur] \in Nat
    BY <2>2, <2>3
  <2>7. "irq_end" \in OwnCode \cup InKernel /\ "irq_end" \in Entered \ InStub
        /\ Depth["irq_end"] = 16 /\ ServedAt("irq_end") = {}
    BY DEF InKernel, Entered, InStub, Depth, ServedAt
  <2>8. /\ TypeInv' /\ WaitOK' /\ BootOK'
        /\ pc'[cur'] = "irq_end" /\ stack'[cur'] = words /\ rsp0'[cur'] = rsp0[cur]
    BY <1>1, <1>3, <2>2, <2>3, <2>4, <2>5, <2>6, <2>7, LocalStep
  <2>9. RunOK' /\ DevicesOK'
    BY <1>1, <2>2, <2>3, <2>4, <2>7, <2>8, InEntered DEF OwnStackFor, IoKept
  <2> QED BY <2>8, <2>9 DEF MachineInv
<1> QED BY <1>1, <1>2, <1>3 DEF TimerHook

LEMMA SleepKeeps ==
  ASSUME MachineInv, Sleep
  PROVE  MachineInv'
BY SwitchKeeps DEF Sleep, At

-----------------------------------------------------------------------------
(* Ring 3 and system calls.                                                 *)

\* What is left to show of a thread that is in a system call.
LEMMA InSystemCall ==
  ASSUME pc'[cur'] \in InCall \cup {"do_syscall"}, rsp0'[cur'] <= DeepestUser,
         ring' = 0, cs' = 8, ss' \in {0, 16}, interrupts' = FALSE, tss_rsp0' = cur',
         pc'[cur'] = "do_syscall" =>
           Len(stack'[cur']) <= DeepestUser /\ regs' = Lose(Own(cur'), Clobbered),
         pc'[cur'] \in InCall =>
           /\ Len(stack'[cur']) = rsp0'[cur'] + 2 /\ on_user' = FALSE
           /\ stack'[cur'][Len(stack'[cur'])].is = "number"
           /\ stack'[cur'][Len(stack'[cur']) - 1] = Flags(TRUE)
           /\ \A r \in Reg \ Lost["sysret"] : regs'[r] = <<cur', r>>,
         IsDevices(io'), io'.pic1.expects = "mask", io'.pic1.isr = {}
  PROVE  RunOK' /\ DevicesOK'
<1>1. /\ pc'[cur'] \in InKernel /\ pc'[cur'] \notin OwnCode /\ pc'[cur'] \notin Entered
      /\ pc'[cur'] # "boot" /\ ServedAt(pc'[cur']) = {}
      /\ pc'[cur'] = "do_syscall" => pc'[cur'] \notin InCall
  BY DEF InKernel, InCall, Entered, InStub, OwnCode, ServedAt
<1>2. CallOK'
  BY <1>1 DEF CallOK, Words
<1>3. OwnOK' /\ KernelOK' /\ EnteredOK'
  BY <1>1 DEF OwnOK, KernelOK, EnteredOK
<1>4. DevicesOK'
  BY <1>1 DEF DevicesOK
<1> QED BY <1>1, <1>2, <1>3, <1>4 DEF RunOK

\* What is left to show of a thread that goes on in user code.
LEMMA InUserCode ==
  ASSUME pc'[cur'] = "user", rsp0'[cur'] <= DeepestUser, Len(stack'[cur']) <= DeepestUser,
         ring' = 3, cs' = 43, ss' = 35, interrupts' = TRUE, on_user' = TRUE, tss_rsp0' = cur',
         IsDevices(io'), io'.pic1.expects = "mask", io'.pic1.isr = {}
  PROVE  RunOK' /\ DevicesOK'
<1>1. pc'[cur'] \in OwnCode
  BY DEF OwnCode
<1>2. OwnFrame(Frame')
  BY <1>1 DEF OwnFrame, Frame, Word
<1>3. on_user' = (ring' = 3)
  <2>1. (ring' = 3) = TRUE
    OBVIOUS
  <2> QED BY <2>1
<1> QED BY <1>1, <1>2, <1>3, InOwnCode

\* cpu.s: get_to_ring3.
LEMMA GetToRing3Keeps ==
  ASSUME MachineInv, GetToRing3
  PROVE  MachineInv'
<1>1. /\ pc[cur] = "loading" /\ cur \in Thread /\ stack \in [Thread -> Seq(Word)]
      /\ nr \in Nat /\ stack[cur] \in Seq(Word)
  BY DEF GetToRing3, At, MachineInv, TypeInv
<1>2. stack[cur] = << >> /\ tss_rsp0 = cur /\ io.pic1.expects = "mask" /\ io.pic1.isr = {}
  BY <1>1 DEF MachineInv, RunOK, OwnOK, OwnCode, OwnStackFor, Words, DevicesOK, ServedAt
<1>3. PICK words, n : words = stack[cur] /\ n = Len(words)
  OBVIOUS
<1>4. n = 0 /\ n \in Nat
  BY <1>2, <1>3
<1>5. /\ rsp0' = [rsp0 EXCEPT ![cur] = n] /\ Goto("user")
      /\ ring' = 3 /\ cs' = 43 /\ ss' = 35 /\ interrupts' = TRUE /\ on_user' = TRUE
      /\ UNCHANGED <<cur, stack, tss_rsp0, io, setup, nr>>
  BY <1>3 DEF GetToRing3, Sysretq, Words
<1>6. Stack(words)
  BY <1>1, <1>3, <1>5 DEF Stack
<1>7. IoKept /\ "user" \in OwnCode
  BY <1>5, SameDevices DEF OwnCode
<1>8. /\ TypeInv' /\ WaitOK' /\ BootOK'
      /\ pc'[cur'] = "user" /\ stack'[cur'] = words /\ rsp0'[cur'] = n
  BY <1>1, <1>3, <1>4, <1>5, <1>6, <1>7, LocalStep
<1>9. rsp0'[cur'] <= DeepestUser /\ Len(stack'[cur']) <= DeepestUser
  <2>1. n <= DeepestUser
    BY <1>4 DEF DeepestUser
  <2>2. rsp0'[cur'] = n /\ Len(stack'[cur']) = n
    BY <1>3, <1>8
  <2> QED BY <2>1, <2>2
<1>10. RunOK' /\ DevicesOK'
  BY <1>2, <1>5, <1>7, <1>8, <1>9, InUserCode DEF IoKept
<1> QED BY <1>8, <1>10 DEF MachineInv

\* What a thread in user code has, and in a system call.
LEMMA AtUser ==
  ASSUME MachineInv, pc[cur] = "user"
  PROVE  /\ Booted /\ Len(Words) <= DeepestUser /\ tss_rsp0 = cur
         /\ io.pic1.expects = "mask" /\ io.pic1.isr = {}
BY Running DEF MachineInv, RunOK, OwnOK, OwnCode, OwnStackFor, DevicesOK, ServedAt

LEMMA AtCall ==
  ASSUME MachineInv, pc[cur] \in InCall \cup {"do_syscall"}
  PROVE  /\ Booted /\ ring = 0 /\ cs = 8 /\ ss \in {0, 16} /\ interrupts = FALSE
         /\ tss_rsp0 = cur /\ io.pic1.expects = "mask" /\ io.pic1.isr = {}
         /\ pc[cur] = "do_syscall" =>
              Len(Words) <= DeepestUser /\ regs = Lose(Own(cur), Clobbered)
         /\ pc[cur] \in InCall =>
              /\ Len(Words) = rsp0[cur] + 2 /\ on_user = FALSE
              /\ Words[Len(Words)].is = "number" /\ Words[Len(Words) - 1] = Flags(TRUE)
              /\ \A r \in Reg \ Lost["sysret"] : regs[r] = <<cur, r>>
<1>1. pc[cur] \in InKernel /\ pc[cur] # "boot" /\ ServedAt(pc[cur]) = {}
  BY DEF InKernel, InCall, ServedAt
<1>2. Booted
  BY <1>1, Running
<1>3. ring = 0 /\ cs = 8 /\ ss \in {0, 16} /\ interrupts = FALSE
  BY <1>1 DEF MachineInv, RunOK, KernelOK
<1>4. io.pic1.expects = "mask" /\ io.pic1.isr = {}
  BY <1>1 DEF MachineInv, DevicesOK
<1>5. CallOK
  BY DEF MachineInv, RunOK
<1> QED BY <1>2, <1>3, <1>4, <1>5 DEF CallOK

\* The numbers that a thread has.
LEMMA Typed ==
  ASSUME MachineInv
  PROVE  /\ cur \in Thread /\ Words \in Seq(Word) /\ rsp0[cur] \in Nat /\ rsp0[cur] <= DeepestUser
         /\ stack \in [Thread -> Seq(Word)] /\ rsp0 \in [Thread -> Nat] /\ nr \in Nat
         /\ rsp0 = [rsp0 EXCEPT ![cur] = rsp0[cur]] /\ stack = [stack EXCEPT ![cur] = Words]
         /\ IsDevices(io)
<1>1. /\ cur \in Thread /\ rsp0[cur] <= DeepestUser /\ IsDevices(io)
      /\ stack \in [Thread -> Seq(Word)] /\ rsp0 \in [Thread -> Nat] /\ nr \in Nat
  BY DEF MachineInv, TypeInv, RunOK, DevicesOK
<1>2. Words \in Seq(Word) /\ stack = [stack EXCEPT ![cur] = Words]
  BY <1>1 DEF Words
<1>3. rsp0[cur] \in Nat /\ rsp0 = [rsp0 EXCEPT ![cur] = rsp0[cur]]
  BY <1>1
<1> QED BY <1>1, <1>2, <1>3

\* The instruction syscall: the flags that it clears and the segments.
LEMMA SyscallKeeps ==
  ASSUME MachineInv, Syscall
  PROVE  MachineInv'
<1>1. pc[cur] = "user"
  BY DEF Syscall, At
<1>2. /\ Booted /\ Len(Words) <= DeepestUser /\ tss_rsp0 = cur
      /\ io.pic1.expects = "mask" /\ io.pic1.isr = {}
  BY <1>1, AtUser
<1>3. msr.cs = 8 /\ "IF" \in msr.cleared
  BY <1>2 DEF Booted, set_ring0_msr
<1>4. /\ cur' = cur /\ Goto("do_syscall") /\ nr' \in Nat /\ ring' = 0 /\ cs' = 8 /\ ss' = 16
      /\ interrupts' = FALSE /\ regs' = Lose(Own(cur), Clobbered)
      /\ UNCHANGED <<stack, rsp0, tss_rsp0, io, setup>>
  <2>1. nr' \in Nat
    BY DEF Syscall, LibcCalls
  <2>2. interrupts' = FALSE
    BY <1>3 DEF Syscall
  <2>3. cs' = 8 /\ ss' = 16
    BY <1>3 DEF Syscall
  <2> QED BY <2>1, <2>2, <2>3 DEF Syscall, stacks
<1>5. PICK words : words = Words
  OBVIOUS
<1>6. words \in Seq(Word) /\ Stack(words) /\ rsp0[cur] \in Nat /\ rsp0[cur] <= DeepestUser
      /\ rsp0' = [rsp0 EXCEPT ![cur] = rsp0[cur]]
  BY <1>4, <1>5, Typed DEF Stack
<1>7. IoKept /\ "do_syscall" \in OwnCode \cup InKernel
  BY <1>4, SameDevices DEF InKernel
<1>8. /\ TypeInv' /\ WaitOK' /\ BootOK'
      /\ pc'[cur'] = "do_syscall" /\ stack'[cur'] = words /\ rsp0'[cur'] = rsp0[cur]
  BY <1>1, <1>4, <1>6, <1>7, LocalStep
<1>9. "do_syscall" \notin InCall
  BY DEF InCall
<1>10. RunOK' /\ DevicesOK'
  BY <1>2, <1>4, <1>5, <1>6, <1>7, <1>8, <1>9, InSystemCall DEF IoKept
<1> QED BY <1>8, <1>10 DEF MachineInv

\* do_syscall.s: two words on top of what rsp0 leaves below.
CallWords(n, words, a, b) ==
  [i \in 1..n |-> IF i <= Len(words) THEN words[i] ELSE Stale] \o <<a, b>>

EndsWith(words, n, a, b) ==
  words \in Seq(Word) /\ Len(words) = n + 2 /\ words[n + 1] = a /\ words[n + 2] = b

LEMMA TwoWords ==
  ASSUME NEW n \in Nat, NEW words \in Seq(Word), NEW a \in Word, NEW b \in Word
  PROVE  EndsWith(CallWords(n, words, a, b), n, a, b)
<1>1. PICK new : new = CallWords(n, words, a, b)
  OBVIOUS
<1>2. PICK low : low = [i \in 1..n |-> IF i <= Len(words) THEN words[i] ELSE Stale]
  OBVIOUS
<1>3. low \in [1..n -> Word]
  <2>1. \A i \in 1..n : (IF i <= Len(words) THEN words[i] ELSE Stale) \in Word
    <3>1. \A i \in 1..n : i <= Len(words) => i \in 1..Len(words)
      OBVIOUS
    <3>2. \A i \in 1..Len(words) : words[i] \in Word
      BY ElementOfSeq
    <3> QED BY <3>1, <3>2, WordIs
  <2> QED BY <1>2, <2>1
<1>4. low \in Seq(Word) /\ Len(low) = n
  BY <1>3, FunctionIsSequence
<1>5. PICK top : top = <<a, b>>
  OBVIOUS
<1>6. top \in Seq(Word) /\ Len(top) = 2 /\ top[1] = a /\ top[2] = b
  BY <1>5
<1>7. new = low \o top
  BY <1>1, <1>2, <1>5, Zenon DEF CallWords
<1>8. /\ new \in Seq(Word) /\ Len(new) = Len(low) + Len(top)
      /\ \A i \in 1..Len(top) : new[Len(low) + i] = top[i]
  <2>1. top \in Seq(Word)
    BY <1>6
  <2>2. low \in Seq(Word)
    BY <1>4
  <2>3. new \in Seq(Word) /\ Len(new) = Len(low) + Len(top)
    BY <1>7, <2>1, <2>2, Joined
  <2>4. \A i \in 1..Len(top) : new[Len(low) + i] = top[i]
    BY <1>7, <2>1, <2>2, Joined
  <2> QED BY <2>3, <2>4
<1>9. EndsWith(new, n, a, b)
  BY <1>4, <1>6, <1>8 DEF EndsWith
<1> QED BY <1>1, <1>9

LEMMA DoSyscallKeeps ==
  ASSUME MachineInv, DoSyscall
  PROVE  MachineInv'
<1>1. pc[cur] = "do_syscall" /\ io' = io
  BY DEF DoSyscall, At
<1>2. /\ Booted /\ ring = 0 /\ cs = 8 /\ ss \in {0, 16} /\ interrupts = FALSE
      /\ tss_rsp0 = cur /\ io.pic1.expects = "mask" /\ io.pic1.isr = {}
      /\ Len(Words) <= DeepestUser /\ regs = Lose(Own(cur), Clobbered)
  BY <1>1, AtCall
<1>3. /\ cur \in Thread /\ Words \in Seq(Word) /\ rsp0[cur] \in Nat /\ rsp0[cur] <= DeepestUser
      /\ stack \in [Thread -> Seq(Word)] /\ nr \in Nat
      /\ rsp0 = [rsp0 EXCEPT ![cur] = rsp0[cur]]
  BY Typed
<1>4. PICK flags, address : flags = Flags(TRUE) /\ address = Number(Address.user)
  OBVIOUS
<1>5. flags \in Word /\ address \in Word /\ address.is = "number"
  <2>1. Address.user = 1048
    BY DEF Address
  <2>2. flags \in Word
    BY <1>4, WordIs
  <2>3. address = Number(1048)
    BY <1>4, <2>1
  <2>4. address \in Word
    BY <2>3, WordIs
  <2>5. address.is = "number"
    BY <2>3 DEF Number
  <2> QED BY <2>2, <2>4, <2>5
<1>6. PICK new : new = CallWords(rsp0[cur], Words, flags, address)
  OBVIOUS
<1>7. /\ new \in Seq(Word) /\ Len(new) = rsp0[cur] + 2
      /\ new[Len(new) - 1] = flags /\ new[Len(new)] = address
  <2>1. Words \in Seq(Word) /\ rsp0[cur] \in Nat /\ flags \in Word /\ address \in Word
    BY <1>3, <1>5
  <2>2. EndsWith(new, rsp0[cur], flags, address)
    BY <1>6, <2>1, TwoWords
  <2> QED BY <2>1, <2>2 DEF EndsWith
<1>8. ~(Len(new) > StackWords)
  BY <1>3, <1>7, InterruptsAssumption DEF InterruptsAssumption, DeepestUser
<1>9. /\ Stack(new) /\ Goto("service") /\ on_user' = FALSE
      /\ regs' = Lose(regs, {"rbx", "r12"})
      /\ UNCHANGED <<cur, ring, interrupts, cs, ss, rsp0, tss_rsp0, setup, nr>>
  BY <1>4, <1>6, <1>8 DEF DoSyscall, CallWords
<1>10. IoKept /\ "service" \in OwnCode \cup InKernel /\ "service" \in InCall
  BY <1>1, SameDevices DEF InKernel, InCall
<1>11. /\ TypeInv' /\ WaitOK' /\ BootOK'
       /\ pc'[cur'] = "service" /\ stack'[cur'] = new /\ rsp0'[cur'] = rsp0[cur]
  BY <1>1, <1>3, <1>7, <1>9, <1>10, LocalStep
<1>12. \A r \in Reg \ Lost["sysret"] : regs'[r] = <<cur', r>>
  BY <1>2, <1>9 DEF Lost, Lose, Own
<1>13. stack'[cur'][Len(stack'[cur'])].is = "number"
       /\ stack'[cur'][Len(stack'[cur']) - 1] = Flags(TRUE)
       /\ Len(stack'[cur']) = rsp0'[cur'] + 2
  <2>1. new[Len(new)].is = "number" /\ new[Len(new) - 1] = Flags(TRUE)
    BY <1>4, <1>5, <1>7
  <2> QED BY <1>7, <1>11, <2>1
<1>14. RunOK' /\ DevicesOK'
  BY <1>1, <1>2, <1>3, <1>9, <1>10, <1>11, <1>12, <1>13, InSystemCall DEF IoKept
<1> QED BY <1>11, <1>14 DEF MachineInv

\* What sys_putchar prints goes to the serial port only.
LEMMA UnheardStays ==
  ASSUME NEW d, IsDevices(d), NEW text
  PROVE  OnlyUart(d, Unheard(terminal_write(d, text)))
<1>1. PICK e : e = terminal_write(d, text)
  OBVIOUS
<1>2. OnlyUart(d, e) /\ IsDevices(e)
  BY <1>1, PrintStays DEF OnlyUart
<1>3. PICK port : port = [e.uart EXCEPT !.received = << >>]
  OBVIOUS
<1>4. PICK f : f = [e EXCEPT !.uart = port, !.serial_ready = e.serial_ready]
  OBVIOUS
<1>5. OnlyUart(e, f)
  BY <1>2, <1>4, UartChanges
<1>6. [e EXCEPT !.uart = port] = f
  BY <1>2, <1>4 DEF IsDevices
<1>7. Unheard(e) = [e EXCEPT !.uart = port]
  BY <1>3 DEF Unheard
<1> QED BY <1>1, <1>2, <1>5, <1>6, <1>7 DEF OnlyUart

\* A service returns to do_syscall, or the thread is gone.
LEMMA ServiceKeeps ==
  ASSUME MachineInv, Service
  PROVE  MachineInv'
<1>1. pc[cur] = "service" /\ pc[cur] \in InCall
  BY DEF Service, At, InCall
<1>2. /\ Booted /\ ring = 0 /\ cs = 8 /\ ss \in {0, 16} /\ interrupts = FALSE
      /\ tss_rsp0 = cur /\ io.pic1.expects = "mask" /\ io.pic1.isr = {}
      /\ Len(Words) = rsp0[cur] + 2 /\ on_user = FALSE
      /\ Words[Len(Words)].is = "number" /\ Words[Len(Words) - 1] = Flags(TRUE)
      /\ \A r \in Reg \ Lost["sysret"] : regs[r] = <<cur, r>>
  BY <1>1, AtCall
<1>3. PICK name : name = syscalls[nr + 1]
  OBVIOUS
<1>4. /\ io' = IF name = "sys_putchar" THEN Unheard(terminal_write(io, <<"c">>)) ELSE io
      /\ IF name = "sys_exit"
         THEN \E next \in Runnable : SwitchTo(next, "dead")
         ELSE /\ Goto("sysret") /\ regs' = Lose(regs, Clobbered)
              /\ UNCHANGED <<cur, ring, interrupts, cs, ss, on_user, stacks, setup, nr>>
  BY <1>3 DEF Service
<1>5. CASE name = "sys_exit"
  BY <1>1, <1>4, <1>5, SwitchKeeps
<1>6. CASE name # "sys_exit"
  <2>1. /\ Goto("sysret") /\ regs' = Lose(regs, Clobbered)
        /\ UNCHANGED <<cur, ring, interrupts, cs, ss, on_user, stack, rsp0, tss_rsp0, setup, nr>>
    BY <1>4, <1>6 DEF stacks
  <2>2. IsDevices(io)
    BY Typed
  <2>3. OnlyUart(io, io')
    <3>1. OnlyUart(io, io)
      BY <2>2 DEF OnlyUart
    <3>2. OnlyUart(io, Unheard(terminal_write(io, <<"c">>)))
      BY <2>2, UnheardStays
    <3> QED BY <1>4, <3>1, <3>2
  <2>4. IoKept /\ io'.pic1.expects = "mask" /\ io'.pic1.isr = {}
    BY <1>2, <2>3 DEF OnlyUart, IoKept
  <2>5. PICK words : words = Words
    OBVIOUS
  <2>6. words \in Seq(Word) /\ Stack(words) /\ rsp0[cur] \in Nat /\ rsp0[cur] <= DeepestUser
        /\ rsp0' = [rsp0 EXCEPT ![cur] = rsp0[cur]] /\ nr' \in Nat
    BY <2>1, <2>5, Typed DEF Stack
  <2>7. "sysret" \in OwnCode \cup InKernel /\ "sysret" \in InCall
    BY DEF InKernel, InCall
  <2>8. /\ TypeInv' /\ WaitOK' /\ BootOK'
        /\ pc'[cur'] = "sysret" /\ stack'[cur'] = words /\ rsp0'[cur'] = rsp0[cur]
    BY <1>1, <2>1, <2>4, <2>6, <2>7, LocalStep
  <2>9. \A r \in Reg \ Lost["sysret"] : regs'[r] = <<cur', r>>
    BY <1>2, <2>1 DEF Lost, Lose
  <2>10. RunOK' /\ DevicesOK'
    BY <1>2, <2>1, <2>4, <2>5, <2>6, <2>7, <2>8, <2>9, InSystemCall DEF IoKept
  <2> QED BY <2>8, <2>10 DEF MachineInv
<1> QED BY <1>5, <1>6

\* The end of do_syscall.
LEMMA SysReturnIs ==
  ASSUME MachineInv, SysReturn
  PROVE  MachineInv' /\ pc'[cur] \in OwnCode /\ cur' = cur /\ regs' = regs
         /\ \A r \in Reg \ Lost["sysret"] : regs[r] = <<cur, r>>
<1>1. pc[cur] = "sysret" /\ pc[cur] \in InCall /\ io' = io
  BY DEF SysReturn, At, InCall
<1>2. /\ Booted /\ tss_rsp0 = cur /\ io.pic1.expects = "mask" /\ io.pic1.isr = {}
      /\ Len(Words) = rsp0[cur] + 2
      /\ Words[Len(Words)].is = "number" /\ Words[Len(Words) - 1] = Flags(TRUE)
      /\ \A r \in Reg \ Lost["sysret"] : regs[r] = <<cur, r>>
  BY <1>1, AtCall
<1>3. Words \in Seq(Word) /\ rsp0[cur] \in Nat /\ rsp0[cur] <= DeepestUser /\ nr \in Nat
  BY Typed
<1>4. Top(1).is = "number" /\ Top(2) = Flags(TRUE)
  <2>1. Len(Words) + 1 - 1 = Len(Words) /\ Len(Words) + 1 - 2 = Len(Words) - 1
    BY <1>2, <1>3
  <2> QED BY <1>2, <2>1 DEF Top
<1>5. Top(2).is = "flags" /\ Top(2).value = TRUE
  BY <1>4 DEF Flags
<1>6. TopAre(<<"number", "flags">>)
  <2>1. Len(Words) >= 2
    BY <1>2, <1>3
  <2> QED BY <1>4, <1>5, <2>1 DEF TopAre
<1>7. PICK words, n : words = Less(2) /\ n = Len(Words) - 2
  OBVIOUS
<1>8. n = rsp0[cur] /\ n \in 0..Len(Words)
  BY <1>2, <1>3, <1>7
<1>9. words = SubSeq(Words, 1, n)
  BY <1>7 DEF Less
<1>10. words \in Seq(Word) /\ Len(words) = n
  BY <1>3, <1>8, <1>9, Cut
<1>11. /\ Stack(words) /\ rsp0' = [rsp0 EXCEPT ![cur] = n] /\ Goto("user")
       /\ ring' = 3 /\ cs' = 43 /\ ss' = 35 /\ interrupts' = TRUE /\ on_user' = TRUE
       /\ nr' = 0 /\ UNCHANGED <<cur, regs, tss_rsp0, setup>>
  BY <1>5, <1>6, <1>7 DEF SysReturn, Sysretq
<1>12. IoKept /\ "user" \in OwnCode
  BY <1>1, SameDevices DEF OwnCode
<1>13. n \in Nat /\ n <= DeepestUser /\ pc[cur] # "boot" /\ nr' \in Nat
  BY <1>1, <1>3, <1>8, <1>11
<1>14. /\ TypeInv' /\ WaitOK' /\ BootOK'
       /\ pc'[cur'] = "user" /\ stack'[cur'] = words /\ rsp0'[cur'] = n
  BY <1>10, <1>11, <1>12, <1>13, LocalStep
<1>15. RunOK' /\ DevicesOK'
  BY <1>1, <1>2, <1>10, <1>11, <1>12, <1>13, <1>14, InUserCode DEF IoKept
<1> QED BY <1>2, <1>11, <1>12, <1>14, <1>15 DEF MachineInv

-----------------------------------------------------------------------------
(* kernel_main.                                                             *)

LEMMA KernelMain ==
  /\ Len(kernel_main) = 8
  /\ kernel_main[1] = "PIC_init" /\ kernel_main[2] = "load_idt"
  /\ kernel_main[3] = "timer_init" /\ kernel_main[4] = "NMI_enable"
  /\ kernel_main[5] = "NMI_disable" /\ kernel_main[6] = "set_ring0_msr"
  /\ kernel_main[7] = "create_tasks" /\ kernel_main[8] = "sti"
BY DEF kernel_main

\* What every statement leaves of the devices.
LEMMA BootIo ==
  ASSUME MachineInv, BootStep
  PROVE  /\ IsDevices(io') /\ io'.pic1.expects = "mask" /\ io'.pic1.isr = {}
         /\ step' \in 1..8 /\ step' = step + 1 /\ cur = Main /\ pc[cur] = "boot"
         /\ step' >= 1 => io'.pic1.offset = 32
         /\ step' >= 3 => TicksAreMilliseconds(io')
         /\ step' >= 5 => NmiMasked(io')
<1>1. pc[Main] = "boot" /\ step' = step + 1
  BY DEF BootStep
<1>2. Main \in Thread
  BY DEF Thread
<1>3. cur = Main
  BY <1>1, <1>2 DEF MachineInv, WaitOK, Waiting
<1>4. step \in 0..7
  BY <1>1 DEF MachineInv, BootOK
<1>5. IsDevices(io) /\ io.pic1.expects = "mask" /\ io.pic1.isr = {}
  BY <1>1, <1>3 DEF MachineInv, DevicesOK, ServedAt
<1>6. /\ step >= 1 => io.pic1.offset = 32
      /\ step >= 3 => TicksAreMilliseconds(io)
      /\ step >= 5 => NmiMasked(io)
  BY DEF MachineInv, BootOK
<1>7. PICK name : name = kernel_main[step']
  OBVIOUS
<1>8. io' = CASE name = "PIC_init"    -> PIC_init(io)
              [] name = "timer_init"  -> timer_init(io)
              [] name = "NMI_enable"  -> NMI_enable(io)
              [] name = "NMI_disable" -> NMI_disable(io)
              [] OTHER -> io
  BY <1>7 DEF BootStep
<1>9. CASE step = 0
  <2>1. name = "PIC_init"
    BY <1>1, <1>7, <1>9, KernelMain
  <2>2. io' = PIC_init(io)
    BY <1>8, <2>1
  <2> QED BY <1>1, <1>3, <1>5, <1>9, <2>2, PicIsSet DEF OnlyPic1
<1>10. CASE step = 2
  <2>1. name = "timer_init"
    BY <1>1, <1>7, <1>10, KernelMain
  <2>2. io' = timer_init(io)
    BY <1>8, <2>1
  <2>3. OnlyPit(io, io') /\ TicksAreMilliseconds(io')
    BY <1>5, <2>2, TimerIsSet
  <2> QED BY <1>1, <1>3, <1>5, <1>6, <1>10, <2>3 DEF OnlyPit
<1>11. CASE step \in {3, 4}
  <2>1. name = IF step = 3 THEN "NMI_enable" ELSE "NMI_disable"
    BY <1>1, <1>7, <1>11, KernelMain
  <2>2. io' = IF step = 3 THEN NMI_enable(io) ELSE NMI_disable(io)
    BY <1>8, <1>11, <2>1
  <2>3. OnlyCmos(io, io') /\ (step = 4 => NmiMasked(io'))
    BY <1>5, <1>11, <2>2, NmiIsSet
  <2> QED BY <1>1, <1>3, <1>5, <1>6, <1>11, <2>3 DEF OnlyCmos, TicksAreMilliseconds
<1>12. CASE step \in {1, 5, 6, 7}
  <2>1. name \in {"load_idt", "set_ring0_msr", "create_tasks", "sti"}
    BY <1>1, <1>7, <1>12, KernelMain
  <2>2. io' = io
    BY <1>8, <2>1
  <2> QED BY <1>1, <1>3, <1>5, <1>6, <1>12, <2>2
<1> QED BY <1>4, <1>9, <1>10, <1>11, <1>12

\* Every statement of kernel_main keeps the invariant.
LEMMA BootStepKeeps ==
  ASSUME MachineInv, BootStep
  PROVE  MachineInv'
<1>1. /\ IsDevices(io') /\ io'.pic1.expects = "mask" /\ io'.pic1.isr = {}
      /\ step' \in 1..8 /\ step' = step + 1 /\ cur = Main /\ pc[cur] = "boot"
      /\ step' >= 1 => io'.pic1.offset = 32
      /\ step' >= 3 => TicksAreMilliseconds(io')
      /\ step' >= 5 => NmiMasked(io')
  BY BootIo
<1>2. /\ Main \in Thread /\ stack \in [Thread -> Seq(Word)] /\ nr \in Nat
      /\ pc \in [Thread -> OwnCode \cup InKernel \cup Waiting]
  BY DEF Thread, MachineInv, TypeInv
<1>3. /\ ring = 0 /\ cs = 8 /\ ss \in {0, 16} /\ interrupts = FALSE
      /\ stack[Main] = << >> /\ on_user = FALSE
  <2>1. pc[cur] \in InKernel
    BY <1>1 DEF InKernel
  <2>2. KernelOK
    BY DEF MachineInv, RunOK
  <2> QED BY <1>1, <2>1, <2>2 DEF KernelOK, Words
<1>4. \A t \in Thread \ {Main} :
        /\ pc[t] \in {"unborn", "start"}
        /\ pc[t] = "unborn" => stack[t] = << >>
        /\ pc[t] = "start" => stack[t] = <<Flags(TRUE)>>
  BY <1>1 DEF MachineInv, BootOK, WaitOK
<1>5. PICK name : name = kernel_main[step']
  OBVIOUS
<1>6. (name = "sti" <=> step' = 8) /\ (step' = 2 => name = "load_idt")
      /\ (step' = 6 => name = "set_ring0_msr") /\ (name = "set_ring0_msr" => step' = 6)
  <2>1. step' = 1 \/ step' = 2 \/ step' = 3 \/ step' = 4 \/ step' = 5 \/ step' = 6
        \/ step' = 7 \/ step' = 8
    BY <1>1
  <2> QED BY <1>5, <2>1, KernelMain
<1>7. /\ idt' = (idt \/ name = "load_idt")
      /\ msr' = (IF name = "set_ring0_msr" THEN set_ring0_msr ELSE msr)
      /\ interrupts' = (interrupts \/ name = "sti")
      /\ pc' = [t \in Thread |->
                  IF t = Main THEN IF step' = 8 THEN "idle" ELSE "boot"
                  ELSE IF name = "create_tasks" THEN "start" ELSE pc[t]]
      /\ stack' = (IF name = "create_tasks"
                   THEN [t \in Thread |-> IF t = Main THEN stack[t] ELSE NewStack] ELSE stack)
      /\ rsp0' = [t \in Thread |-> Len(stack'[t])]
      /\ UNCHANGED <<cur, ring, cs, ss, regs, on_user, tss_rsp0, nr>>
  BY <1>5, KernelMain DEF BootStep
<1>8. pc'[Main] = (IF step' = 8 THEN "idle" ELSE "boot")
      /\ \A t \in Thread \ {Main} :
           pc'[t] = IF name = "create_tasks" THEN "start" ELSE pc[t]
  BY <1>2, <1>7
<1>9. PICK w, new : w = Flags(TRUE) /\ new = <<w>>
  OBVIOUS
<1>10. new = NewStack /\ new = <<Flags(TRUE)>>
  BY <1>9 DEF NewStack
<1>11. new \in Seq(Word) /\ Len(new) = 1
  <2>1. w \in Word
    BY <1>9, WordIs
  <2>2. new = <<w>>
    BY <1>9
  <2> QED BY <2>1, <2>2, OneWord
<1>12. PICK none : none = << >>
  OBVIOUS
<1>13. Len(none) = 0
  BY <1>12
<1>14. stack'[Main] = none
       /\ \A t \in Thread \ {Main} : stack'[t] = IF name = "create_tasks" THEN new ELSE stack[t]
  BY <1>2, <1>3, <1>7, <1>10, <1>12
<1>15. stack' \in [Thread -> Seq(Word)]
  BY <1>2, <1>7, <1>10, <1>11
<1>16. \A t \in Thread : rsp0'[t] = Len(stack'[t])
  BY <1>7
<1>17. ASSUME NEW t \in Thread \ {Main}
       PROVE  /\ pc'[t] \in {"unborn", "start"}
              /\ pc'[t] = "unborn" => stack'[t] = none
              /\ pc'[t] = "start" => stack'[t] = new /\ rsp0'[t] = 1
  <2>1. CASE name = "create_tasks"
    BY <1>8, <1>11, <1>14, <1>16, <2>1
  <2>2. CASE name # "create_tasks"
    <3>1. pc'[t] = pc[t] /\ stack'[t] = stack[t]
      BY <1>8, <1>14, <2>2
    <3>2. /\ pc[t] \in {"unborn", "start"}
          /\ pc[t] = "unborn" => stack[t] = none
          /\ pc[t] = "start" => stack[t] = new
      BY <1>4, <1>10, <1>12
    <3> QED BY <1>11, <1>16, <3>1, <3>2
  <2> QED BY <2>1, <2>2
<1>18. TypeInv'
  <2>1. \A t \in Thread : pc'[t] \in OwnCode \cup InKernel \cup Waiting
    BY <1>8, <1>17 DEF OwnCode, InKernel, Waiting
  <2>2. pc' \in [Thread -> OwnCode \cup InKernel \cup Waiting]
    BY <1>7, <2>1
  <2>3. rsp0' \in [Thread -> Nat]
    <3>1. \A t \in Thread : Len(stack'[t]) \in Nat
      BY <1>15, LenProperties
    <3> QED BY <1>7, <3>1
  <2> QED BY <1>1, <1>2, <1>7, <1>15, <2>2, <2>3 DEF TypeInv
<1>19. WaitOK'
  <2> SUFFICES ASSUME NEW t \in Thread \ {Main}
               PROVE  /\ pc'[t] \in Waiting
                      /\ pc'[t] = "unborn" => stack'[t] = << >>
                      /\ pc'[t] \in {"start", "asleep"} =>
                           stack'[t] = <<Flags(TRUE)>> /\ rsp0'[t] = 1
                      /\ pc'[t] = "irq_end" => Preempted(t)'
    BY <1>1, <1>7 DEF WaitOK
  <2>1. /\ pc'[t] \in {"unborn", "start"}
        /\ pc'[t] = "unborn" => stack'[t] = none
        /\ pc'[t] = "start" => stack'[t] = new /\ rsp0'[t] = 1
    BY <1>17
  <2>2. pc'[t] \in Waiting
    BY <2>1 DEF Waiting
  <2>3. pc'[t] = "unborn" => stack'[t] = << >>
    BY <1>12, <2>1
  <2>4. pc'[t] \in {"start", "asleep"} => stack'[t] = <<Flags(TRUE)>>
    BY <1>10, <2>1
  <2> QED BY <2>1, <2>2, <2>3, <2>4
<1>20. BootOK'
  <2>1. step' \in 0..8 /\ (pc'[Main] = "boot" <=> step' < 8)
    BY <1>1, <1>8
  <2>2. \A t \in Thread \ {Main} : pc'[t] \in {"unborn", "start"}
    BY <1>17
  <2>3. step >= 2 => idt = TRUE
    BY DEF MachineInv, BootOK
  <2>4. step' >= 2 => idt' = TRUE
    <3>1. step' >= 2 => step >= 2 \/ step' = 2
      BY <1>1 DEF MachineInv, BootOK
    <3>2. step' = 2 => idt' = TRUE
      BY <1>6, <1>7
    <3>3. step >= 2 => idt' = TRUE
      BY <1>7, <2>3
    <3> QED BY <3>1, <3>2, <3>3
  <2>5. step >= 6 => msr = set_ring0_msr
    BY DEF MachineInv, BootOK
  <2>6. step' >= 6 => msr' = set_ring0_msr
    <3>1. step' >= 6 => step >= 6 \/ step' = 6
      BY <1>1, <2>1 DEF MachineInv, BootOK
    <3> QED BY <1>6, <1>7, <2>5, <3>1
  <2> QED BY <1>1, <2>1, <2>2, <2>4, <2>6 DEF BootOK
<1>21. /\ ring' = 0 /\ cs' = 8 /\ ss' \in {0, 16} /\ on_user' = FALSE /\ cur' = Main
       /\ stack'[cur'] = << >> /\ rsp0'[cur'] <= DeepestUser
       /\ interrupts' = (step' = 8)
  BY <1>1, <1>2, <1>3, <1>6, <1>7, <1>12, <1>13, <1>14, <1>16 DEF DeepestUser
<1>22. RunOK' /\ DevicesOK'
  <2>1. CASE step' = 8
    <3>1. pc'[cur'] = "idle" /\ interrupts' = TRUE /\ pc'[cur'] \in OwnCode
      BY <1>8, <1>21, <2>1 DEF OwnCode
    <3>2. OwnFrame(Frame')
      BY <1>21, <3>1 DEF OwnFrame, Frame, Word
    <3>3. on_user' = (ring' = 3)
      <4>1. (ring' = 3) = FALSE
        BY <1>21
      <4> QED BY <1>21, <4>1
    <3> QED BY <1>1, <1>21, <3>1, <3>2, <3>3, InOwnCode
  <2>2. CASE step' # 8
    <3>1. pc'[cur'] = "boot" /\ interrupts' = FALSE
      BY <1>8, <1>21, <2>2
    <3> QED BY <1>1, <1>21, <3>1 DEF RunOK, OwnOK, KernelOK, EnteredOK, CallOK, DevicesOK,
          ServedAt, Words, OwnCode, InKernel, Entered, InStub, InCall
  <2> QED BY <2>1, <2>2
<1> QED BY <1>18, <1>19, <1>20, <1>22 DEF MachineInv

LEMMA InitHolds ==
  ASSUME Init
  PROVE  MachineInv
<1>1. Main \in Thread
  BY DEF Thread
<1>2. PICK none : none = << >>
  OBVIOUS
<1>3. none \in Seq(Word)
  BY <1>2
<1>4. /\ cur = Main /\ pc = [t \in Thread |-> IF t = Main THEN "boot" ELSE "unborn"]
      /\ ring = 0 /\ interrupts = FALSE /\ cs = 8 /\ ss = 16 /\ on_user = FALSE
      /\ stack = [t \in Thread |-> none] /\ rsp0 = [t \in Thread |-> 0] /\ nr = 0
      /\ io = PowerOn /\ step = 0
  BY <1>2 DEF Init
<1>5. TypeInv
  <2>1. pc \in [Thread -> OwnCode \cup InKernel \cup Waiting]
    BY <1>4 DEF InKernel, Waiting
  <2> QED BY <1>1, <1>3, <1>4, <2>1 DEF TypeInv
<1>6. WaitOK
  BY <1>2, <1>4 DEF WaitOK, Waiting
<1>7. IsDevices(io) /\ io.pic1.expects = "mask" /\ io.pic1.isr = {}
  BY <1>4 DEF PowerOn, IsDevices, Chip, Pit
<1>8. pc[cur] = "boot" /\ Words = << >> /\ rsp0[cur] <= DeepestUser
  BY <1>1, <1>2, <1>4 DEF Words, DeepestUser
<1>9. RunOK
  BY <1>4, <1>8 DEF RunOK, OwnOK, KernelOK, EnteredOK, CallOK, OwnCode, InKernel,
    Entered, InStub, InCall
<1>10. DevicesOK
  BY <1>7, <1>8 DEF DevicesOK, ServedAt
<1>11. BootOK
  BY <1>1, <1>4 DEF BootOK
<1> QED BY <1>5, <1>6, <1>9, <1>10, <1>11 DEF MachineInv

-----------------------------------------------------------------------------
(* The theorems.                                                            *)

LEMMA StutterKeeps ==
  ASSUME MachineInv, UNCHANGED vars
  PROVE  MachineInv'
<1>1. UNCHANGED <<cur, pc, ring, interrupts, cs, ss, regs, on_user, stack, rsp0, tss_rsp0,
                  io, idt, msr, step, nr>>
  BY DEF vars, cpu, stacks, setup
<1>2. TypeInv' /\ WaitOK'
  BY <1>1 DEF MachineInv, TypeInv, WaitOK, Preempted
<1>3. BootOK' /\ DevicesOK'
  BY <1>1 DEF MachineInv, BootOK, DevicesOK
<1>4. Frame' = Frame /\ Words' = Words
  BY <1>1 DEF Frame, Words
<1>5. RunOK'
  BY <1>1, <1>4 DEF MachineInv, RunOK, OwnOK, KernelOK, EnteredOK, CallOK, OwnStackFor
<1> QED BY <1>2, <1>3, <1>5 DEF MachineInv

LEMMA NextKeeps ==
  ASSUME MachineInv, [Next]_vars
  PROVE  MachineInv'
<1>1. CASE DeviceRaises
  BY <1>1, DeviceRaisesKeeps
<1>2. CASE BootStep
  BY <1>2, BootStepKeeps
<1>3. CASE Interrupt
  BY <1>3, InterruptKeeps
<1>4. CASE TimerHandler \/ TimerHook \/ KeyboardHandler
  BY <1>4, TimerHandlerKeeps, TimerHookKeeps, KeyboardHandlerKeeps
<1>5. CASE FloppyHandler \/ IrqEnd \/ FaultEnd
  BY <1>5, FloppyHandlerIs, IrqEndIs, FaultEndIs
<1>6. CASE Raise \/ Exception \/ PageFault \/ PageFaultHandler
  BY <1>6, RaiseKeeps, ExceptionKeeps, PageFaultKeeps, PageFaultHandlerKeeps
<1>7. CASE Sleep \/ GetToRing3
  BY <1>7, SleepKeeps, GetToRing3Keeps
<1>8. CASE Syscall \/ DoSyscall \/ Service \/ SysReturn
  BY <1>8, SyscallKeeps, DoSyscallKeeps, ServiceKeeps, SysReturnIs
<1>9. CASE UNCHANGED vars
  BY <1>9, StutterKeeps
<1> QED BY <1>1, <1>2, <1>3, <1>4, <1>5, <1>6, <1>7, <1>8, <1>9 DEF Next

LEMMA Always == Spec => []MachineInv
<1>1. Init => MachineInv
  BY InitHolds
<1>2. MachineInv /\ [Next]_vars => MachineInv'
  BY NextKeeps
<1> QED BY <1>1, <1>2, PTL DEF Spec

\* While interrupts are on, the thread that runs is in its own code.
LEMMA EnabledInOwnCode ==
  ASSUME MachineInv, interrupts
  PROVE  pc[cur] \in OwnCode
BY DEF MachineInv, RunOK, KernelOK

LEMMA MachineOnTrack ==
  ASSUME MachineInv
  PROVE  OnTrack
<1>1. pc[cur] # "wild"
  BY DEF MachineInv, RunOK, OwnCode, InKernel, Entered, InStub, InCall
<1>2. pc[Main] # "boot" => TicksAreMilliseconds(io) /\ NmiMasked(io)
  <2>1. pc[Main] # "boot" => step = 8
    BY DEF MachineInv, BootOK
  <2> QED BY <2>1 DEF MachineInv, BootOK
<1>3. \/ ring = 0 /\ cs = 8 /\ ss \in {0, 16}
      \/ ring = 3 /\ cs = 43 /\ ss = 35
  <2>1. CASE pc[cur] \in OwnCode
    <3>1. OwnFrame(Frame)
      BY <2>1 DEF MachineInv, RunOK, OwnOK
    <3> QED BY <3>1 DEF OwnFrame, Frame
  <2>2. CASE pc[cur] \in InKernel
    BY <2>2 DEF MachineInv, RunOK, KernelOK
  <2> QED BY <2>1, <2>2 DEF MachineInv, RunOK
<1>4. IsCode(Descriptor(cs)) /\ Dpl(Descriptor(cs)) = ring
  BY <1>3, Descriptors
<1>5. ss # 0 => IsData(Descriptor(ss))
  BY <1>3, Descriptors
<1>6. ring = 3 => ss # 0 /\ Dpl(Descriptor(ss)) = 3
  BY <1>3, Descriptors
<1> QED BY <1>1, <1>2, <1>4, <1>5, <1>6 DEF OnTrack

\* boot.s, idt.c, pic.c, timer.c, nmi.c, switch.s, do_syscall.s: whatever comes
\* in which order, for any threads and exceptions, the machine never runs away:
\* every vector finds its gate and its stack, every word is popped by the code
\* and the thread that it was pushed for, and the segments fit the ring.
THEOREM StaysOnTrack == Spec => []OnTrack
<1>1. MachineInv => OnTrack
  BY MachineOnTrack
<1> QED BY <1>1, Always, PTL

\* timer.c, keyboard.c, floppy.c: every handler acknowledges its line before
\* interrupts are on again, though the timer's may be left for another thread.
THEOREM AcknowledgedInTime == Spec => []NoneInServiceWhenEnabled
<1>1. MachineInv => NoneInServiceWhenEnabled
  <2> SUFFICES ASSUME MachineInv, interrupts PROVE io.pic1.isr = {}
    BY DEF NoneInServiceWhenEnabled
  <2>1. pc[cur] \in OwnCode
    BY EnabledInOwnCode
  <2> QED BY <2>1 DEF MachineInv, DevicesOK, ServedAt, OwnCode
<1> QED BY <1>1, Always, PTL

\* The registers after the steps that end in the thread's own code.
LEMMA ReturnsRegs ==
  ASSUME MachineInv, Next, Resumes
  PROVE  \A r \in Reg \ Lost[pc[cur]] : regs'[r] = <<cur, r>>
<1>1. pc[cur] \in {"irq_end", "fault_end", "irq_stub_6", "sysret"} /\ pc'[cur] \in OwnCode
      /\ pc[cur] \notin OwnCode
  BY DEF Resumes, Lost, OwnCode
<1>2. CASE IrqEnd
  BY <1>2, IrqEndIs DEF Own
<1>3. CASE FaultEnd
  <2>1. pc[cur] = "fault_end" /\ regs' = Lose(Own(cur), {"rdi", "rsi"})
    BY <1>3, FaultEndIs DEF FaultEnd, At
  <2> QED BY <2>1 DEF Lost, Lose, Own
<1>4. CASE FloppyHandler
  <2>1. pc[cur] = "irq_stub_6" /\ regs' = Lose(Own(cur), Clobbered)
    BY <1>4, FloppyHandlerIs DEF FloppyHandler, At
  <2> QED BY <2>1 DEF Lost, Lose, Own
<1>5. CASE SysReturn
  <2>1. pc[cur] = "sysret" /\ regs' = regs /\ \A r \in Reg \ Lost["sysret"] : regs[r] = <<cur, r>>
    BY <1>5, SysReturnIs DEF SysReturn, At
  <2> QED BY <2>1
<1>6. CASE DeviceRaises
  BY <1>1, <1>6 DEF DeviceRaises
<1>7. CASE BootStep
  BY <1>1, <1>7, BootIo
<1>8. CASE Interrupt \/ Raise \/ PageFault
  BY <1>1, <1>8, EnabledInOwnCode DEF Interrupt, Raise, PageFault
<1>9. CASE \/ TimerHandler \/ TimerHook \/ KeyboardHandler \/ Exception \/ PageFaultHandler
           \/ Sleep \/ GetToRing3 \/ Syscall \/ DoSyscall \/ Service
  BY <1>1, <1>9 DEF TimerHandler, TimerHook, KeyboardHandler, Exception, PageFaultHandler,
    Sleep, GetToRing3, Syscall, DoSyscall, Service, At
<1> QED BY <1>2, <1>3, <1>4, <1>5, <1>6, <1>7, <1>8, <1>9 DEF Next

\* cpu.inc, irq.s, isr.s, do_syscall.s: the code that was interrupted or that
\* made a system call finds its registers as they were, but for those that the
\* code in between is known not to save, whatever other threads did meanwhile.
THEOREM RegistersAreKept == Spec => RegistersKept
<1>1. ASSUME MachineInv, [Next]_vars
      PROVE  [Resumes => \A r \in Reg \ Lost[pc[cur]] : regs'[r] = <<cur, r>>]_vars
  BY <1>1, ReturnsRegs
<1> QED BY <1>1, Always, PTL DEF Spec, RegistersKept

-----------------------------------------------------------------------------
(* Folds, and the value of digits.                                          *)

\* What MapThenFoldSet computes for the set s of indices, the greatest last.
FoldIs(g, base, fold, n) ==
  g = [s \in SUBSET (1..n) |->
         IF s = {} THEN base ELSE fold[<<Max(s), g[s \ {Max(s)}]>>]]

LEMMA MaxIs ==
  ASSUME NEW s \in SUBSET Nat, NEW m \in s, \A y \in s : y <= m
  PROVE  Max(s) = m
<1>1. \A y \in s : m >= y
  OBVIOUS
<1>2. \A x \in s : (\A y \in s : x >= y) => x = m
  OBVIOUS
<1> QED BY <1>1, <1>2 DEF Max

LEMMA MaxBelow ==
  ASSUME NEW n \in Nat, NEW s \in SUBSET (1..n), s # {}
  PROVE  Max(s) \in s /\ \A y \in s : y <= Max(s)
<1>1. s \in SUBSET (0..n)
  OBVIOUS
<1>2. PICK m \in s : \A y \in s : y <= m
  BY <1>1, GreatestExists
<1>3. s \in SUBSET Nat
  OBVIOUS
<1>4. Max(s) = m
  BY <1>2, <1>3, MaxIs
<1> QED BY <1>2, <1>4

\* There is such a function.
LEMMA FoldExists ==
  ASSUME NEW V, NEW base \in V, NEW n \in Nat, NEW fold \in [(1..n) \X V -> V]
  PROVE  \E g \in [SUBSET (1..n) -> V] : FoldIs(g, base, fold, n)
<1> DEFINE Good(k) == \E g \in [SUBSET (1..k) -> V] : FoldIs(g, base, fold, k)
           Bad == {k \in 0..n : ~Good(k)}
<1>1. Good(0)
  <2> DEFINE g == [s \in SUBSET (1..0) |-> base]
  <2>1. \A s \in SUBSET (1..0) : s = {}
    OBVIOUS
  <2>2. g \in [SUBSET (1..0) -> V] /\ FoldIs(g, base, fold, 0)
    BY <2>1 DEF FoldIs
  <2> QED BY <2>2
<1>2. ASSUME NEW k \in 1..n, Good(k - 1) PROVE Good(k)
  <2>1. PICK g \in [SUBSET (1..(k - 1)) -> V] : FoldIs(g, base, fold, k - 1)
    BY <1>2
  <2> DEFINE h == [s \in SUBSET (1..k) |-> IF k \in s THEN fold[<<k, g[s \ {k}]>>] ELSE g[s]]
  <2>2. \A s \in SUBSET (1..k) : s \ {k} \in SUBSET (1..(k - 1))
    OBVIOUS
  <2>3. \A s \in SUBSET (1..k) : k \notin s => s \in SUBSET (1..(k - 1))
    OBVIOUS
  <2>4. ASSUME NEW s \in SUBSET (1..k)
        PROVE  h[s] \in V /\ h[s] = IF s = {} THEN base ELSE fold[<<Max(s), h[s \ {Max(s)}]>>]
    <3>1. CASE k \in s
      <4>1. Max(s) = k
        <5>1. s \in SUBSET Nat /\ \A y \in s : y <= k
          OBVIOUS
        <5> QED BY <3>1, <5>1, MaxIs
      <4>2. s \ {k} \in SUBSET (1..k) /\ s \ {k} \in SUBSET (1..(k - 1))
        BY <2>2
      <4>3. h[s \ {k}] = g[s \ {k}] /\ g[s \ {k}] \in V
        BY <4>2
      <4>4. h[s] = fold[<<k, g[s \ {k}]>>]
        BY <3>1
      <4>5. h[s] \in V
        BY <4>3, <4>4
      <4> HIDE DEF h
      <4> QED BY <3>1, <4>1, <4>3, <4>4, <4>5
    <3>2. CASE k \notin s
      <4>1. s \in SUBSET (1..(k - 1))
        BY <2>3, <3>2
      <4>2. h[s] = g[s] /\ g[s] \in V
        BY <3>2, <4>1
      <4>3. g[s] = IF s = {} THEN base ELSE fold[<<Max(s), g[s \ {Max(s)}]>>]
        BY <2>1, <4>1 DEF FoldIs
      <4>4. s \ {Max(s)} \in SUBSET (1..k) /\ k \notin s \ {Max(s)}
            /\ s \ {Max(s)} \in SUBSET (1..(k - 1))
        BY <3>2, <4>1
      <4>5. h[s \ {Max(s)}] = g[s \ {Max(s)}]
        BY <4>4
      <4> HIDE DEF h
      <4> QED BY <4>2, <4>3, <4>5
    <3> QED BY <3>1, <3>2
  <2>5. h \in [SUBSET (1..k) -> V]
    <3>1. h = [s \in SUBSET (1..k) |-> h[s]]
      OBVIOUS
    <3> HIDE DEF h
    <3> QED BY <2>4, <3>1
  <2>6. FoldIs(h, base, fold, k)
    <3>1. h = [s \in SUBSET (1..k) |-> h[s]]
      OBVIOUS
    <3> HIDE DEF h
    <3> QED BY <2>4, <3>1 DEF FoldIs
  <2> QED BY <2>5, <2>6
<1> HIDE DEF Good
<1>3. Bad = {}
  <2> SUFFICES ASSUME Bad # {} PROVE FALSE
    OBVIOUS
  <2>1. Bad \in SUBSET Nat
    OBVIOUS
  <2>2. PICK k \in Bad : \A y \in Bad : k <= y
    BY <2>1, LeastExists
  <2>3. k # 0
    BY <1>1
  <2>4. k \in 1..n /\ k - 1 \in 0..n /\ ~(k <= k - 1)
    BY <2>3
  <2>5. Good(k - 1)
    BY <2>2, <2>4
  <2> QED BY <1>2, <2>4, <2>5
<1>4. Good(n)
  BY <1>3
<1> QED BY <1>4 DEF Good

\* The prefixes of the indices.
LEMMA IndicesUpTo ==
  ASSUME NEW n \in Nat, NEW i \in 1..n, NEW s, s = 1..i, NEW p, p = 1..(i - 1)
  PROVE  s \in SUBSET (1..n) /\ s # {} /\ Max(s) = i /\ s \ {i} = p
<1>1. s \in SUBSET Nat /\ i \in s /\ \A y \in s : y <= i
  OBVIOUS
<1>2. Max(s) = i
  BY <1>1, MaxIs
<1>3. s \ {i} = p
  OBVIOUS
<1>4. s \in SUBSET (1..n) /\ s # {}
  OBVIOUS
<1> QED BY <1>2, <1>3, <1>4

\* A function on the subsets of the indices that folds goes through the
\* prefixes one after the other.
ValueStep(v, base, d) == v * base + CHOOSE k \in 0..15 : Digit[k + 1] = d

DigitSet == {Digit[k + 1] : k \in 0..15}

LEMMA StepTyped ==
  ASSUME NEW v \in Nat, NEW base \in Nat, NEW d \in DigitSet
  PROVE  ValueStep(v, base, d) \in Nat
<1>1. \E k \in 0..15 : Digit[k + 1] = d
  BY DEF DigitSet
<1>2. PICK e : e = CHOOSE k \in 0..15 : Digit[k + 1] = d
  OBVIOUS
<1>3. e \in 0..15
  BY <1>1, <1>2
<1>4. v * base \in Nat
  OBVIOUS
<1>5. ValueStep(v, base, d) = v * base + e
  BY <1>2, Zenon DEF ValueStep
<1>6. e \in Nat
  BY <1>3
<1> QED BY <1>4, <1>5, <1>6

ValueIter(g, base, digits) ==
  g = [s \in SUBSET (1..Len(digits)) |->
         IF s = {} THEN 0 ELSE ValueStep(g[s \ {Max(s)}], base, digits[Max(s)])]

LEMMA ValueIs ==
  ASSUME NEW base \in Nat, NEW digits \in Seq(DigitSet)
  PROVE  Value(digits, base) = (CHOOSE g : ValueIter(g, base, digits))[1..Len(digits)]
<1>1. DOMAIN digits = 1..Len(digits)
  OBVIOUS
<1>2. Value(digits, base) = FoldLeft(LAMBDA v, d : ValueStep(v, base, d), 0, digits)
  BY Zenon DEF Value, ValueStep
<1>3. FoldLeft(LAMBDA v, d : ValueStep(v, base, d), 0, digits)
        = (CHOOSE g : ValueIter(g, base, digits))[1..Len(digits)]
  BY <1>1, Zenon DEF FoldLeft, MapThenFoldSet, ValueIter
<1> QED BY <1>2, <1>3

LEMMA ValueRuns ==
  ASSUME NEW base \in Nat, NEW digits \in Seq(DigitSet)
  PROVE  \E g : /\ Value(digits, base) = g[1..Len(digits)] /\ g[1..0] = 0
                /\ \A i \in 1..Len(digits) :
                     g[1..i] = ValueStep(g[1..(i - 1)], base, digits[i])
<1> DEFINE n == Len(digits)
           fold == [p \in (1..n) \X Nat |-> ValueStep(p[2], base, digits[p[1]])]
<1>1. n \in Nat /\ \A i \in 1..n : digits[i] \in DigitSet
  OBVIOUS
<1>2. fold \in [(1..n) \X Nat -> Nat]
  BY <1>1, StepTyped
<1>3. \A i \in 1..n, v \in Nat : fold[<<i, v>>] = ValueStep(v, base, digits[i])
  OBVIOUS
<1> HIDE DEF fold
<1>4. PICK g \in [SUBSET (1..n) -> Nat] : FoldIs(g, 0, fold, n)
  BY <1>1, <1>2, FoldExists
<1>5. ValueIter(g, base, digits)
  <2>1. ASSUME NEW s \in SUBSET (1..n), s # {}
        PROVE  fold[<<Max(s), g[s \ {Max(s)}]>>] = ValueStep(g[s \ {Max(s)}], base, digits[Max(s)])
    <3>1. Max(s) \in 1..n
      BY <1>1, <2>1, MaxBelow
    <3>2. g[s \ {Max(s)}] \in Nat
      <4>1. s \ {Max(s)} \in SUBSET (1..n)
        OBVIOUS
      <4> QED BY <4>1
    <3> QED BY <1>3, <3>1, <3>2
  <2>2. g = [s \in SUBSET (1..n) |-> IF s = {} THEN 0 ELSE ValueStep(g[s \ {Max(s)}], base, digits[Max(s)])]
    BY <1>4, <2>1, Zenon DEF FoldIs
  <2> QED BY <2>2, Zenon DEF ValueIter
<1>6. PICK h : h = CHOOSE f : ValueIter(f, base, digits)
  OBVIOUS
<1>7. ValueIter(h, base, digits)
  BY <1>5, <1>6
<1>8. \A s \in SUBSET (1..n) : h[s] = IF s = {} THEN 0 ELSE ValueStep(h[s \ {Max(s)}], base, digits[Max(s)])
  BY <1>7 DEF ValueIter
<1>9. h[1..0] = 0
  <2>1. 1..0 = {} /\ {} \in SUBSET (1..n)
    OBVIOUS
  <2> QED BY <1>8, <2>1
<1>10. ASSUME NEW i \in 1..n
       PROVE  h[1..i] = ValueStep(h[1..(i - 1)], base, digits[i])
  <2>1. PICK s, p : s = 1..i /\ p = 1..(i - 1)
    OBVIOUS
  <2>4. n \in Nat
    BY <1>1
  <2> HIDE DEF n
  <2>2. s \in SUBSET (1..n) /\ s # {} /\ Max(s) = i /\ s \ {i} = p
    BY <2>1, <2>4, IndicesUpTo
  <2>3. h[s] = ValueStep(h[p], base, digits[i])
    BY <1>8, <2>2
  <2> QED BY <2>1, <2>3
<1>11. Value(digits, base) = h[1..n]
  BY <1>6, ValueIs
<1> QED BY <1>9, <1>10, <1>11

LEMMA ValueEmpty ==
  ASSUME NEW base \in Nat
  PROVE  Value(<< >>, base) = 0
<1>1. << >> \in Seq(DigitSet) /\ Len(<< >>) = 0
  OBVIOUS
<1>2. PICK g : Value(<< >>, base) = g[1..Len(<< >>)] /\ g[1..0] = 0
  BY <1>1, ValueRuns, Zenon
<1> QED BY <1>1, <1>2

\* One more digit.
LEMMA ValueMore ==
  ASSUME NEW base \in Nat, NEW s \in Seq(DigitSet), NEW d \in DigitSet,
         NEW t, t = Append(s, d)
  PROVE  Value(t, base) = ValueStep(Value(s, base), base, d)
<1>1. /\ t \in Seq(DigitSet) /\ Len(t) = Len(s) + 1 /\ t[Len(s) + 1] = d
      /\ Len(s) \in Nat
  OBVIOUS
<1>2. \A i \in 1..Len(s) : t[i] = s[i]
  OBVIOUS
<1>3. PICK g : /\ Value(s, base) = g[1..Len(s)] /\ g[1..0] = 0
               /\ \A i \in 1..Len(s) : g[1..i] = ValueStep(g[1..(i - 1)], base, s[i])
  BY ValueRuns
<1>4. PICK h : /\ Value(t, base) = h[1..Len(t)] /\ h[1..0] = 0
               /\ \A i \in 1..Len(t) : h[1..i] = ValueStep(h[1..(i - 1)], base, t[i])
  BY <1>1, ValueRuns
<1> DEFINE Bad == {i \in 0..Len(s) : h[1..i] # g[1..i]}
<1>5. Bad = {}
  <2> SUFFICES ASSUME Bad # {} PROVE FALSE
    OBVIOUS
  <2>1. Bad \in SUBSET Nat
    OBVIOUS
  <2>2. PICK i \in Bad : \A y \in Bad : i <= y
    BY <2>1, LeastExists
  <2>3. i # 0
    BY <1>3, <1>4
  <2>4. i \in 1..Len(s) /\ i \in 1..Len(t) /\ i - 1 \in 0..Len(s) /\ ~(i <= i - 1)
    BY <1>1, <2>3
  <2>5. h[1..(i - 1)] = g[1..(i - 1)]
    BY <2>2, <2>4
  <2>6. h[1..i] = ValueStep(h[1..(i - 1)], base, t[i]) /\ t[i] = s[i]
    BY <1>2, <1>4, <2>4
  <2>7. g[1..i] = ValueStep(g[1..(i - 1)], base, s[i])
    BY <1>3, <2>4
  <2> QED BY <2>2, <2>5, <2>6, <2>7
<1>6. h[1..Len(s)] = g[1..Len(s)]
  BY <1>1, <1>5
<1>7. Len(t) \in 1..Len(t) /\ Len(t) - 1 = Len(s)
  BY <1>1
<1>8. h[1..Len(t)] = ValueStep(h[1..Len(s)], base, t[Len(t)])
  BY <1>4, <1>7
<1> QED BY <1>1, <1>3, <1>4, <1>6, <1>8

-----------------------------------------------------------------------------
(* itoa_internal.                                                           *)

\* The places of the sixteen digits are their values.
LEMMA DigitIs ==
  /\ \A k \in 0..15 : Digit[k + 1] \in DigitSet
  /\ \A k \in 0..15, v \in Nat, base \in Nat : ValueStep(v, base, Digit[k + 1]) = v * base + k
<1>1. \A j, k \in 0..15 : Digit[j + 1] = Digit[k + 1] => j = k
  BY DEF Digit
<1>2. ASSUME NEW k \in 0..15, NEW v \in Nat, NEW base \in Nat
      PROVE  ValueStep(v, base, Digit[k + 1]) = v * base + k
  <2>1. (CHOOSE j \in 0..15 : Digit[j + 1] = Digit[k + 1]) = k
    BY <1>1
  <2> QED BY <2>1, Zenon DEF ValueStep
<1> QED BY <1>2 DEF DigitSet

\* What the loop of itoa_internal leaves for num, the last digit first.
DigitsIter(f, base, N) ==
  f = [num \in N |-> IF num = 0 THEN << >>
                     ELSE <<Digit[(num % base) + 1]>> \o f[num \div base]]

LEMMA Quotient ==
  ASSUME NEW base \in 2..16, NEW num \in Nat \ {0}
  PROVE  /\ num \div base \in Nat /\ num \div base < num
         /\ num % base \in 0..15 /\ (num \div base) * base + (num % base) = num
<1> DEFINE q == num \div base
           m == num % base
<1>1. q \in Int /\ m \in Int /\ num = q * base + m /\ 0 <= m /\ m < base
  OBVIOUS
<1> HIDE DEF q, m
<1>2. ASSUME q < 0 PROVE FALSE
  <2>1. q * base <= (-1) * base
    BY <1>1, <1>2
  <2> QED BY <1>1, <2>1
<1>3. ASSUME q >= num PROVE FALSE
  <2>1. q * base >= num * 2
    BY <1>1, <1>3
  <2> QED BY <1>1, <2>1
<1>4. m \in 0..15
  BY <1>1
<1>5. q \in Nat /\ q < num
  BY <1>1, <1>2, <1>3
<1>6. q * base + m = num
  BY <1>1
<1> QED BY <1>4, <1>5, <1>6 DEF q, m

LEMMA OneMore ==
  ASSUME NEW S, NEW e \in S, NEW s \in Seq(S)
  PROVE  /\ <<e>> \o s \in Seq(S) /\ Len(<<e>> \o s) = Len(s) + 1
         /\ Reverse(s) \in Seq(S) /\ Len(Reverse(s)) = Len(s)
         /\ Reverse(<<e>> \o s) = Append(Reverse(s), e)
<1>1. <<e>> \o s \in Seq(S) /\ Len(<<e>> \o s) = Len(s) + 1 /\ Len(s) \in Nat
  OBVIOUS
<1>2. Reverse(s) \in Seq(S) /\ Len(Reverse(s)) = Len(s)
      /\ \A i \in 1..Len(s) : Reverse(s)[i] = s[(Len(s) - i) + 1]
  BY <1>1 DEF Reverse
<1>3. Reverse(<<e>> \o s) = Append(Reverse(s), e)
  <2> DEFINE u == <<e>> \o s
  <2>1. Reverse(u) \in Seq(S) /\ Len(Reverse(u)) = Len(s) + 1
        /\ \A i \in 1..Len(s) + 1 : Reverse(u)[i] = u[(Len(s) + 1 - i) + 1]
    BY <1>1 DEF Reverse
  <2>2. u[1] = e /\ \A i \in 1..Len(s) : u[i + 1] = s[i]
    OBVIOUS
  <2> HIDE DEF u
  <2>3. Append(Reverse(s), e) \in Seq(S) /\ Len(Append(Reverse(s), e)) = Len(s) + 1
        /\ \A i \in 1..Len(s) + 1 : Append(Reverse(s), e)[i] = IF i <= Len(s) THEN Reverse(s)[i] ELSE e
    BY <1>2
  <2>4. ASSUME NEW i \in 1..Len(s) + 1
        PROVE  Reverse(u)[i] = Append(Reverse(s), e)[i]
    <3>1. CASE i = Len(s) + 1
      <4>1. (Len(s) + 1 - i) + 1 = 1 /\ ~(i <= Len(s))
        BY <1>1, <3>1
      <4> QED BY <2>1, <2>2, <2>3, <4>1
    <3>2. CASE i # Len(s) + 1
      <4>1. i \in 1..Len(s) /\ Len(s) - i + 1 \in 1..Len(s)
        BY <1>1, <3>2
      <4>2. (Len(s) + 1 - i) + 1 = (Len(s) - i + 1) + 1 /\ i <= Len(s)
        BY <1>1, <4>1
      <4>3. Reverse(u)[i] = s[Len(s) - i + 1]
        BY <2>1, <2>2, <4>1, <4>2
      <4> QED BY <1>2, <2>3, <4>1, <4>2, <4>3
    <3> QED BY <3>1, <3>2
  <2>5. Reverse(u) = Append(Reverse(s), e)
    BY <1>1, <2>1, <2>3, <2>4
  <2> QED BY <2>5 DEF u
<1> QED BY <1>1, <1>2, <1>3

LEMMA DigitsTo ==
  ASSUME NEW base \in 2..16, NEW k \in Nat
  PROVE  \E f \in [0..k -> Seq(DigitSet)] : DigitsIter(f, base, 0..k)
<1> DEFINE Good(j) == \E f \in [0..j -> Seq(DigitSet)] : DigitsIter(f, base, 0..j)
           Bad == {j \in Nat : ~Good(j)}
<1>1. Good(0)
  <2> DEFINE f == [num \in 0..0 |-> << >>]
  <2>1. << >> \in Seq(DigitSet) /\ \A num \in 0..0 : num = 0
    OBVIOUS
  <2>2. f \in [0..0 -> Seq(DigitSet)]
    BY <2>1
  <2>3. DigitsIter(f, base, 0..0)
    BY <2>1 DEF DigitsIter
  <2> QED BY <2>2, <2>3
<1>2. ASSUME NEW j \in Nat, Good(j) PROVE Good(j + 1)
  <2>1. PICK f \in [0..j -> Seq(DigitSet)] : DigitsIter(f, base, 0..j)
    BY <1>2
  <2> DEFINE last == <<Digit[((j + 1) % base) + 1]>> \o f[(j + 1) \div base]
             h == [num \in 0..(j + 1) |-> IF num = j + 1 THEN last ELSE f[num]]
  <2>2. \A num \in 0..(j + 1) : num # j + 1 => num \in 0..j
    OBVIOUS
  <2>3. \A num \in 0..(j + 1) : num # 0 => num \div base \in 0..j /\ num % base \in 0..15
    <3> SUFFICES ASSUME NEW num \in 0..(j + 1), num # 0
                 PROVE  num \div base \in 0..j /\ num % base \in 0..15
      OBVIOUS
    <3>1. num \in Nat \ {0}
      OBVIOUS
    <3>2. num \div base \in Nat /\ num \div base < num /\ num % base \in 0..15
      BY <3>1, Quotient
    <3>3. PICK q : q = num \div base
      OBVIOUS
    <3> QED BY <3>2, <3>3
  <2>4. ASSUME NEW num \in 0..(j + 1)
        PROVE  /\ h[num] \in Seq(DigitSet)
               /\ h[num] = IF num = 0 THEN << >>
                           ELSE <<Digit[(num % base) + 1]>> \o h[num \div base]
    <3>1. CASE num = j + 1
      <4>1. num \div base \in 0..j /\ num % base \in 0..15 /\ num # 0
        BY <2>3, <3>1
      <4>2. num \div base # j + 1 /\ num \div base \in 0..(j + 1)
        <5>1. PICK q : q = num \div base
          OBVIOUS
        <5> QED BY <4>1, <5>1
      <4>3. h[num \div base] = f[num \div base] /\ f[num \div base] \in Seq(DigitSet)
        BY <4>1, <4>2
      <4>4. h[num] = <<Digit[(num % base) + 1]>> \o f[num \div base]
        BY <3>1
      <4>5. Digit[(num % base) + 1] \in DigitSet
        BY <4>1, DigitIs
      <4> HIDE DEF h, last
      <4>6. h[num] \in Seq(DigitSet)
        BY <4>3, <4>4, <4>5, OneMore
      <4> QED BY <4>1, <4>3, <4>4, <4>6
    <3>2. CASE num # j + 1
      <4>1. num \in 0..j /\ h[num] = f[num] /\ f[num] \in Seq(DigitSet)
        BY <2>2, <3>2
      <4>2. f[num] = IF num = 0 THEN << >> ELSE <<Digit[(num % base) + 1]>> \o f[num \div base]
        BY <2>1, <4>1 DEF DigitsIter
      <4>3. CASE num = 0
        BY <4>1, <4>2, <4>3
      <4>4. CASE num # 0
        <5>1. num \div base \in Nat /\ num \div base < num
          <6>1. num \in Nat \ {0}
            BY <4>4
          <6> QED BY <6>1, Quotient
        <5>2. num \div base \in 0..(j + 1) /\ num \div base # j + 1
          <6>1. num \in 0..j
            BY <4>1
          <6>2. \A q \in Nat : q < num => q \in 0..(j + 1) /\ q # j + 1
            BY <6>1
          <6> QED BY <5>1, <6>2
        <5>3. h[num \div base] = f[num \div base]
          BY <5>2
        <5> HIDE DEF h, last
        <5> QED BY <4>1, <4>2, <4>4, <5>3
      <4> QED BY <4>3, <4>4
    <3> QED BY <3>1, <3>2
  <2>5. h = [num \in 0..(j + 1) |-> h[num]]
    OBVIOUS
  <2> HIDE DEF h, last
  <2>6. h \in [0..(j + 1) -> Seq(DigitSet)]
    BY <2>4, <2>5
  <2>7. DigitsIter(h, base, 0..(j + 1))
    BY <2>4, <2>5 DEF DigitsIter
  <2> QED BY <2>6, <2>7
<1> HIDE DEF Good
<1>3. Bad = {}
  <2> SUFFICES ASSUME Bad # {} PROVE FALSE
    OBVIOUS
  <2>1. Bad \in SUBSET Nat
    OBVIOUS
  <2>2. PICK j \in Bad : \A y \in Bad : j <= y
    BY <2>1, LeastExists
  <2>3. j # 0
    BY <1>1
  <2>4. j - 1 \in Nat /\ (j - 1) + 1 = j /\ ~(j <= j - 1)
    BY <2>3
  <2>5. Good(j - 1)
    BY <2>2, <2>4
  <2>6. Good((j - 1) + 1)
    BY <1>2, <2>4, <2>5
  <2> QED BY <2>4, <2>6
<1>4. Good(k)
  BY <1>3
<1> QED BY <1>4 DEF Good

\* Two of them agree where both are defined.
LEMMA DigitsAgree ==
  ASSUME NEW base \in 2..16, NEW j \in Nat, NEW k \in Nat, NEW f, NEW g,
         DigitsIter(f, base, 0..j), DigitsIter(g, base, 0..k), NEW n \in Nat, n <= j, n <= k
  PROVE  f[n] = g[n]
<1> DEFINE Bad == {m \in Nat : m <= j /\ m <= k /\ f[m] # g[m]}
<1>1. Bad = {}
  <2> SUFFICES ASSUME Bad # {} PROVE FALSE
    OBVIOUS
  <2>1. Bad \in SUBSET Nat
    OBVIOUS
  <2>2. PICK m \in Bad : \A y \in Bad : m <= y
    BY <2>1, LeastExists
  <2>3. m \in 0..j /\ m \in 0..k /\ m \in Nat
    OBVIOUS
  <2>4. /\ f[m] = IF m = 0 THEN << >> ELSE <<Digit[(m % base) + 1]>> \o f[m \div base]
        /\ g[m] = IF m = 0 THEN << >> ELSE <<Digit[(m % base) + 1]>> \o g[m \div base]
    BY <2>3 DEF DigitsIter
  <2>5. m # 0
    BY <2>4
  <2>6. m \div base \in Nat /\ m \div base < m
    BY <2>3, <2>5, Quotient
  <2>7. PICK q : q = m \div base
    OBVIOUS
  <2>8. q \in Nat /\ q <= j /\ q <= k /\ ~(m <= q)
    BY <2>3, <2>6, <2>7
  <2>9. f[q] = g[q]
    BY <2>2, <2>8
  <2> QED BY <2>4, <2>7, <2>9
<1> QED BY <1>1

LEMMA DigitsExist ==
  ASSUME NEW base \in 2..16
  PROVE  \E f \in [Nat -> Seq(DigitSet)] : DigitsIter(f, base, Nat)
<1> DEFINE To(k) == CHOOSE f : f \in [0..k -> Seq(DigitSet)] /\ DigitsIter(f, base, 0..k)
           h == [num \in Nat |-> To(num)[num]]
<1>1. ASSUME NEW k \in Nat
      PROVE  To(k) \in [0..k -> Seq(DigitSet)] /\ DigitsIter(To(k), base, 0..k)
  <2>1. \E f : f \in [0..k -> Seq(DigitSet)] /\ DigitsIter(f, base, 0..k)
    BY DigitsTo
  <2> QED BY <2>1
<1>2. ASSUME NEW num \in Nat
      PROVE  h[num] = To(num)[num] /\ h[num] \in Seq(DigitSet)
  <2>1. num \in 0..num
    OBVIOUS
  <2> HIDE DEF To
  <2> QED BY <1>1, <2>1
<1> HIDE DEF To
<1>3. h = [num \in Nat |-> h[num]]
  OBVIOUS
<1> HIDE DEF h
<1>4. ASSUME NEW num \in Nat
      PROVE  h[num] = IF num = 0 THEN << >> ELSE <<Digit[(num % base) + 1]>> \o h[num \div base]
  <2>1. num \in 0..num
    OBVIOUS
  <2>2. To(num)[num] = IF num = 0 THEN << >>
                       ELSE <<Digit[(num % base) + 1]>> \o To(num)[num \div base]
    BY <1>1, <2>1 DEF DigitsIter
  <2>3. CASE num = 0
    BY <1>2, <2>2, <2>3
  <2>4. CASE num # 0
    <3>1. PICK q : q = num \div base
      OBVIOUS
    <3>2. q \in Nat /\ q <= num /\ q <= q
      BY <2>4, <3>1, Quotient
    <3>3. PICK f, g : f = To(num) /\ g = To(q)
      OBVIOUS
    <3>5. DigitsIter(f, base, 0..num) /\ DigitsIter(g, base, 0..q)
      BY <1>1, <3>2, <3>3
    <3>4. f[q] = g[q]
      BY <3>2, <3>5, DigitsAgree
    <3> QED BY <1>2, <2>2, <2>4, <3>1, <3>2, <3>3, <3>4
  <2> QED BY <2>3, <2>4
<1>5. h \in [Nat -> Seq(DigitSet)]
  BY <1>2, <1>3
<1>6. DigitsIter(h, base, Nat)
  BY <1>3, <1>4 DEF DigitsIter
<1> QED BY <1>5, <1>6

\* printf.c: what itoa_internal returns reads as the value, and starts with no
\* zero; zero gives nothing.
LEMMA ItoaReads ==
  ASSUME NEW base \in 2..16, NEW value \in Nat
  PROVE  /\ itoa_internal(value, base) \in Seq(DigitSet)
         /\ Value(itoa_internal(value, base), base) = value
         /\ value = 0 => itoa_internal(value, base) = << >>
         /\ value # 0 => /\ itoa_internal(value, base) # << >>
                        /\ itoa_internal(value, base)[1] # "0"
<1>13. base \in Nat
  OBVIOUS
<1>1. PICK f : f = CHOOSE g : DigitsIter(g, base, Nat)
  OBVIOUS
<1>2. DigitsIter(f, base, Nat)
  BY <1>1, DigitsExist
<1>3. itoa_internal(value, base) = Reverse(f[value])
  BY <1>1, Zenon DEF itoa_internal, DigitsIter
<1> DEFINE Good(n) ==
             /\ f[n] \in Seq(DigitSet) /\ Value(Reverse(f[n]), base) = n
             /\ n # 0 => f[n] # << >> /\ Reverse(f[n])[1] # "0"
           Bad == {n \in Nat : ~Good(n)}
<1>4. f[0] = << >>
  BY <1>2 DEF DigitsIter
<1>5. Reverse(<< >>) = << >> /\ << >> \in Seq(DigitSet)
  BY DEF Reverse
<1>6. Good(0)
  BY <1>4, <1>5, ValueEmpty
<1>7. ASSUME NEW n \in Nat \ {0}, Good(n \div base)
      PROVE  Good(n)
  <2>1. PICK q, d, k : q = f[n \div base] /\ k = n % base /\ d = Digit[k + 1]
    OBVIOUS
  <2>2. /\ n \div base \in Nat /\ n \div base < n /\ k \in 0..15
        /\ (n \div base) * base + k = n
    BY <2>1, Quotient
  <2>3. d \in DigitSet
    BY <2>1, <2>2, DigitIs
  <2>4. f[n] = <<d>> \o q
    BY <1>2, <2>1 DEF DigitsIter
  <2>5. q \in Seq(DigitSet) /\ Value(Reverse(q), base) = n \div base
    BY <1>7, <2>1
  <2>6. /\ f[n] \in Seq(DigitSet) /\ Len(f[n]) = Len(q) + 1
        /\ Reverse(q) \in Seq(DigitSet) /\ Len(Reverse(q)) = Len(q)
        /\ Reverse(f[n]) = Append(Reverse(q), d)
    BY <2>3, <2>4, <2>5, OneMore
  <2>7. Value(Reverse(f[n]), base) = n
    <3>1. Value(Reverse(f[n]), base) = ValueStep(Value(Reverse(q), base), base, d)
      <4>1. PICK s, t : s = Reverse(q) /\ t = Reverse(f[n])
        OBVIOUS
      <4>2. s \in Seq(DigitSet) /\ t = Append(s, d)
        BY <2>6, <4>1
      <4>3. Value(t, base) = ValueStep(Value(s, base), base, d)
        BY <1>13, <2>3, <4>2, ValueMore
      <4> QED BY <4>1, <4>3
    <3>2. ValueStep(n \div base, base, Digit[k + 1]) = (n \div base) * base + k
      <4>1. PICK v : v = n \div base
        OBVIOUS
      <4>2. ValueStep(v, base, Digit[k + 1]) = v * base + k
        BY <1>13, <2>2, <4>1, DigitIs, Zenon
      <4> QED BY <4>1, <4>2
    <3> QED BY <2>1, <2>2, <2>5, <3>1, <3>2
  <2>8. f[n] # << >>
    BY <2>6
  <2>9. Reverse(f[n])[1] # "0"
    <3>1. CASE n \div base = 0
      <4>1. q = << >>
        BY <1>4, <2>1, <3>1
      <4>2. Reverse(f[n])[1] = d
        BY <1>5, <2>6, <4>1
      <4>3. k # 0
        BY <2>2, <3>1
      <4>4. Digit[k + 1] # "0"
        BY <2>2, <4>3 DEF Digit
      <4> QED BY <2>1, <4>2, <4>4
    <3>2. CASE n \div base # 0
      <4>1. q # << >> /\ Reverse(q)[1] # "0"
        BY <1>7, <2>1, <3>2
      <4>2. Len(q) >= 1 /\ Len(q) \in Nat
        BY <2>5, <4>1
      <4>3. Append(Reverse(q), d)[1] = Reverse(q)[1]
        BY <2>3, <2>6, <4>2
      <4> QED BY <2>6, <4>1, <4>3
    <3> QED BY <3>1, <3>2
  <2> QED BY <2>6, <2>7, <2>8, <2>9
<1> HIDE DEF Good
<1>8. Bad = {}
  <2> SUFFICES ASSUME Bad # {} PROVE FALSE
    OBVIOUS
  <2>1. Bad \in SUBSET Nat
    OBVIOUS
  <2>2. PICK n \in Bad : \A y \in Bad : n <= y
    BY <2>1, LeastExists
  <2>3. n \in Nat \ {0}
    BY <1>6
  <2>4. n \div base \in Nat /\ n \div base < n
    BY <2>3, Quotient
  <2>5. PICK q : q = n \div base
    OBVIOUS
  <2>6. q \in Nat /\ ~(n <= q)
    BY <2>3, <2>4, <2>5
  <2>7. Good(q)
    BY <2>2, <2>6
  <2> QED BY <1>7, <2>3, <2>5, <2>7
<1>9. Good(value)
  BY <1>8
<1>10. Reverse(f[value]) \in Seq(DigitSet) /\ Len(Reverse(f[value])) = Len(f[value])
  <2>1. f[value] \in Seq(DigitSet)
    BY <1>9 DEF Good
  <2> QED BY <2>1 DEF Reverse
<1>11. value # 0 => Reverse(f[value]) # << >>
  <2>1. value # 0 => f[value] # << >> /\ f[value] \in Seq(DigitSet)
    BY <1>9 DEF Good
  <2>2. value # 0 => Len(f[value]) # 0
    BY <2>1
  <2> QED BY <1>10, <2>2
<1>12. value = 0 => Reverse(f[value]) = << >>
  BY <1>4, <1>5
<1> QED BY <1>3, <1>9, <1>10, <1>11, <1>12 DEF Good

\* itoa_unsigned: never empty.
LEMMA UnsignedReads ==
  ASSUME NEW base \in 2..16, NEW value \in Nat
  PROVE  /\ itoa_unsigned(value, base) \in Seq(DigitSet)
         /\ itoa_unsigned(value, base) # << >>
         /\ Value(itoa_unsigned(value, base), base) = value
         /\ itoa_unsigned(value, base)[1] = "0" => Len(itoa_unsigned(value, base)) = 1
<1>3. base \in Nat
  OBVIOUS
<1>1. CASE value # 0
  <2>1. itoa_unsigned(value, base) = itoa_internal(value, base)
    BY <1>1 DEF itoa_unsigned
  <2> QED BY <1>1, <2>1, ItoaReads
<1>2. CASE value = 0
  <2>1. itoa_unsigned(value, base) = <<"0">>
    BY <1>2 DEF itoa_unsigned
  <2>2. "0" = Digit[0 + 1]
    BY DEF Digit
  <2>3. "0" \in DigitSet
    <3>1. 0 \in 0..15
      OBVIOUS
    <3> QED BY <2>2, <3>1, DigitIs, Zenon
  <2>4. << >> \in Seq(DigitSet) /\ <<"0">> = Append(<< >>, "0")
    OBVIOUS
  <2>5. Value(<<"0">>, base) = ValueStep(Value(<< >>, base), base, "0")
    <3>1. PICK s, t : s = << >> /\ t = <<"0">>
      OBVIOUS
    <3>2. s \in Seq(DigitSet) /\ t = Append(s, "0")
      BY <2>4, <3>1
    <3>3. Value(t, base) = ValueStep(Value(s, base), base, "0")
      BY <1>3, <2>3, <3>2, ValueMore
    <3> QED BY <3>1, <3>3
  <2>6. ValueStep(0, base, Digit[0 + 1]) = 0 * base + 0
    <3>1. 0 \in 0..15 /\ 0 \in Nat
      OBVIOUS
    <3> QED BY <1>3, <3>1, DigitIs, Zenon
  <2>7. Value(<<"0">>, base) = 0
    <3>1. 0 * base + 0 = 0
      BY <1>3
    <3> QED BY <1>3, <2>2, <2>5, <2>6, <3>1, ValueEmpty
  <2>8. <<"0">> \in Seq(DigitSet) /\ <<"0">> # << >> /\ Len(<<"0">>) = 1
    BY <2>3
  <2> QED BY <1>2, <2>1, <2>7, <2>8
<1> QED BY <1>1, <1>2

-----------------------------------------------------------------------------
(* vprintk_func.                                                            *)

\* vprintk_func: the character at a place, and where a text ends.
CharAt(format, i) == IF i <= Len(format) THEN format[i] ELSE "NUL"
Ends(format, from) == {i \in from + 1..Len(format) : format[i] = "%"} \cup {Len(format) + 1}

\* What is printed from place i on with the arguments from a on, if p is what is
\* printed from the later places on.
Prints(p, format, args, i, a) ==
  IF i > Len(format) THEN << >>
  ELSE IF CharAt(format, i) # "%" \/ CharAt(format, i + 1) = "%"
  THEN LET from == IF CharAt(format, i) = "%" THEN i + 1 ELSE i
       IN  SubSeq(format, from, Min(Ends(format, from)) - 1) \o p[Min(Ends(format, from))][a]
  ELSE IF CharAt(format, i + 1) \in Directive
  THEN Converted(CharAt(format, i + 1), args[a]) \o p[i + 2][a + 1]
  ELSE SubSeq(format, i, Len(format))

PrintsFrom(p, format, args, first) ==
  p = [i \in first..Len(format) + 1 |-> [a \in Nat |-> Prints(p, format, args, i, a)]]

LEMMA MinIs ==
  ASSUME NEW s \in SUBSET Nat, s # {}
  PROVE  Min(s) \in s /\ \A y \in s : Min(s) <= y
<1>1. PICK x \in s : \A y \in s : x <= y
  BY LeastExists
<1>2. (CHOOSE z \in s : \A y \in s : z =< y) \in s
      /\ \A y \in s : (CHOOSE z \in s : \A y_1 \in s : z =< y_1) <= y
  BY <1>1
<1> QED BY <1>2 DEF Min

\* A text ends behind its first character, at the next % or at the end.
LEMMA TextEnds ==
  ASSUME NEW T, NEW format \in Seq(T), NEW from \in 1..Len(format),
         NEW e, e = Min(Ends(format, from))
  PROVE  /\ e \in Nat /\ from < e /\ e <= Len(format) + 1
         /\ e <= Len(format) => format[e] = "%"
         /\ from < Len(format) /\ format[from + 1] # "%" => e = Min(Ends(format, from + 1))
         /\ from = Len(format) \/ format[from + 1] = "%" => e = from + 1
<1>1. Len(format) \in Nat
  OBVIOUS
<1>2. Ends(format, from) \in SUBSET Nat /\ Len(format) + 1 \in Ends(format, from)
  BY <1>1 DEF Ends
<1>3. e \in Ends(format, from) /\ \A y \in Ends(format, from) : e <= y
  <2>1. Ends(format, from) # {}
    BY <1>2
  <2> QED BY <1>2, <2>1, MinIs
<1>4. e \in Nat /\ from < e /\ e <= Len(format) + 1 /\ (e <= Len(format) => format[e] = "%")
  BY <1>1, <1>3 DEF Ends
<1>5. ASSUME from < Len(format), format[from + 1] # "%"
      PROVE  e = Min(Ends(format, from + 1))
  <2>1. Ends(format, from + 1) = Ends(format, from)
    BY <1>1, <1>5 DEF Ends
  <2> QED BY <2>1
<1>6. ASSUME from = Len(format) \/ format[from + 1] = "%"
      PROVE  e = from + 1
  <2>1. from + 1 \in Ends(format, from)
    BY <1>1, <1>6 DEF Ends
  <2>2. e <= from + 1
    BY <1>3, <2>1
  <2> QED BY <1>1, <1>4, <2>2
<1> QED BY <1>4, <1>5, <1>6

\* The three cases of Prints within the format, text being what is printed.
CasesOf(text, p, format, args, i, a, from, e) ==
  /\ CharAt(format, i) # "%" \/ CharAt(format, i + 1) = "%" =>
       text = SubSeq(format, from, e - 1) \o p[e][a]
  /\ CharAt(format, i) = "%" /\ CharAt(format, i + 1) \in Directive =>
       text = Converted(CharAt(format, i + 1), args[a]) \o p[i + 2][a + 1]
  /\ CharAt(format, i) = "%" /\ CharAt(format, i + 1) # "%"
     /\ CharAt(format, i + 1) \notin Directive =>
       text = SubSeq(format, i, Len(format))

LEMMA PrintsCases ==
  ASSUME NEW format, NEW args, NEW i, NEW a, NEW p, ~(i > Len(format)),
         NEW from, from = IF CharAt(format, i) = "%" THEN i + 1 ELSE i,
         NEW e, e = Min(Ends(format, from))
  PROVE  CasesOf(Prints(p, format, args, i, a), p, format, args, i, a, from, e)
<1>1. "%" \notin Directive
  BY DEF Directive
<1>2. ASSUME CharAt(format, i) # "%" \/ CharAt(format, i + 1) = "%"
      PROVE  Prints(p, format, args, i, a) = SubSeq(format, from, e - 1) \o p[e][a]
  BY <1>2, Zenon DEF Prints
<1>3. ASSUME CharAt(format, i) = "%", CharAt(format, i + 1) \in Directive
      PROVE  Prints(p, format, args, i, a)
               = Converted(CharAt(format, i + 1), args[a]) \o p[i + 2][a + 1]
  <2>1. ~(CharAt(format, i) # "%" \/ CharAt(format, i + 1) = "%")
    BY <1>1, <1>3
  <2> QED BY <1>3, <2>1, Zenon DEF Prints
<1>4. ASSUME CharAt(format, i) = "%", CharAt(format, i + 1) # "%",
             CharAt(format, i + 1) \notin Directive
      PROVE  Prints(p, format, args, i, a) = SubSeq(format, i, Len(format))
  <2>1. ~(CharAt(format, i) # "%" \/ CharAt(format, i + 1) = "%")
    BY <1>4
  <2> QED BY <1>4, <2>1, Zenon DEF Prints
<1> QED BY <1>2, <1>3, <1>4, Zenon DEF CasesOf

\* Only what is printed from the later places on matters.
LEMMA LaterMatters ==
  ASSUME NEW T, NEW format \in Seq(T), NEW args, NEW i \in 1..Len(format), NEW a \in Nat,
         NEW p, NEW q, \A j \in Nat, b \in Nat : i < j /\ j <= Len(format) + 1 => p[j][b] = q[j][b]
  PROVE  Prints(p, format, args, i, a) = Prints(q, format, args, i, a)
<1>1. Len(format) \in Nat /\ i \in Nat /\ i <= Len(format)
  OBVIOUS
<1>6. ~(i > Len(format))
  BY <1>1
<1>2. PICK from : from = IF CharAt(format, i) = "%" THEN i + 1 ELSE i
  OBVIOUS
<1>3. PICK e : e = Min(Ends(format, from))
  OBVIOUS
<1>7. /\ CasesOf(Prints(p, format, args, i, a), p, format, args, i, a, from, e)
      /\ CasesOf(Prints(q, format, args, i, a), q, format, args, i, a, from, e)
  BY <1>2, <1>3, <1>6, PrintsCases
<1>4. CASE CharAt(format, i) # "%" \/ CharAt(format, i + 1) = "%"
  <2>1. from \in 1..Len(format) /\ i <= from
    <3>1. "NUL" # "%"
      OBVIOUS
    <3>2. CharAt(format, i + 1) = "%" => i + 1 <= Len(format)
      BY <3>1 DEF CharAt
    <3> QED BY <1>1, <1>2, <1>4, <3>2
  <2>2. e \in Nat /\ from < e /\ e <= Len(format) + 1
    BY <1>3, <2>1, TextEnds
  <2>3. i < e
    BY <1>1, <2>1, <2>2
  <2>4. p[e][a] = q[e][a]
    BY <2>2, <2>3
  <2>5. /\ Prints(p, format, args, i, a) = SubSeq(format, from, e - 1) \o p[e][a]
        /\ Prints(q, format, args, i, a) = SubSeq(format, from, e - 1) \o q[e][a]
    BY <1>4, <1>7, Zenon DEF CasesOf
  <2> QED BY <2>4, <2>5
<1>5. CASE ~(CharAt(format, i) # "%" \/ CharAt(format, i + 1) = "%")
  <2>1. CASE CharAt(format, i + 1) \in Directive
    <3>1. i + 1 <= Len(format)
      <4>1. "NUL" \notin Directive
        BY DEF Directive
      <4> QED BY <2>1, <4>1 DEF CharAt
    <3>2. i + 2 \in Nat /\ a + 1 \in Nat /\ i < i + 2 /\ i + 2 <= Len(format) + 1
      BY <1>1, <3>1
    <3>3. p[i + 2][a + 1] = q[i + 2][a + 1]
      BY <3>2
    <3>4. /\ Prints(p, format, args, i, a) = Converted(CharAt(format, i + 1), args[a]) \o p[i + 2][a + 1]
          /\ Prints(q, format, args, i, a) = Converted(CharAt(format, i + 1), args[a]) \o q[i + 2][a + 1]
      BY <1>5, <1>7, <2>1, Zenon DEF CasesOf
    <3> QED BY <3>3, <3>4
  <2>2. CASE CharAt(format, i + 1) \notin Directive
    <3>1. /\ Prints(p, format, args, i, a) = SubSeq(format, i, Len(format))
          /\ Prints(q, format, args, i, a) = SubSeq(format, i, Len(format))
      BY <1>5, <1>7, <2>2, Zenon DEF CasesOf
    <3> QED BY <3>1
  <2> QED BY <2>1, <2>2
<1> QED BY <1>4, <1>5

\* There is such a function, from the end of the format down to its start.
LEMMA PrintsExists ==
  ASSUME NEW T, NEW format \in Seq(T), NEW args
  PROVE  \E p : PrintsFrom(p, format, args, 1)
<1> DEFINE n == Len(format)
           Good(k) == \E p : PrintsFrom(p, format, args, n + 1 - k)
           Bad == {k \in 0..n : ~Good(k)}
<1>1. n \in Nat
  OBVIOUS
<1>2. Good(0)
  <2> DEFINE p == [i \in n + 1..n + 1 |-> [a \in Nat |-> << >>]]
  <2>1. \A i \in n + 1..n + 1 : i > n
    BY <1>1
  <2>2. p = [i \in n + 1..n + 1 |-> [a \in Nat |-> Prints(p, format, args, i, a)]]
    BY <2>1 DEF Prints
  <2>3. n + 1 - 0 = n + 1
    BY <1>1
  <2> QED BY <2>2, <2>3 DEF PrintsFrom
<1>3. ASSUME NEW k \in 0..n, k # n, Good(k) PROVE Good(k + 1)
  <2>1. PICK p : PrintsFrom(p, format, args, n + 1 - k)
    BY <1>3
  <2>2. PICK f : f = n - k
    OBVIOUS
  <2>3. f \in 1..n /\ n + 1 - k = f + 1 /\ n + 1 - (k + 1) = f
    BY <1>1, <1>3, <2>2
  <2>4. p = [i \in f + 1..n + 1 |-> [a \in Nat |-> Prints(p, format, args, i, a)]]
    BY <2>1, <2>3 DEF PrintsFrom
  <2> DEFINE h == [i \in f..n + 1 |-> [a \in Nat |->
                     IF i = f THEN Prints(p, format, args, f, a) ELSE p[i][a]]]
  <2>5. \A i \in f..n + 1, a \in Nat : h[i][a] = IF i = f THEN Prints(p, format, args, f, a) ELSE p[i][a]
    OBVIOUS
  <2>6. h = [i \in f..n + 1 |-> [a \in Nat |-> h[i][a]]]
    OBVIOUS
  <2> HIDE DEF h
  <2>7. \A j \in Nat, b \in Nat : f < j /\ j <= n + 1 => p[j][b] = h[j][b]
    <3>1. \A j \in Nat : f < j /\ j <= n + 1 => j \in f..n + 1 /\ j # f
      BY <1>1, <2>3
    <3> QED BY <2>5, <3>1
  <2>8. ASSUME NEW i \in f..n + 1, NEW a \in Nat
        PROVE  h[i][a] = Prints(h, format, args, i, a)
    <3>1. CASE i = f
      <4>1. Prints(p, format, args, f, a) = Prints(h, format, args, f, a)
        BY <2>3, <2>7, LaterMatters
      <4> QED BY <2>5, <3>1, <4>1
    <3>2. CASE i # f
      <4>1. i \in f + 1..n + 1 /\ i \in Nat
        BY <1>1, <2>3, <3>2
      <4>2. p[i][a] = Prints(p, format, args, i, a)
        <5>1. p[i] = [b \in Nat |-> Prints(p, format, args, i, b)]
          BY <2>4, <4>1, Zenon
        <5> QED BY <5>1, Zenon
      <4>3. CASE i = n + 1
        <5>1. i > Len(format)
          BY <1>1, <4>3
        <5>2. Prints(p, format, args, i, a) = << >> /\ Prints(h, format, args, i, a) = << >>
          BY <5>1 DEF Prints
        <5> QED BY <2>5, <3>2, <4>2, <5>2
      <4>4. CASE i # n + 1
        <5>1. i \in 1..Len(format)
          BY <1>1, <2>3, <4>1, <4>4
        <5>2. \A j \in Nat, b \in Nat : i < j /\ j <= Len(format) + 1 => p[j][b] = h[j][b]
          <6>1. \A j \in Nat : i < j => f < j
            BY <2>3, <4>1
          <6> QED BY <2>7, <6>1
        <5>3. Prints(p, format, args, i, a) = Prints(h, format, args, i, a)
          BY <5>1, <5>2, LaterMatters
        <5> QED BY <2>5, <3>2, <4>2, <5>3
      <4> QED BY <4>3, <4>4
    <3> QED BY <3>1, <3>2
  <2>9. h = [i \in f..n + 1 |-> [a \in Nat |-> Prints(h, format, args, i, a)]]
    BY <2>6, <2>8
  <2>10. PrintsFrom(h, format, args, n + 1 - (k + 1))
    BY <2>3, <2>9 DEF PrintsFrom
  <2> QED BY <2>10
<1> HIDE DEF Good
<1>4. Bad = {}
  <2> SUFFICES ASSUME Bad # {} PROVE FALSE
    OBVIOUS
  <2>1. Bad \in SUBSET Nat
    OBVIOUS
  <2>2. PICK k \in Bad : \A y \in Bad : k <= y
    BY <2>1, LeastExists
  <2>3. k # 0
    BY <1>2
  <2>4. k - 1 \in 0..n /\ k - 1 # n /\ ~(k <= k - 1) /\ (k - 1) + 1 = k
    BY <1>1, <2>3
  <2>5. Good(k - 1)
    BY <2>2, <2>4
  <2>6. Good((k - 1) + 1)
    BY <1>3, <2>4, <2>5
  <2> QED BY <2>4, <2>6
<1>5. Good(n)
  BY <1>1, <1>4
<1>6. n + 1 - n = 1
  BY <1>1
<1> QED BY <1>5, <1>6 DEF Good

\* p is what vprintk_func prints from each place of the format on.
Printed(p, format, args) ==
  \A i \in 1..Len(format) + 1, a \in Nat : p[i][a] = Prints(p, format, args, i, a)

\* The text that vprintk_func prints.
Outcome(text, format, args) == \E p : text = p[1][1] /\ Printed(p, format, args)

LEMMA PrintedIs ==
  ASSUME NEW T, NEW format \in Seq(T), NEW args, NEW text, text = vprintk_func(format, args)
  PROVE  Outcome(text, format, args)
<1>1. PICK p : p = CHOOSE q : PrintsFrom(q, format, args, 1)
  OBVIOUS
<1>2. PrintsFrom(p, format, args, 1)
  BY <1>1, PrintsExists
<1>3. \A i \in 1..Len(format) + 1, a \in Nat : p[i][a] = Prints(p, format, args, i, a)
  <2> SUFFICES ASSUME NEW i \in 1..Len(format) + 1, NEW a \in Nat
               PROVE  p[i][a] = Prints(p, format, args, i, a)
    OBVIOUS
  <2>1. p[i] = [b \in Nat |-> Prints(p, format, args, i, b)]
    BY <1>2, Zenon DEF PrintsFrom
  <2> QED BY <2>1, Zenon
<1>4. vprintk_func(format, args) = p[1][1]
  BY <1>1, Zenon DEF vprintk_func, PrintsFrom, Prints, CharAt, Ends
<1> QED BY <1>3, <1>4, Zenon DEF Outcome, Printed

\* What is printed from place i on is a text of elements of T, and so is what
\* follows the text that i is in.
Ready(p, format, T, i, a) ==
  /\ p[i][a] \in Seq(T)
  /\ i <= Len(format) /\ format[i] # "%" => p[Min(Ends(format, i))][a] \in Seq(T)

LEMMA Slices ==
  ASSUME NEW T, NEW s \in Seq(T), NEW i \in 1..Len(s), NEW j \in i..Len(s)
  PROVE  /\ SubSeq(s, i, j) \in Seq(T) /\ SubSeq(s, i, i) = <<s[i]>>
         /\ i < j => SubSeq(s, i, j) = <<s[i]>> \o SubSeq(s, i + 1, j)
<1>1. SubSeq(s, i, j) \in Seq(T) /\ Len(SubSeq(s, i, j)) = j - i + 1
      /\ \A k \in 1..(j - i + 1) : SubSeq(s, i, j)[k] = s[i + k - 1]
  OBVIOUS
<1>2. SubSeq(s, i, i) = <<s[i]>>
  <2>1. i \in i..Len(s) /\ i - i + 1 = 1 /\ s[i] \in T
    OBVIOUS
  <2>2. PICK t : t = SubSeq(s, i, i)
    OBVIOUS
  <2>3. t \in Seq(T) /\ Len(t) = 1 /\ t[1] = s[i]
    BY <2>1, <2>2
  <2>4. PICK u : u = <<s[i]>>
    OBVIOUS
  <2>5. u \in Seq(T) /\ Len(u) = 1 /\ u[1] = s[i]
    BY <2>1, <2>4
  <2>6. t = u
    BY <2>3, <2>5
  <2> QED BY <2>2, <2>4, <2>6
<1>3. ASSUME i < j PROVE SubSeq(s, i, j) = <<s[i]>> \o SubSeq(s, i + 1, j)
  <2>1. PICK t : t = SubSeq(s, i + 1, j)
    OBVIOUS
  <2>2. i + 1 \in 1..Len(s) /\ j \in i + 1..Len(s) /\ j - (i + 1) + 1 = j - i
    BY <1>3
  <2>3. t \in Seq(T) /\ Len(t) = j - i /\ \A k \in 1..(j - i) : t[k] = s[i + k]
    BY <1>3, <2>1, <2>2
  <2>4. s[i] \in T
    OBVIOUS
  <2>5. PICK u : u = <<s[i]>> \o t
    OBVIOUS
  <2>6. u \in Seq(T) /\ Len(u) = j - i + 1 /\ u[1] = s[i] /\ \A k \in 2..(j - i + 1) : u[k] = t[k - 1]
    <3>1. PICK v : v = <<s[i]>>
      OBVIOUS
    <3>2. v \in Seq(T) /\ Len(v) = 1 /\ v[1] = s[i]
      BY <2>4, <3>1
    <3>3. u = v \o t /\ Len(t) \in Nat
      BY <2>3, <2>5, <3>1
    <3>4. u \in Seq(T) /\ Len(u) = 1 + Len(t)
      <4>1. u \in Seq(T) /\ Len(u) = Len(v) + Len(t)
        BY <2>3, <3>2, <3>3, ConcatProperties
      <4> QED BY <3>2, <4>1
    <3>5. \A k \in 1..Len(u) : u[k] = IF k <= 1 THEN v[k] ELSE t[k - 1]
      <4>1. \A k \in 1..Len(v) + Len(t) : u[k] = IF k <= Len(v) THEN v[k] ELSE t[k - Len(v)]
        BY <2>3, <3>2, <3>3, ConcatProperties
      <4> QED BY <3>2, <3>4, <4>1
    <3>6. Len(u) = j - i + 1 /\ j - i \in Nat
      BY <2>2, <2>3, <3>4
    <3>7. u[1] = s[i]
      BY <3>2, <3>5, <3>6
    <3>8. \A k \in 2..(j - i + 1) : u[k] = t[k - 1]
      BY <3>5, <3>6
    <3> QED BY <3>4, <3>6, <3>7, <3>8
  <2>7. ASSUME NEW k \in 1..(j - i + 1) PROVE SubSeq(s, i, j)[k] = u[k]
    <3>1. CASE k = 1
      BY <1>1, <2>6, <3>1
    <3>2. CASE k # 1
      <4>1. k \in 2..(j - i + 1) /\ k - 1 \in 1..(j - i) /\ i + (k - 1) = i + k - 1
        BY <3>2
      <4> QED BY <1>1, <2>3, <2>6, <4>1
    <3> QED BY <3>1, <3>2
  <2>8. SubSeq(s, i, j) = u
    <3>1. PICK q : q = SubSeq(s, i, j)
      OBVIOUS
    <3>2. /\ q \in Seq(T) /\ u \in Seq(T) /\ Len(q) = Len(u)
          /\ \A k \in 1..Len(q) : q[k] = u[k]
      BY <1>1, <2>6, <2>7, <3>1
    <3>3. q = u
      BY ONLY <3>2, SeqEqual
    <3> QED BY <3>1, <3>3
  <2> QED BY <2>1, <2>5, <2>8
<1> QED BY <1>1, <1>2, <1>3

LEMMA Associative ==
  ASSUME NEW T, NEW s \in Seq(T), NEW t \in Seq(T), NEW u \in Seq(T)
  PROVE  (s \o t) \o u = s \o (t \o u)
OBVIOUS

LEMMA AtEnd ==
  ASSUME NEW T, NEW format \in Seq(T), NEW args, NEW p, Printed(p, format, args), NEW a \in Nat
  PROVE  p[Len(format) + 1][a] = << >> /\ Ready(p, format, T, Len(format) + 1, a)
<1>1. Len(format) + 1 \in 1..Len(format) + 1 /\ Len(format) + 1 > Len(format)
      /\ ~(Len(format) + 1 <= Len(format))
  OBVIOUS
<1>2. p[Len(format) + 1][a] = << >>
  BY <1>1 DEF Printed, Prints
<1>3. << >> \in Seq(T)
  OBVIOUS
<1> QED BY <1>1, <1>2, <1>3 DEF Ready

\* A text is printed one character after the other.
TextIs(p, format, T, from, a, e) ==
  /\ SubSeq(format, from, e - 1) \o p[e][a] = <<format[from]>> \o p[from + 1][a]
  /\ p[e][a] \in Seq(T) /\ <<format[from]>> \o p[from + 1][a] \in Seq(T)

LEMMA TextPrints ==
  ASSUME NEW T, NEW format \in Seq(T), NEW args, NEW p, Printed(p, format, args), NEW a \in Nat,
         NEW from \in 1..Len(format), NEW e, e = Min(Ends(format, from)),
         Ready(p, format, T, from + 1, a)
  PROVE  TextIs(p, format, T, from, a, e)
<1>1. /\ e \in Nat /\ from < e /\ e <= Len(format) + 1 /\ from \in Nat /\ Len(format) \in Nat
      /\ from < Len(format) /\ format[from + 1] # "%" => e = Min(Ends(format, from + 1))
      /\ from = Len(format) \/ format[from + 1] = "%" => e = from + 1
  BY TextEnds
<1>2. format[from] \in T /\ p[from + 1][a] \in Seq(T)
  BY DEF Ready
<1>3. <<format[from]>> \o p[from + 1][a] \in Seq(T)
  BY <1>2
<1>4. CASE from = Len(format) \/ format[from + 1] = "%"
  <2>1. e = from + 1 /\ e - 1 = from
    BY <1>1, <1>4
  <2>2. SubSeq(format, from, from) = <<format[from]>>
    <3>1. from \in from..Len(format)
      BY <1>1
    <3> QED BY <3>1, Slices
  <2> QED BY <1>2, <1>3, <2>1, <2>2 DEF TextIs
<1>5. CASE from # Len(format) /\ format[from + 1] # "%"
  <2>1. from + 1 \in 1..Len(format) /\ from < Len(format)
    BY <1>1, <1>5
  <2>2. e = Min(Ends(format, from + 1))
    BY <1>1, <1>5, <2>1
  <2>3. from + 1 < e /\ e - 1 \in from..Len(format) /\ from < e - 1
        /\ e - 1 \in from + 1..Len(format)
    <3>1. from + 1 < e
      BY <2>1, <2>2, TextEnds
    <3> QED BY <1>1, <3>1
  <2>4. p[e][a] \in Seq(T)
    BY <1>1, <1>5, <2>1, <2>2 DEF Ready
  <2>5. p[from + 1][a] = SubSeq(format, from + 1, e - 1) \o p[e][a]
    <3>1. PICK i : i = from + 1
      OBVIOUS
    <3>2. i \in 1..Len(format) + 1 /\ ~(i > Len(format)) /\ CharAt(format, i) = format[i]
      BY <1>1, <2>1, <3>1 DEF CharAt
    <3>3. p[i][a] = Prints(p, format, args, i, a)
      BY <3>2 DEF Printed
    <3>4. i = IF CharAt(format, i) = "%" THEN i + 1 ELSE i
      BY <1>5, <3>1, <3>2
    <3>5. e = Min(Ends(format, i))
      BY <2>2, <3>1
    <3>6. CasesOf(Prints(p, format, args, i, a), p, format, args, i, a, i, e)
      BY <3>2, <3>4, <3>5, PrintsCases
    <3>7. CharAt(format, i) # "%"
      BY <1>5, <3>1, <3>2
    <3>8. Prints(p, format, args, i, a) = SubSeq(format, i, e - 1) \o p[e][a]
      BY <3>6, <3>7 DEF CasesOf
    <3> QED BY <3>1, <3>3, <3>8
  <2>6. SubSeq(format, from, e - 1) = <<format[from]>> \o SubSeq(format, from + 1, e - 1)
    BY <2>3, Slices
  <2>7. SubSeq(format, from + 1, e - 1) \in Seq(T)
    BY <2>1, <2>3, Slices
  <2>8. <<format[from]>> \in Seq(T)
    BY <1>2
  <2>9. PICK s, t, u : s = <<format[from]>> /\ t = SubSeq(format, from + 1, e - 1) /\ u = p[e][a]
    OBVIOUS
  <2>10. (s \o t) \o u = s \o (t \o u)
    <3>1. s \in Seq(T) /\ t \in Seq(T) /\ u \in Seq(T)
      BY <2>4, <2>7, <2>8, <2>9
    <3> QED BY ONLY <3>1, Associative
  <2> QED BY <1>3, <2>4, <2>5, <2>6, <2>9, <2>10 DEF TextIs
<1> QED BY <1>4, <1>5

\* printf.c: a character that is no % is printed,
LEMMA CharPrints ==
  ASSUME NEW T, NEW format \in Seq(T), NEW args, NEW p, Printed(p, format, args), NEW a \in Nat,
         NEW i \in 1..Len(format), format[i] # "%", Ready(p, format, T, i + 1, a)
  PROVE  p[i][a] = <<format[i]>> \o p[i + 1][a] /\ Ready(p, format, T, i, a)
<1>1. PICK e : e = Min(Ends(format, i))
  OBVIOUS
<1>2. i \in 1..Len(format) + 1 /\ ~(i > Len(format)) /\ CharAt(format, i) = format[i]
  BY DEF CharAt
<1>3. i = IF CharAt(format, i) = "%" THEN i + 1 ELSE i
  BY <1>2
<1>4. CasesOf(Prints(p, format, args, i, a), p, format, args, i, a, i, e)
  BY <1>1, <1>2, <1>3, PrintsCases
<1>5. p[i][a] = Prints(p, format, args, i, a)
  BY <1>2 DEF Printed
<1>6. p[i][a] = SubSeq(format, i, e - 1) \o p[e][a]
  BY <1>2, <1>4, <1>5 DEF CasesOf
<1>7. TextIs(p, format, T, i, a, e)
  BY <1>1, TextPrints, Zenon
<1> QED BY <1>1, <1>6, <1>7 DEF Ready, TextIs

\* of two % one is,
LEMMA PercentPrints ==
  ASSUME NEW T, NEW format \in Seq(T), NEW args, NEW p, Printed(p, format, args), NEW a \in Nat,
         NEW i \in 1..Len(format), i + 1 <= Len(format), format[i] = "%", format[i + 1] = "%",
         Ready(p, format, T, i + 2, a)
  PROVE  p[i][a] = <<"%">> \o p[i + 2][a] /\ Ready(p, format, T, i, a)
<1>1. PICK from : from = i + 1
  OBVIOUS
<1>2. PICK e : e = Min(Ends(format, from))
  OBVIOUS
<1>3. /\ i \in 1..Len(format) + 1 /\ ~(i > Len(format)) /\ CharAt(format, i) = format[i]
      /\ CharAt(format, i + 1) = format[i + 1] /\ from \in 1..Len(format) /\ from + 1 = i + 2
  BY <1>1 DEF CharAt
<1>4. from = IF CharAt(format, i) = "%" THEN i + 1 ELSE i
  BY <1>1, <1>3
<1>5. CasesOf(Prints(p, format, args, i, a), p, format, args, i, a, from, e)
  BY <1>2, <1>3, <1>4, PrintsCases
<1>6. p[i][a] = Prints(p, format, args, i, a)
  BY <1>3 DEF Printed
<1>7. p[i][a] = SubSeq(format, from, e - 1) \o p[e][a]
  BY <1>3, <1>5, <1>6 DEF CasesOf
<1>8. TextIs(p, format, T, from, a, e)
  <2>1. Ready(p, format, T, from + 1, a)
    BY <1>3
  <2> QED BY <1>2, <1>3, <2>1, TextPrints, Zenon
<1> QED BY <1>1, <1>3, <1>7, <1>8 DEF Ready, TextIs

\* and a directive prints its argument, and the next one takes the next.
LEMMA DirectivePrints ==
  ASSUME NEW T, NEW format \in Seq(T), NEW args, NEW p, Printed(p, format, args), NEW a \in Nat,
         NEW i \in 1..Len(format), i + 1 <= Len(format), format[i] = "%",
         format[i + 1] \in Directive, Ready(p, format, T, i + 2, a + 1),
         Converted(format[i + 1], args[a]) \in Seq(T)
  PROVE  /\ p[i][a] = Converted(format[i + 1], args[a]) \o p[i + 2][a + 1]
         /\ Ready(p, format, T, i, a)
<1>1. PICK from, e : from = (IF CharAt(format, i) = "%" THEN i + 1 ELSE i)
                     /\ e = Min(Ends(format, from))
  OBVIOUS
<1>2. /\ i \in 1..Len(format) + 1 /\ ~(i > Len(format)) /\ CharAt(format, i) = format[i]
      /\ CharAt(format, i + 1) = format[i + 1]
  BY DEF CharAt
<1>3. CasesOf(Prints(p, format, args, i, a), p, format, args, i, a, from, e)
  BY <1>1, <1>2, PrintsCases
<1>4. p[i][a] = Prints(p, format, args, i, a)
  BY <1>2 DEF Printed
<1>5. p[i][a] = Converted(format[i + 1], args[a]) \o p[i + 2][a + 1]
  BY <1>2, <1>3, <1>4 DEF CasesOf
<1>6. p[i + 2][a + 1] \in Seq(T)
  BY DEF Ready
<1> QED BY <1>5, <1>6 DEF Ready

-----------------------------------------------------------------------------
(* The serial port.                                                         *)

\* The serial port as tty.c uses it: characters of S, the rate set when ready.
UartType(S) == [dlab : BOOLEAN, line : Nat, divisor : Nat, received : Seq(S)]
Tty(S) == [uart : UartType(S), serial_ready : BOOLEAN]
Alphabet(S) == Nat \subseteq S /\ "garbled" \in S
TtyOK(tty) == /\ tty.uart.dlab = FALSE
              /\ tty.serial_ready => tty.uart.line = 3 /\ tty.uart.divisor = 1

\* What is written to a register of the port reaches it.
LEMMA SerialPort ==
  ASSUME NEW S, NEW tty \in Tty(S), NEW register \in 0..7, NEW val
  PROVE  outb(tty, COM1 + register, val)
           = [tty EXCEPT !.uart = UartWritten(tty.uart, register, val)]
<1>1. /\ COM1 + register \in COM1..(COM1 + 7) /\ (COM1 + register) - COM1 = register
      /\ COM1 + register > 1000
  BY DEF COM1
<1>2. PICK port : port = COM1 + register
  OBVIOUS
<1>3. port \notin {PIC1_COMMAND, PIC1_DATA} /\ port \notin {PIC2_COMMAND, PIC2_DATA}
      /\ port # 67 /\ port # 64 /\ port # 112
  BY <1>1, <1>2 DEF PIC1_COMMAND, PIC1_DATA, PIC1, PIC2_COMMAND, PIC2_DATA, PIC2
<1>4. outb(tty, port, val) = [tty EXCEPT !.uart = UartWritten(tty.uart, port - COM1, val)]
  <2>1. port \in COM1..(COM1 + 7)
    BY <1>1, <1>2
  <2> QED BY <1>3, <2>1, Zenon DEF outb
<1> QED BY <1>1, <1>2, <1>4

LEMMA UartStays ==
  ASSUME NEW S, Alphabet(S), NEW u \in UartType(S), NEW register \in 0..7, NEW val \in Nat
  PROVE  UartWritten(u, register, val) \in UartType(S)
<1>1. val \in S /\ "garbled" \in S
  BY DEF Alphabet
<1>2. CASE register = 3
  <2>1. UartWritten(u, register, val) = [u EXCEPT !.line = val % 128, !.dlab = val >= 128]
    BY <1>2 DEF UartWritten
  <2>2. val % 128 \in Nat /\ (val >= 128) \in BOOLEAN
    OBVIOUS
  <2> QED BY <2>1, <2>2 DEF UartType
<1>3. CASE register = 0 /\ u.dlab
  <2>1. UartWritten(u, register, val) = [u EXCEPT !.divisor = val + 256 * (u.divisor \div 256)]
    BY <1>3 DEF UartWritten
  <2>2. val + 256 * (u.divisor \div 256) \in Nat
    BY DEF UartType
  <2> QED BY <2>1, <2>2 DEF UartType
<1>4. CASE register = 1 /\ u.dlab
  <2>1. UartWritten(u, register, val) = [u EXCEPT !.divisor = (u.divisor % 256) + 256 * val]
    BY <1>4 DEF UartWritten
  <2>2. (u.divisor % 256) + 256 * val \in Nat
    BY DEF UartType
  <2> QED BY <2>1, <2>2 DEF UartType
<1>5. CASE register = 0 /\ ~u.dlab
  <2>1. PICK c : c = IF u.line = 3 /\ u.divisor = 1 THEN val ELSE "garbled"
    OBVIOUS
  <2>2. c \in S
    BY <1>1, <2>1
  <2>3. UartWritten(u, register, val) = [u EXCEPT !.received = Append(u.received, c)]
    BY <1>5, <2>1 DEF UartWritten
  <2>4. Append(u.received, c) \in Seq(S)
    BY <2>2 DEF UartType
  <2> QED BY <2>3, <2>4 DEF UartType
<1>6. CASE register # 3 /\ register # 0 /\ ~(register = 1 /\ u.dlab)
  BY <1>6 DEF UartWritten
<1> QED BY <1>2, <1>3, <1>4, <1>5, <1>6

\* A series of writes, one after the other.
PortWrite == {<<COM1 + r, v>> : r \in 0..7, v \in Nat}

OutIter(g, tty, writes) ==
  g = [s \in SUBSET (1..Len(writes)) |->
         IF s = {} THEN tty
         ELSE outb(g[s \ {Max(s)}], writes[Max(s)][1], writes[Max(s)][2])]

LEMMA WriteStays ==
  ASSUME NEW S, Alphabet(S), NEW tty \in Tty(S), NEW w \in PortWrite
  PROVE  outb(tty, w[1], w[2]) \in Tty(S)
<1>1. PICK r \in 0..7, v \in Nat : w = <<COM1 + r, v>>
  BY DEF PortWrite
<1>2. outb(tty, COM1 + r, v) = [tty EXCEPT !.uart = UartWritten(tty.uart, r, v)]
  BY SerialPort
<1>3. UartWritten(tty.uart, r, v) \in UartType(S)
  <2>1. tty.uart \in UartType(S)
    BY DEF Tty
  <2> QED BY <2>1, UartStays
<1>4. [tty EXCEPT !.uart = UartWritten(tty.uart, r, v)] \in Tty(S)
  BY <1>3 DEF Tty
<1>5. w[1] = COM1 + r /\ w[2] = v
  BY <1>1
<1> QED BY <1>2, <1>4, <1>5

LEMMA OutRuns ==
  ASSUME NEW S, Alphabet(S), NEW tty \in Tty(S), NEW writes \in Seq(PortWrite)
  PROVE  \E g : /\ Out(tty, writes) = g[1..Len(writes)] /\ g[1..0] = tty
                /\ \A i \in 1..Len(writes) :
                     g[1..i] = outb(g[1..(i - 1)], writes[i][1], writes[i][2])
<1> DEFINE n == Len(writes)
           fold == [p \in (1..n) \X Tty(S) |-> outb(p[2], writes[p[1]][1], writes[p[1]][2])]
<1>1. n \in Nat /\ \A i \in 1..n : writes[i] \in PortWrite
  OBVIOUS
<1>2. fold \in [(1..n) \X Tty(S) -> Tty(S)]
  BY <1>1, WriteStays
<1>3. \A i \in 1..n, v \in Tty(S) : fold[<<i, v>>] = outb(v, writes[i][1], writes[i][2])
  OBVIOUS
<1> HIDE DEF fold
<1>4. PICK g \in [SUBSET (1..n) -> Tty(S)] : FoldIs(g, tty, fold, n)
  BY <1>1, <1>2, FoldExists
<1>5. OutIter(g, tty, writes)
  <2>1. ASSUME NEW s \in SUBSET (1..n), s # {}
        PROVE  fold[<<Max(s), g[s \ {Max(s)}]>>]
                 = outb(g[s \ {Max(s)}], writes[Max(s)][1], writes[Max(s)][2])
    <3>1. Max(s) \in 1..n
      BY <1>1, <2>1, MaxBelow
    <3>2. g[s \ {Max(s)}] \in Tty(S)
      <4>1. s \ {Max(s)} \in SUBSET (1..n)
        OBVIOUS
      <4> QED BY <4>1
    <3> QED BY <1>3, <3>1, <3>2
  <2>2. g = [s \in SUBSET (1..n) |-> IF s = {} THEN tty
                ELSE outb(g[s \ {Max(s)}], writes[Max(s)][1], writes[Max(s)][2])]
    BY <1>4, <2>1, Zenon DEF FoldIs
  <2> QED BY <2>2, Zenon DEF OutIter
<1>6. PICK h : h = CHOOSE f : OutIter(f, tty, writes)
  OBVIOUS
<1>7. OutIter(h, tty, writes)
  BY <1>5, <1>6
<1>8. \A s \in SUBSET (1..n) :
        h[s] = IF s = {} THEN tty
               ELSE outb(h[s \ {Max(s)}], writes[Max(s)][1], writes[Max(s)][2])
  BY <1>7 DEF OutIter
<1>9. h[1..0] = tty
  <2>1. 1..0 = {} /\ {} \in SUBSET (1..n)
    OBVIOUS
  <2> QED BY <1>8, <2>1
<1>10. ASSUME NEW i \in 1..n
       PROVE  h[1..i] = outb(h[1..(i - 1)], writes[i][1], writes[i][2])
  <2>1. PICK s, p : s = 1..i /\ p = 1..(i - 1)
    OBVIOUS
  <2>4. n \in Nat
    BY <1>1
  <2> HIDE DEF n
  <2>2. s \in SUBSET (1..n) /\ s # {} /\ Max(s) = i /\ s \ {i} = p
    BY <2>1, <2>4, IndicesUpTo
  <2>3. h[s] = outb(h[p], writes[i][1], writes[i][2])
    BY <1>8, <2>2
  <2> QED BY <2>1, <2>3
<1>11. Out(tty, writes) = h[1..n]
  <2>1. DOMAIN writes = 1..n
    OBVIOUS
  <2>2. Out(tty, writes) = (CHOOSE f : OutIter(f, tty, writes))[1..n]
    BY <2>1, Zenon DEF Out, FoldLeft, MapThenFoldSet, OutIter
  <2> QED BY <1>6, <2>2
<1> QED BY <1>9, <1>10, <1>11

SerialInit == << <<COM1 + 1, 0>>, <<COM1 + 3, 128>>, <<COM1, 1>>, <<COM1 + 1, 0>>,
                 <<COM1 + 3, 3>>, <<COM1 + 2, 199>>, <<COM1 + 4, 11>> >>

\* What the properties of the port are about.
Latched(tty) == tty.uart.dlab = TRUE
Line(tty)    == tty.uart.line
Divisor(tty) == tty.uart.divisor
Heard(tty)   == tty.uart.received

LEMMA LineWritten ==
  ASSUME NEW u, NEW v, NEW register, register = 3
  PROVE  UartWritten(u, register, v) = [u EXCEPT !.line = v % 128, !.dlab = (v >= 128)]
BY DEF UartWritten

LEMMA SetsDivisor ==
  ASSUME NEW S, NEW t \in Tty(S), NEW q, Alphabet(S), q = outb(t, COM1 + 3, 128)
  PROVE  /\ q \in Tty(S) /\ q.serial_ready = t.serial_ready
         /\ Latched(q) /\ Line(q) = 0 /\ Divisor(q) = Divisor(t)
         /\ Heard(q) = Heard(t)
<1>1. PICK u : u = t.uart
  OBVIOUS
<1>2. u \in UartType(S) /\ 3 \in 0..7
  BY <1>1 DEF Tty
<1>3. q = [t EXCEPT !.uart = UartWritten(u, 3, 128)]
  BY <1>1, <1>2, SerialPort
<1>4. PICK w : w = [u EXCEPT !.line = 0, !.dlab = TRUE]
  OBVIOUS
<1>5. UartWritten(u, 3, 128) = w
  <2>1. 128 % 128 = 0 /\ ((128 >= 128) = TRUE)
    OBVIOUS
  <2>2. UartWritten(u, 3, 128) = [u EXCEPT !.line = 128 % 128, !.dlab = (128 >= 128)]
    BY LineWritten
  <2> QED BY <1>4, <2>1, <2>2, Zenon
<1>6. q = [t EXCEPT !.uart = w]
  BY <1>3, <1>5
<1>7. w \in UartType(S) /\ w.dlab = TRUE /\ w.line = 0 /\ w.divisor = u.divisor /\ w.received = u.received
  BY <1>1, <1>2, <1>4 DEF UartType, Latched
<1> QED BY <1>1, <1>6, <1>7 DEF Tty, Heard, Latched, Line, Divisor

LEMMA SetsLine ==
  ASSUME NEW S, NEW t \in Tty(S), NEW q, Alphabet(S), q = outb(t, COM1 + 3, 3)
  PROVE  /\ q \in Tty(S) /\ q.serial_ready = t.serial_ready
         /\ ~Latched(q) /\ Line(q) = 3 /\ Divisor(q) = Divisor(t)
         /\ Heard(q) = Heard(t)
<1>1. PICK u : u = t.uart
  OBVIOUS
<1>2. u \in UartType(S) /\ 3 \in 0..7
  BY <1>1 DEF Tty
<1>3. q = [t EXCEPT !.uart = UartWritten(u, 3, 3)]
  BY <1>1, <1>2, SerialPort
<1>4. PICK w : w = [u EXCEPT !.line = 3, !.dlab = FALSE]
  OBVIOUS
<1>5. UartWritten(u, 3, 3) = w
  <2>1. 3 % 128 = 3 /\ ((3 >= 128) = FALSE)
    OBVIOUS
  <2>2. UartWritten(u, 3, 3) = [u EXCEPT !.line = 3 % 128, !.dlab = (3 >= 128)]
    BY LineWritten
  <2> QED BY <1>4, <2>1, <2>2, Zenon
<1>6. q = [t EXCEPT !.uart = w]
  BY <1>3, <1>5
<1>7. w \in UartType(S) /\ w.dlab = FALSE /\ w.line = 3 /\ w.divisor = u.divisor /\ w.received = u.received
  BY <1>1, <1>2, <1>4 DEF UartType, Latched
<1> QED BY <1>1, <1>6, <1>7 DEF Tty, Heard, Latched, Line, Divisor

LEMMA DivisorLow ==
  ASSUME NEW S, NEW t \in Tty(S), NEW q, Alphabet(S), Latched(t), q = outb(t, COM1 + 0, 1)
  PROVE  /\ q \in Tty(S) /\ q.serial_ready = t.serial_ready
         /\ Latched(q) /\ Line(q) = Line(t) /\ Divisor(q) = 1 + 256 * (Divisor(t) \div 256)
         /\ Heard(q) = Heard(t)
<1>1. PICK u : u = t.uart
  OBVIOUS
<1>2. u \in UartType(S) /\ 0 \in 0..7
  BY <1>1 DEF Tty
<1>3. q = [t EXCEPT !.uart = UartWritten(u, 0, 1)]
  BY <1>1, <1>2, SerialPort
<1>4. PICK w : w = [u EXCEPT !.divisor = 1 + 256 * (u.divisor \div 256)]
  OBVIOUS
<1>5. UartWritten(u, 0, 1) = w
  BY <1>1, <1>2, <1>4 DEF UartWritten, UartType, Latched, Line, Divisor
<1>6. q = [t EXCEPT !.uart = w]
  BY <1>3, <1>5
<1>7. w \in UartType(S) /\ w.dlab = TRUE /\ w.line = u.line /\ w.divisor = 1 + 256 * (u.divisor \div 256) /\ w.received = u.received
  BY <1>1, <1>2, <1>4 DEF UartType, Latched
<1> QED BY <1>1, <1>6, <1>7 DEF Tty, Heard, Latched, Line, Divisor

LEMMA DivisorHigh ==
  ASSUME NEW S, NEW t \in Tty(S), NEW q, Alphabet(S), Latched(t), q = outb(t, COM1 + 1, 0)
  PROVE  /\ q \in Tty(S) /\ q.serial_ready = t.serial_ready
         /\ Latched(q) /\ Line(q) = Line(t) /\ Divisor(q) = Divisor(t) % 256
         /\ Heard(q) = Heard(t)
<1>1. PICK u : u = t.uart
  OBVIOUS
<1>2. u \in UartType(S) /\ 1 \in 0..7
  BY <1>1 DEF Tty
<1>3. q = [t EXCEPT !.uart = UartWritten(u, 1, 0)]
  BY <1>1, <1>2, SerialPort
<1>4. PICK w : w = [u EXCEPT !.divisor = u.divisor % 256]
  OBVIOUS
<1>5. UartWritten(u, 1, 0) = w
  <2>1. PICK x, y : x = u.divisor % 256 /\ y = x + 256 * 0
    OBVIOUS
  <2>2. x \in Int
    BY <1>2, <2>1 DEF UartType
  <2>3. y = x
    BY <2>1, <2>2
  <2>4. 1 # 3 /\ 1 # 0 /\ u.dlab
    BY <1>1 DEF Latched
  <2>5. UartWritten(u, 1, 0) = [u EXCEPT !.divisor = y]
    BY <2>1, <2>4 DEF UartWritten
  <2> QED BY <1>4, <2>1, <2>3, <2>5
<1>6. q = [t EXCEPT !.uart = w]
  BY <1>3, <1>5
<1>7. w \in UartType(S) /\ w.dlab = TRUE /\ w.line = u.line /\ w.divisor = u.divisor % 256 /\ w.received = u.received
  BY <1>1, <1>2, <1>4 DEF UartType, Latched
<1> QED BY <1>1, <1>6, <1>7 DEF Tty, Heard, Latched, Line, Divisor

LEMMA Transmits ==
  ASSUME NEW S, NEW t \in Tty(S), NEW v \in S, NEW q, Alphabet(S), ~Latched(t),
         Line(t) = 3, Divisor(t) = 1, q = outb(t, COM1 + 0, v)
  PROVE  /\ q \in Tty(S) /\ q.serial_ready = t.serial_ready
         /\ ~Latched(q) /\ Line(q) = 3 /\ Divisor(q) = 1
         /\ Heard(q) = Append(Heard(t), v)
<1>1. PICK u : u = t.uart
  OBVIOUS
<1>2. u \in UartType(S) /\ 0 \in 0..7
  BY <1>1 DEF Tty
<1>3. q = [t EXCEPT !.uart = UartWritten(u, 0, v)]
  BY <1>1, <1>2, SerialPort
<1>4. PICK w : w = [u EXCEPT !.received = Append(u.received, v)]
  OBVIOUS
<1>5. UartWritten(u, 0, v) = w
  BY <1>1, <1>2, <1>4 DEF UartWritten, UartType, Latched, Line, Divisor
<1>6. q = [t EXCEPT !.uart = w]
  BY <1>3, <1>5
<1>7. w \in UartType(S) /\ w.dlab = FALSE /\ w.line = 3 /\ w.divisor = 1 /\ w.received = Append(u.received, v)
  <2>1. u.received \in Seq(S) /\ u.dlab \in BOOLEAN
    BY <1>2 DEF UartType
  <2>2. PICK r : r = Append(u.received, v)
    OBVIOUS
  <2>3. r \in Seq(S)
    BY <2>1, <2>2
  <2>4. w = [u EXCEPT !.received = r]
    BY <1>4, <2>2
  <2> QED BY <1>1, <1>2, <2>1, <2>2, <2>3, <2>4 DEF UartType, Latched, Line, Divisor
<1> QED BY <1>1, <1>6, <1>7 DEF Tty, Heard, Latched, Line, Divisor

LEMMA Ignored ==
  ASSUME NEW S, NEW t \in Tty(S), NEW v, NEW register \in {1, 2, 4},
         register = 1 => ~Latched(t)
  PROVE  outb(t, COM1 + register, v) = t
<1>1. UartWritten(t.uart, register, v) = t.uart
  BY DEF UartWritten, Latched, Tty, UartType
<1>2. outb(t, COM1 + register, v) = [t EXCEPT !.uart = UartWritten(t.uart, register, v)]
  BY SerialPort
<1> QED BY <1>1, <1>2 DEF Tty

\* tty.c: the first character finds the port set up, with nothing sent.
LEMMA SerialIsSet ==
  ASSUME NEW S, Alphabet(S), NEW tty \in Tty(S), ~Latched(tty)
  PROVE  /\ Out(tty, SerialInit) \in Tty(S)
         /\ TtyOK([Out(tty, SerialInit) EXCEPT !.serial_ready = TRUE])
         /\ Heard(Out(tty, SerialInit)) = Heard(tty)
<1>1. SerialInit \in Seq(PortWrite) /\ Len(SerialInit) = 7
  <2>1. \A r \in 0..7, v \in Nat : <<COM1 + r, v>> \in PortWrite
    BY DEF PortWrite
  <2>2. COM1 = COM1 + 0
    BY DEF COM1
  <2>3. /\ <<COM1 + 1, 0>> \in PortWrite /\ <<COM1 + 3, 128>> \in PortWrite
        /\ <<COM1, 1>> \in PortWrite /\ <<COM1 + 3, 3>> \in PortWrite
        /\ <<COM1 + 2, 199>> \in PortWrite /\ <<COM1 + 4, 11>> \in PortWrite
    BY <2>1, <2>2
  <2> HIDE DEF PortWrite
  <2> QED BY <2>3 DEF SerialInit
<1>2. PICK g : /\ Out(tty, SerialInit) = g[1..Len(SerialInit)] /\ g[1..0] = tty
               /\ \A i \in 1..Len(SerialInit) :
                    g[1..i] = outb(g[1..(i - 1)], SerialInit[i][1], SerialInit[i][2])
  <2>1. SerialInit \in Seq(PortWrite)
    BY <1>1
  <2> QED BY ONLY <2>1, OutRuns, Alphabet(S), tty \in Tty(S)
<1>3. /\ g[1..1] = outb(g[1..0], COM1 + 1, 0) /\ g[1..2] = outb(g[1..1], COM1 + 3, 128)
      /\ g[1..3] = outb(g[1..2], COM1 + 0, 1) /\ g[1..4] = outb(g[1..3], COM1 + 1, 0)
      /\ g[1..5] = outb(g[1..4], COM1 + 3, 3) /\ g[1..6] = outb(g[1..5], COM1 + 2, 199)
      /\ g[1..7] = outb(g[1..6], COM1 + 4, 11)
  <2>1. COM1 = COM1 + 0
    BY DEF COM1
  <2>2. /\ SerialInit[1] = <<COM1 + 1, 0>> /\ SerialInit[2] = <<COM1 + 3, 128>>
        /\ SerialInit[3] = <<COM1 + 0, 1>> /\ SerialInit[4] = <<COM1 + 1, 0>>
        /\ SerialInit[5] = <<COM1 + 3, 3>> /\ SerialInit[6] = <<COM1 + 2, 199>>
        /\ SerialInit[7] = <<COM1 + 4, 11>>
    BY <2>1 DEF SerialInit
  <2>3. \A i \in 1..7 : g[1..i] = outb(g[1..(i - 1)], SerialInit[i][1], SerialInit[i][2])
    BY <1>1, <1>2
  <2>4. /\ 1 - 1 = 0 /\ 2 - 1 = 1 /\ 3 - 1 = 2 /\ 4 - 1 = 3 /\ 5 - 1 = 4 /\ 6 - 1 = 5 /\ 7 - 1 = 6
        /\ 1 \in 1..7 /\ 2 \in 1..7 /\ 3 \in 1..7 /\ 4 \in 1..7 /\ 5 \in 1..7 /\ 6 \in 1..7 /\ 7 \in 1..7
    OBVIOUS
  <2>5. g[1..1] = outb(g[1..0], SerialInit[1][1], SerialInit[1][2])
    BY <2>3, <2>4
  <2>6. g[1..2] = outb(g[1..1], SerialInit[2][1], SerialInit[2][2])
    BY <2>3, <2>4
  <2>7. g[1..3] = outb(g[1..2], SerialInit[3][1], SerialInit[3][2])
    BY <2>3, <2>4
  <2>8. g[1..4] = outb(g[1..3], SerialInit[4][1], SerialInit[4][2])
    BY <2>3, <2>4
  <2>9. g[1..5] = outb(g[1..4], SerialInit[5][1], SerialInit[5][2])
    BY <2>3, <2>4
  <2>10. g[1..6] = outb(g[1..5], SerialInit[6][1], SerialInit[6][2])
    BY <2>3, <2>4
  <2>11. g[1..7] = outb(g[1..6], SerialInit[7][1], SerialInit[7][2])
    BY <2>3, <2>4
  <2> QED BY <2>2, <2>5, <2>6, <2>7, <2>8, <2>9, <2>10, <2>11
<1>4. PICK a, b, c, d, e, f, h :
        /\ a = g[1..1] /\ b = g[1..2] /\ c = g[1..3] /\ d = g[1..4] /\ e = g[1..5] /\ f = g[1..6]
        /\ h = g[1..7]
  OBVIOUS
<1>5. h = Out(tty, SerialInit) /\ a = outb(tty, COM1 + 1, 0)
  BY <1>1, <1>2, <1>3, <1>4
<1>6. /\ b = outb(a, COM1 + 3, 128) /\ c = outb(b, COM1 + 0, 1) /\ d = outb(c, COM1 + 1, 0)
      /\ e = outb(d, COM1 + 3, 3) /\ f = outb(e, COM1 + 2, 199) /\ h = outb(f, COM1 + 4, 11)
  BY <1>3, <1>4
<1>7. a = tty
  BY <1>5, Ignored
<1>8. b \in Tty(S) /\ Latched(b) /\ Heard(b) = Heard(tty)
  <2>1. a \in Tty(S) /\ b = outb(a, COM1 + 3, 128) /\ Heard(a) = Heard(tty)
    BY <1>6, <1>7
  <2>2. a \in Tty(S) /\ Alphabet(S)
    BY <2>1
  <2>3. /\ b \in Tty(S) /\ Latched(b)
        /\ Heard(b) = Heard(a)
    BY <2>1, <2>2, SetsDivisor
  <2> QED BY <2>1, <2>3
<1>9. PICK n, m : n = Divisor(b) /\ m = n \div 256
  OBVIOUS
<1>10. n \in Nat /\ m \in Nat
  <2>1. n \in Nat
    BY <1>8, <1>9 DEF Tty, UartType, Divisor
  <2> QED BY <1>9, <2>1
<1>11. c \in Tty(S) /\ Latched(c) /\ Divisor(c) = 1 + 256 * m
       /\ Heard(c) = Heard(tty)
  <2>1. c = outb(b, COM1 + 0, 1)
    BY <1>6
  <2>2. b \in Tty(S) /\ Latched(b)
    BY <1>8
  <2>3. /\ c \in Tty(S) /\ Latched(c) /\ Heard(c) = Heard(b)
        /\ Divisor(c) = 1 + 256 * (Divisor(b) \div 256)
    BY <2>1, <2>2, DivisorLow
  <2> QED BY <1>8, <1>9, <2>3
<1>12. d \in Tty(S) /\ Divisor(d) = 1 /\ Heard(d) = Heard(tty)
  <2>1. d \in Tty(S) /\ Divisor(d) = (1 + 256 * m) % 256 /\ Heard(d) = Heard(tty)
    <3>1. d = outb(c, COM1 + 1, 0)
      BY <1>6
    <3>2. c \in Tty(S) /\ Latched(c)
      BY <1>11
    <3>3. d \in Tty(S) /\ Divisor(d) = Divisor(c) % 256 /\ Heard(d) = Heard(c)
      BY <3>1, <3>2, DivisorHigh
    <3> QED BY <1>11, <3>3
  <2>2. (1 + 256 * m) % 256 = 1
    BY <1>10
  <2> QED BY <2>1, <2>2
<1>13. e \in Tty(S) /\ Divisor(e) = 1 /\ ~Latched(e) /\ Line(e) = 3
       /\ Heard(e) = Heard(tty)
  <2>1. e = outb(d, COM1 + 3, 3)
    BY <1>6
  <2> QED BY ONLY <1>12, <2>1, SetsLine, Alphabet(S)
<1>14. f = e /\ h = e
  BY <1>6, <1>13, Ignored
<1>15. h \in Tty(S) /\ Divisor(h) = 1 /\ ~Latched(h) /\ Line(h) = 3
       /\ Heard(h) = Heard(tty)
  BY <1>13, <1>14
<1>16. [h EXCEPT !.serial_ready = TRUE].uart = h.uart
  BY <1>15 DEF Tty
<1>17. TtyOK([h EXCEPT !.serial_ready = TRUE])
  BY <1>15, <1>16 DEF TtyOK, Tty, UartType, Latched, Line, Divisor
<1> QED BY <1>5, <1>15, <1>17

\* tty.c: a character comes out after those before it.
LEMMA SerialOut ==
  ASSUME NEW S, NEW t \in Tty(S), NEW c \in S, NEW q, Alphabet(S), TtyOK(t), q = serial_out(t, c)
  PROVE  q \in Tty(S) /\ TtyOK(q) /\ q.serial_ready /\ Heard(q) = Append(Heard(t), c)
<1>1. PICK r : r = IF t.serial_ready THEN t ELSE [Out(t, SerialInit) EXCEPT !.serial_ready = TRUE]
  OBVIOUS
<1>2. q = outb(r, COM1, c)
  BY <1>1 DEF serial_out, SerialInit
<1>3. r \in Tty(S) /\ TtyOK(r) /\ r.serial_ready /\ Heard(r) = Heard(t)
  <2>1. CASE t.serial_ready
    BY <1>1, <2>1
  <2>2. CASE ~t.serial_ready
    <3>1. PICK o : o = Out(t, SerialInit)
      OBVIOUS
    <3>2. ~Latched(t)
      BY DEF TtyOK, Latched
    <3>3. o \in Tty(S) /\ TtyOK([o EXCEPT !.serial_ready = TRUE]) /\ Heard(o) = Heard(t)
      BY <3>1, <3>2, SerialIsSet
    <3>4. r = [o EXCEPT !.serial_ready = TRUE]
      BY <1>1, <2>2, <3>1
    <3> QED BY <3>3, <3>4 DEF Tty, Heard
  <2> QED BY <2>1, <2>2
<1>4. COM1 = COM1 + 0
  BY DEF COM1
<1>5. ~Latched(r) /\ Line(r) = 3 /\ Divisor(r) = 1
  BY <1>3 DEF TtyOK, Latched, Line, Divisor
<1>6. q = outb(r, COM1 + 0, c)
  BY <1>2, <1>4
<1>7. /\ q \in Tty(S) /\ q.serial_ready = r.serial_ready
      /\ ~Latched(q) /\ Line(q) = 3 /\ Divisor(q) = 1
      /\ Heard(q) = Append(Heard(r), c)
  BY <1>3, <1>5, <1>6, Transmits
<1>8. TtyOK(q)
  BY <1>7 DEF TtyOK, Latched, Line, Divisor, Tty, UartType
<1> QED BY <1>3, <1>7, <1>8

SerialIter(g, tty, text) ==
  g = [s \in SUBSET (1..Len(text)) |->
         IF s = {} THEN tty ELSE serial_out(g[s \ {Max(s)}], text[Max(s)])]

Sent(tty, text) == FoldLeft(serial_out, tty, text)

LEMMA SerialRuns ==
  ASSUME NEW S, NEW tty \in Tty(S), NEW text \in Seq(S), Alphabet(S), TtyOK(tty)
  PROVE  \E g : /\ Sent(tty, text) = g[1..Len(text)] /\ g[1..0] = tty
                /\ \A i \in 1..Len(text) : g[1..i] = serial_out(g[1..(i - 1)], text[i])
<1> DEFINE n == Len(text)
           V == {t \in Tty(S) : TtyOK(t)}
           fold == [p \in (1..n) \X V |-> serial_out(p[2], text[p[1]])]
<1>1. n \in Nat /\ \A i \in 1..n : text[i] \in S
  OBVIOUS
<1>2. fold \in [(1..n) \X V -> V]
  <2>1. ASSUME NEW i \in 1..n, NEW t \in V PROVE serial_out(t, text[i]) \in V
    <3>1. text[i] \in S /\ t \in Tty(S) /\ TtyOK(t)
      BY <1>1
    <3>2. PICK q : q = serial_out(t, text[i])
      OBVIOUS
    <3>3. q \in Tty(S) /\ TtyOK(q)
      BY <3>1, <3>2, SerialOut
    <3> QED BY <3>2, <3>3
  <2> HIDE DEF V
  <2> QED BY <2>1
<1>3. \A i \in 1..n, v \in V : fold[<<i, v>>] = serial_out(v, text[i])
  OBVIOUS
<1>10. tty \in V
  OBVIOUS
<1> HIDE DEF fold, V
<1>4. PICK g \in [SUBSET (1..n) -> V] : FoldIs(g, tty, fold, n)
  BY <1>1, <1>2, <1>10, FoldExists
<1>5. SerialIter(g, tty, text)
  <2>1. ASSUME NEW s \in SUBSET (1..n), s # {}
        PROVE  fold[<<Max(s), g[s \ {Max(s)}]>>] = serial_out(g[s \ {Max(s)}], text[Max(s)])
    <3>1. Max(s) \in 1..n
      BY <1>1, <2>1, MaxBelow
    <3>2. g[s \ {Max(s)}] \in V
      <4>1. s \ {Max(s)} \in SUBSET (1..n)
        OBVIOUS
      <4> QED BY <4>1
    <3> QED BY <1>3, <3>1, <3>2
  <2>2. g = [s \in SUBSET (1..n) |-> IF s = {} THEN tty
                ELSE serial_out(g[s \ {Max(s)}], text[Max(s)])]
    BY <1>4, <2>1, Zenon DEF FoldIs
  <2> QED BY <2>2, Zenon DEF SerialIter
<1>6. PICK h : h = CHOOSE f : SerialIter(f, tty, text)
  OBVIOUS
<1>7. SerialIter(h, tty, text)
  BY <1>5, <1>6
<1>8. \A s \in SUBSET (1..n) :
        h[s] = IF s = {} THEN tty ELSE serial_out(h[s \ {Max(s)}], text[Max(s)])
  BY <1>7 DEF SerialIter
<1>9. h[1..0] = tty
  <2>1. 1..0 = {} /\ {} \in SUBSET (1..n)
    OBVIOUS
  <2> QED BY <1>8, <2>1
<1>11. ASSUME NEW i \in 1..n
       PROVE  h[1..i] = serial_out(h[1..(i - 1)], text[i])
  <2>1. PICK s, p : s = 1..i /\ p = 1..(i - 1)
    OBVIOUS
  <2>4. n \in Nat
    BY <1>1
  <2> HIDE DEF n
  <2>2. s \in SUBSET (1..n) /\ s # {} /\ Max(s) = i /\ s \ {i} = p
    BY <2>1, <2>4, IndicesUpTo
  <2>3. h[s] = serial_out(h[p], text[i])
    BY <1>8, <2>2
  <2> QED BY <2>1, <2>3
<1>12. Sent(tty, text) = h[1..n]
  <2>1. DOMAIN text = 1..n
    OBVIOUS
  <2>2. Sent(tty, text) = (CHOOSE f : SerialIter(f, tty, text))[1..n]
    BY <2>1, Zenon DEF Sent, FoldLeft, MapThenFoldSet, SerialIter
  <2> QED BY <1>6, <2>2
<1> QED BY <1>9, <1>11, <1>12

AppendLater(v, u, c) == Append(v \o u, c) = v \o Append(u, c)

LEMMA AppendJoined ==
  ASSUME NEW S, NEW v \in Seq(S), NEW u \in Seq(S), NEW c \in S
  PROVE  AppendLater(v, u, c)
BY DEF AppendLater

LEMMA OneLonger ==
  ASSUME NEW S, NEW s \in Seq(S), NEW i \in 1..Len(s)
  PROVE  SubSeq(s, 1, i) = Append(SubSeq(s, 1, i - 1), s[i])
<1>1. PICK t, u : t = SubSeq(s, 1, i) /\ u = SubSeq(s, 1, i - 1)
  OBVIOUS
<1>2. t \in Seq(S) /\ Len(t) = i /\ \A k \in 1..i : t[k] = s[k]
  BY <1>1
<1>3. u \in Seq(S) /\ Len(u) = i - 1 /\ \A k \in 1..(i - 1) : u[k] = s[k]
  BY <1>1
<1>4. PICK v : v = Append(u, s[i])
  OBVIOUS
<1>5. s[i] \in S
  OBVIOUS
<1>6. v \in Seq(S) /\ Len(v) = i /\ v[i] = s[i] /\ \A k \in 1..(i - 1) : v[k] = u[k]
  BY <1>3, <1>4, <1>5
<1>7. \A k \in 1..i : t[k] = v[k]
  BY <1>2, <1>3, <1>6
<1>8. t = v
  BY <1>2, <1>6, <1>7
<1> QED BY <1>1, <1>4, <1>8

\* A text comes out after what came out before it.
LEMMA SerialWritten ==
  ASSUME NEW S, NEW tty \in Tty(S), NEW text \in Seq(S), NEW q, Alphabet(S), TtyOK(tty),
         q = Sent(tty, text)
  PROVE  q \in Tty(S) /\ TtyOK(q) /\ Heard(q) = Heard(tty) \o text
<1> DEFINE n == Len(text)
<1>1. PICK g : /\ q = g[1..n] /\ g[1..0] = tty
               /\ \A i \in 1..n : g[1..i] = serial_out(g[1..(i - 1)], text[i])
  BY SerialRuns
<1> DEFINE Good(i) == /\ g[1..i] \in Tty(S) /\ TtyOK(g[1..i])
                      /\ Heard(g[1..i]) = Heard(tty) \o SubSeq(text, 1, i)
           Bad == {i \in 0..n : ~Good(i)}
<1>2. n \in Nat /\ Heard(tty) \in Seq(S)
  BY DEF Tty, UartType, Heard
<1>3. Good(0)
  <2>1. SubSeq(text, 1, 0) = << >>
    OBVIOUS
  <2>2. Heard(tty) \o << >> = Heard(tty)
    BY <1>2
  <2>3. g[1..0] = tty
    BY <1>1
  <2> QED BY <2>1, <2>2, <2>3
<1>4. ASSUME NEW i \in 1..n, Good(i - 1) PROVE Good(i)
  <2>1. PICK t, c, r : t = g[1..(i - 1)] /\ c = text[i] /\ r = g[1..i]
    OBVIOUS
  <2>2. t \in Tty(S) /\ TtyOK(t) /\ Heard(t) = Heard(tty) \o SubSeq(text, 1, i - 1)
    BY <1>4, <2>1
  <2>3. c \in S /\ r = serial_out(t, c)
    BY <1>1, <2>1
  <2>4. r \in Tty(S) /\ TtyOK(r) /\ Heard(r) = Append(Heard(t), c)
    BY <2>2, <2>3, SerialOut
  <2>5. SubSeq(text, 1, i) = Append(SubSeq(text, 1, i - 1), c)
    BY <2>1, OneLonger
  <2>6. SubSeq(text, 1, i - 1) \in Seq(S)
    OBVIOUS
  <2>7. PICK u, v : u = SubSeq(text, 1, i - 1) /\ v = Heard(tty)
    OBVIOUS
  <2>8. Append(v \o u, c) = v \o Append(u, c)
    <3>1. u \in Seq(S) /\ v \in Seq(S) /\ c \in S
      BY <1>2, <2>3, <2>6, <2>7
    <3>2. AppendLater(v, u, c)
      BY ONLY <3>1, AppendJoined
    <3> QED BY <3>2 DEF AppendLater
  <2> QED BY <2>1, <2>2, <2>4, <2>5, <2>7, <2>8
<1> HIDE DEF Good
<1>5. Bad = {}
  <2> SUFFICES ASSUME Bad # {} PROVE FALSE
    OBVIOUS
  <2>1. Bad \in SUBSET Nat
    OBVIOUS
  <2>2. PICK k \in Bad : \A y \in Bad : k <= y
    BY <2>1, LeastExists
  <2>3. k # 0
    BY <1>3
  <2>4. k \in 1..n /\ k - 1 \in 0..n /\ ~(k <= k - 1)
    BY <2>3
  <2>5. Good(k - 1)
    BY <2>2, <2>4
  <2> QED BY <1>4, <2>4, <2>5
<1>6. Good(n)
  BY <1>2, <1>5
<1>7. SubSeq(text, 1, n) = text
  OBVIOUS
<1> QED BY <1>1, <1>6, <1>7 DEF Good

-----------------------------------------------------------------------------
(* What a dump shows.                                                       *)

Name == {"vec", "err", "rip", "cs", "rflags"}
Remark == {"[Error]", "Invalid", "Unknown"}
Letter == Name \cup Remark \cup {"=", "%", "u", "x"}
Output == DigitSet \cup Letter \cup {"garbled"} \cup Nat

LEMMA OutputIs == Alphabet(Output) /\ DigitSet \subseteq Output /\ Letter \subseteq Output
BY DEF Output, Alphabet

\* No name is a digit.
LEMMA LettersAreNoDigits == DigitSet \cap Letter = {}
<1>1. ASSUME NEW k \in 0..15 PROVE Digit[k + 1] \notin Letter
  BY DEF Digit, Letter, Name, Remark
<1> QED BY <1>1 DEF DigitSet

LEMMA NumeralsAre == Numerals = DigitSet
BY DEF DigitSet, Numerals

-----------------------------------------------------------------------------
(* Names and numbers in a text.                                             *)

Absent(name, text) == \A j \in 1..Len(text) : text[j] # name

NoDigitFirst(text) == text # << >> => text[1] \notin DigitSet

\* A name stands once in a text, followed by a sign and the digits D.
StandsAt(text, name, D, at) ==
  /\ at \in 1..Len(text) /\ text[at] = name /\ \A j \in 1..Len(text) : text[j] = name => j = at
  /\ at + 1 + Len(D) <= Len(text) /\ \A k \in 1..Len(D) : text[at + 1 + k] = D[k]
  /\ at + 2 + Len(D) <= Len(text) => text[at + 2 + Len(D)] \notin DigitSet

Stands(text, name, base, v) ==
  \E D \in Seq(DigitSet), at \in 1..Len(text) : StandsAt(text, name, D, at) /\ Value(D, base) = v

\* The number that a text shows after a name.
ShownIn(text, name, base) ==
  LET from == CHOOSE i \in DOMAIN text : text[i] = name
      end  == Min({i \in from + 2..Len(text) : text[i] \notin Numerals} \cup {Len(text) + 1})
  IN  Value(SubSeq(text, from + 2, end - 1), base)

LEMMA StandingIsShown ==
  ASSUME NEW text \in Seq(Output), NEW name, NEW base \in Nat, NEW v, Stands(text, name, base, v)
  PROVE  ShownIn(text, name, base) = v
<1>1. PICK D \in Seq(DigitSet), at \in 1..Len(text) :
        StandsAt(text, name, D, at) /\ Value(D, base) = v
  BY DEF Stands
<1>2. PICK from, E, end :
        /\ from = (CHOOSE i \in DOMAIN text : text[i] = name)
        /\ E = {i \in from + 2..Len(text) : text[i] \notin Numerals} \cup {Len(text) + 1}
        /\ end = Min(E)
  OBVIOUS
<1>3. ShownIn(text, name, base) = Value(SubSeq(text, from + 2, end - 1), base)
  BY <1>2 DEF ShownIn
<1>4. /\ Len(text) \in Nat /\ Len(D) \in Nat /\ at \in Nat /\ at >= 1 /\ at <= Len(text)
      /\ DOMAIN text = 1..Len(text)
  OBVIOUS
<1>5. from = at
  <2>1. at \in DOMAIN text /\ text[at] = name /\ \A j \in DOMAIN text : text[j] = name => j = at
    BY <1>1, <1>4 DEF StandsAt
  <2> QED BY <1>2, <2>1
<1>6. PICK n \in Nat : n = Len(D)
  BY <1>4
<1>7. at + 1 + n <= Len(text) /\ (at + 2 + n <= Len(text) => text[at + 2 + n] \notin DigitSet)
      /\ \A k \in 1..n : text[at + 1 + k] = D[k]
  BY <1>1, <1>6 DEF StandsAt
<1>8. \A k \in 1..n : D[k] \in DigitSet
  <2> HIDE DEF DigitSet
  <2> QED BY <1>6
<1>9. end = at + 2 + n
  <2>1. E \in SUBSET Nat
    <3>1. ASSUME NEW i \in E PROVE i \in Nat
      <4>1. i \in at + 2..Len(text) \/ i = Len(text) + 1
        BY <1>2, <1>5
      <4> QED BY <1>4, <4>1
    <3> QED BY <3>1
  <2>2. at + 2 + n \in E
    <3>1. CASE at + 2 + n <= Len(text)
      <4>1. at + 2 + n \in at + 2..Len(text)
        BY <1>4, <3>1
      <4> QED BY <1>2, <1>5, <1>7, <3>1, <4>1, NumeralsAre
    <3>2. CASE ~(at + 2 + n <= Len(text))
      <4>1. at + 2 + n = Len(text) + 1
        BY <1>4, <1>7, <3>2
      <4> QED BY <1>2, <4>1
    <3> QED BY <3>1, <3>2
  <2>3. ASSUME NEW y \in E PROVE at + 2 + n <= y
    <3>1. CASE y = Len(text) + 1
      BY <1>4, <1>7, <3>1
    <3>2. CASE y \in at + 2..Len(text) /\ text[y] \notin DigitSet
      <4>1. CASE y < at + 2 + n
        <5>1. y - (at + 1) \in 1..n /\ at + 1 + (y - (at + 1)) = y
          BY <1>4, <3>2, <4>1
        <5>2. text[y] = D[y - (at + 1)]
          BY <1>7, <5>1
        <5> QED BY <1>8, <3>2, <5>1, <5>2
      <4>2. CASE ~(y < at + 2 + n)
        BY <1>4, <3>2, <4>2
      <4> QED BY <4>1, <4>2
    <3>3. (y \in at + 2..Len(text) /\ text[y] \notin DigitSet) \/ y = Len(text) + 1
      BY <1>2, <1>5, NumeralsAre
    <3> QED BY <3>1, <3>2, <3>3
  <2>4. E # {}
    BY <2>2
  <2>5. end \in E /\ \A y \in E : end <= y
    BY <1>2, <2>1, <2>4, MinIs
  <2>6. end \in Nat /\ end <= at + 2 + n /\ at + 2 + n <= end
    BY <2>1, <2>2, <2>3, <2>5
  <2> QED BY <1>4, <2>6
<1>10. SubSeq(text, from + 2, end - 1) = D
  <2>1. PICK s, a, b : s = SubSeq(text, a, b) /\ a = from + 2 /\ b = end - 1
    OBVIOUS
  <2>2. a = at + 2 /\ b = at + 1 + n /\ b - a + 1 = n /\ a >= 1 /\ b <= Len(text)
        /\ a \in Nat /\ b \in Nat
    BY <1>4, <1>5, <1>7, <1>9, <2>1
  <2>3. s \in Seq(Output) /\ Len(s) = n /\ \A k \in 1..n : s[k] = text[a + k - 1]
    <3>1. b - a + 1 = n /\ a \in Int /\ b \in Int /\ n \in Nat /\ (n > 0 => a <= b)
      BY <2>2
    <3> HIDE DEF Output
    <3>2. \A k \in 1..n : a + k - 1 \in 1..Len(text)
      BY <1>4, <2>2
    <3> QED BY <2>1, <2>2, <3>1, <3>2
  <2>4. \A k \in 1..n : s[k] = D[k]
    <3> SUFFICES ASSUME NEW k \in 1..n PROVE s[k] = D[k]
      OBVIOUS
    <3>1. a + k - 1 = at + 1 + k
      BY <1>4, <2>2
    <3> QED BY <1>7, <2>3, <3>1
  <2>5. s = D
    <3> HIDE DEF Output, DigitSet
    <3> QED BY <1>6, <2>3, <2>4
  <2> QED BY <2>1, <2>5
<1> QED BY <1>1, <1>3, <1>10

\* A text that begins with a name, a sign and the digits D.
IsField(t, name, D, rest) ==
  /\ t \in Seq(Output) /\ Len(t) = 2 + Len(D) + Len(rest) /\ t[1] = name /\ t[2] = "="
  /\ \A k \in 1..Len(D) : t[2 + k] = D[k]
  /\ \A k \in 1..Len(rest) : t[2 + Len(D) + k] = rest[k]

LEMMA Elements ==
  ASSUME NEW S, NEW e \in S, NEW u, u = <<e>>
  PROVE  u \in Seq(S) /\ Len(u) = 1 /\ u[1] = e
OBVIOUS

LEMMA FieldText ==
  ASSUME NEW name \in Letter, NEW D \in Seq(DigitSet), NEW rest \in Seq(Output), NEW t,
         t = <<name>> \o (<<"=">> \o (D \o rest))
  PROVE  IsField(t, name, D, rest)
<1>1. PICK n, e, u, w : n = <<name>> /\ e = <<"=">> /\ u = D \o rest /\ w = e \o u
  OBVIOUS
<1>2. name \in Output /\ "=" \in Output /\ D \in Seq(Output)
  <2>1. "=" \in Letter
    BY DEF Letter
  <2>2. DigitSet \subseteq Output /\ Letter \subseteq Output
    BY OutputIs
  <2> HIDE DEF Output, DigitSet, Letter
  <2> QED BY <2>1, <2>2
<1> HIDE DEF Output, DigitSet, Letter
<1>3. n \in Seq(Output) /\ Len(n) = 1 /\ n[1] = name
  BY <1>1, <1>2, Elements
<1>4. e \in Seq(Output) /\ Len(e) = 1 /\ e[1] = "="
  BY <1>1, <1>2, Elements
<1>5. u \in Seq(Output) /\ Len(u) = Len(D) + Len(rest)
      /\ (\A i \in 1..Len(D) : u[i] = D[i]) /\ \A i \in 1..Len(rest) : u[Len(D) + i] = rest[i]
  BY <1>1, <1>2, Joined
<1>6. w \in Seq(Output) /\ Len(w) = Len(e) + Len(u)
      /\ (\A i \in 1..Len(e) : w[i] = e[i]) /\ \A i \in 1..Len(u) : w[Len(e) + i] = u[i]
  BY <1>1, <1>4, <1>5, Joined
<1>7. t = n \o w
  BY <1>1
<1>8. t \in Seq(Output) /\ Len(t) = Len(n) + Len(w)
      /\ (\A i \in 1..Len(n) : t[i] = n[i]) /\ \A i \in 1..Len(w) : t[Len(n) + i] = w[i]
  <2>1. n \in Seq(Output) /\ w \in Seq(Output) /\ t = n \o w
    BY <1>3, <1>6, <1>7
  <2> QED BY ONLY <2>1, Joined
<1>9. PICK d \in Nat, r \in Nat : d = Len(D) /\ r = Len(rest)
  OBVIOUS
<1>10. Len(u) = d + r /\ Len(w) = 1 + (d + r) /\ Len(t) = 2 + d + r
  BY <1>3, <1>4, <1>5, <1>6, <1>8, <1>9
<1>11. t[1] = name
  BY <1>3, <1>8
<1>12. t[2] = "="
  <2>1. 1 \in 1..Len(w) /\ 1 \in 1..Len(e)
    BY <1>4, <1>9, <1>10
  <2>2. t[1 + 1] = w[1] /\ w[1] = e[1]
    BY <1>3, <1>6, <1>8, <2>1
  <2> QED BY <1>4, <2>2
<1>13. ASSUME NEW k \in 1..(d + r) PROVE t[2 + k] = u[k]
  <2>1. k \in 1..Len(u) /\ 1 + k \in 1..Len(w) /\ 1 + (1 + k) = 2 + k
    BY <1>9, <1>10
  <2>2. w[1 + k] = u[k] /\ t[1 + (1 + k)] = w[1 + k]
    BY <1>3, <1>4, <1>6, <1>8, <2>1
  <2> QED BY <2>1, <2>2
<1>14. ASSUME NEW k \in 1..d PROVE t[2 + k] = D[k]
  <2>1. k \in 1..(d + r)
    BY <1>9
  <2> QED BY <1>5, <1>9, <1>13, <2>1
<1>15. ASSUME NEW k \in 1..r PROVE t[2 + d + k] = rest[k]
  <2>1. d + k \in 1..(d + r) /\ 2 + (d + k) = 2 + d + k
    BY <1>9
  <2>2. u[d + k] = rest[k]
    BY <1>5, <1>9
  <2> QED BY <1>13, <2>1, <2>2
<1> QED BY <1>8, <1>9, <1>10, <1>11, <1>12, <1>14, <1>15 DEF IsField

\* The name of a field is told,
LEMMA FieldStands ==
  ASSUME NEW name \in Letter, NEW D \in Seq(DigitSet), NEW rest \in Seq(Output), NEW t,
         name # "=", Absent(name, rest), NoDigitFirst(rest), IsField(t, name, D, rest)
  PROVE  StandsAt(t, name, D, 1) /\ NoDigitFirst(t)
<1>1. PICK d \in Nat, r \in Nat : d = Len(D) /\ r = Len(rest)
  OBVIOUS
<1>2. /\ t \in Seq(Output) /\ Len(t) = 2 + d + r /\ t[1] = name /\ t[2] = "="
      /\ \A k \in 1..d : t[2 + k] = D[k]
      /\ \A k \in 1..r : t[2 + d + k] = rest[k]
  BY <1>1, Zenon DEF IsField
<1>3. name \notin DigitSet
  BY LettersAreNoDigits
<1> HIDE DEF Output, DigitSet, Letter
<1>4. ASSUME NEW j \in 1..Len(t), t[j] = name PROVE j = 1
  <2>1. j # 2
    BY <1>2, <1>4
  <2>2. CASE j \in 3..(2 + d)
    <3>1. j - 2 \in 1..d /\ 2 + (j - 2) = j
      BY <1>1, <2>2
    <3>2. t[j] = D[j - 2]
      BY <1>2, <3>1
    <3>3. D[j - 2] \in DigitSet
      BY <1>1, <3>1
    <3> QED BY <1>3, <1>4, <3>2, <3>3
  <2>3. CASE j \in (3 + d)..(2 + d + r)
    <3>1. j - (2 + d) \in 1..r /\ 2 + d + (j - (2 + d)) = j
      BY <1>1, <2>3
    <3>2. t[j] = rest[j - (2 + d)]
      BY <1>2, <3>1
    <3> QED BY <1>1, <1>4, <3>1, <3>2 DEF Absent
  <2>4. j = 1 \/ j = 2 \/ j \in 3..(2 + d) \/ j \in (3 + d)..(2 + d + r)
    BY <1>1, <1>2
  <2> QED BY <2>1, <2>2, <2>3, <2>4
<1>5. 1 \in 1..Len(t) /\ 1 + 1 + d <= Len(t)
  BY <1>1, <1>2
<1>6. 1 + 2 + d <= Len(t) => t[1 + 2 + d] \notin DigitSet
  <2> SUFFICES ASSUME 1 + 2 + d <= Len(t) PROVE t[1 + 2 + d] \notin DigitSet
    OBVIOUS
  <2>1. 1 \in 1..r /\ 2 + d + 1 = 1 + 2 + d
    BY <1>1, <1>2
  <2>2. t[1 + 2 + d] = rest[1]
    BY <1>2, <2>1
  <2>3. rest # << >>
    BY <1>1, <2>1
  <2> QED BY <2>2, <2>3 DEF NoDigitFirst
<1>7. \A k \in 1..d : t[1 + 1 + k] = D[k]
  BY <1>2
<1>8. StandsAt(t, name, D, 1)
  BY <1>1, <1>2, <1>4, <1>5, <1>6, <1>7, Zenon DEF StandsAt
<1> QED BY <1>2, <1>3, <1>8 DEF NoDigitFirst

\* and what is told or not after it stays so.
LEMMA FieldBefore ==
  ASSUME NEW name \in Letter, NEW D \in Seq(DigitSet), NEW rest \in Seq(Output), NEW t,
         IsField(t, name, D, rest), NEW other \in Letter, other # "=", other # name
  PROVE  /\ Absent(other, rest) => Absent(other, t)
         /\ \A base, v : Stands(rest, other, base, v) => Stands(t, other, base, v)
<1>1. PICK d \in Nat, r \in Nat : d = Len(D) /\ r = Len(rest)
  OBVIOUS
<1>2. /\ t \in Seq(Output) /\ Len(t) = 2 + d + r /\ t[1] = name /\ t[2] = "="
      /\ \A k \in 1..d : t[2 + k] = D[k]
      /\ \A k \in 1..r : t[2 + d + k] = rest[k]
  BY <1>1, Zenon DEF IsField
<1>3. other \notin DigitSet
  BY LettersAreNoDigits
<1> HIDE DEF Output, DigitSet, Letter
<1>4. ASSUME NEW j \in 1..Len(t), t[j] = other
      PROVE  j - (2 + d) \in 1..r /\ rest[j - (2 + d)] = other
  <2>1. j # 2 /\ j # 1
    BY <1>2, <1>4
  <2>2. CASE j \in 3..(2 + d)
    <3>1. j - 2 \in 1..d /\ 2 + (j - 2) = j
      BY <1>1, <2>2
    <3>2. t[j] = D[j - 2]
      BY <1>2, <3>1
    <3>3. D[j - 2] \in DigitSet
      BY <1>1, <3>1
    <3> QED BY <1>3, <1>4, <3>2, <3>3
  <2>3. CASE j \in (3 + d)..(2 + d + r)
    <3>1. j - (2 + d) \in 1..r /\ 2 + d + (j - (2 + d)) = j
      BY <1>1, <2>3
    <3>2. t[j] = rest[j - (2 + d)]
      BY <1>2, <3>1
    <3> QED BY <1>4, <3>1, <3>2
  <2>4. j = 1 \/ j = 2 \/ j \in 3..(2 + d) \/ j \in (3 + d)..(2 + d + r)
    BY <1>1, <1>2
  <2> QED BY <2>1, <2>2, <2>3, <2>4
<1>5. Absent(other, rest) => Absent(other, t)
  BY <1>1, <1>4 DEF Absent
<1>6. ASSUME NEW base, NEW v, Stands(rest, other, base, v) PROVE Stands(t, other, base, v)
  <2>1. PICK E \in Seq(DigitSet), at \in 1..Len(rest) :
          StandsAt(rest, other, E, at) /\ Value(E, base) = v
    BY <1>6 DEF Stands
  <2>2. PICK e \in Nat : e = Len(E)
    OBVIOUS
  <2>3. /\ at \in 1..r /\ rest[at] = other /\ \A j \in 1..r : rest[j] = other => j = at
        /\ at + 1 + e <= r /\ \A k \in 1..e : rest[at + 1 + k] = E[k]
        /\ at + 2 + e <= r => rest[at + 2 + e] \notin DigitSet
    BY <1>1, <2>1, <2>2, Zenon DEF StandsAt
  <2>4. PICK m \in Nat : m = 2 + d + at
    BY <1>1, <2>3
  <2>5. m \in 1..Len(t) /\ t[m] = other
    BY <1>1, <1>2, <2>3, <2>4
  <2>6. ASSUME NEW j \in 1..Len(t), t[j] = other PROVE j = m
    <3>1. j - (2 + d) \in 1..r /\ rest[j - (2 + d)] = other
      BY <1>4, <2>6
    <3>2. j - (2 + d) = at
      BY <2>3, <3>1
    <3> QED BY <1>1, <2>4, <3>2
  <2>7. m + 1 + e <= Len(t)
    BY <1>1, <1>2, <2>2, <2>3, <2>4
  <2>8. ASSUME NEW k \in 1..e PROVE t[m + 1 + k] = E[k]
    <3>1. at + 1 + k \in 1..r /\ 2 + d + (at + 1 + k) = m + 1 + k
      BY <1>1, <2>2, <2>3, <2>4
    <3> QED BY <1>2, <2>3, <3>1
  <2>9. m + 2 + e <= Len(t) => t[m + 2 + e] \notin DigitSet
    <3> SUFFICES ASSUME m + 2 + e <= Len(t) PROVE t[m + 2 + e] \notin DigitSet
      OBVIOUS
    <3>1. at + 2 + e \in 1..r /\ 2 + d + (at + 2 + e) = m + 2 + e
      BY <1>1, <1>2, <2>2, <2>3, <2>4
    <3>2. t[2 + d + (at + 2 + e)] = rest[at + 2 + e]
      BY <1>2, <3>1
    <3>3. at + 2 + e <= r
      BY <3>1
    <3> QED BY <2>3, <3>1, <3>2, <3>3
  <2>10. StandsAt(t, other, E, m)
    BY <2>2, <2>5, <2>6, <2>7, <2>8, <2>9, Zenon DEF StandsAt
  <2> QED BY <2>1, <2>5, <2>10 DEF Stands
<1> QED BY <1>5, <1>6

-----------------------------------------------------------------------------
(* Formats.                                                                 *)

\* After n elements the format has a field.
HasField(format, n, name, conversion) ==
  /\ n \in Nat /\ n + 4 <= Len(format)
  /\ format[n + 1] = name /\ format[n + 2] = "=" /\ format[n + 3] = "%"
  /\ format[n + 4] = conversion

LEMMA OneField ==
  ASSUME NEW name \in Letter, NEW conversion \in {"u", "x"}, NEW s, s = Field(name, conversion)
  PROVE  s \in Seq(Output) /\ Len(s) = 4 /\ HasField(s, 0, name, conversion)
<1>1. name \in Output /\ "=" \in Output /\ "%" \in Output /\ conversion \in Output
  <2>1. "=" \in Letter /\ "%" \in Letter /\ conversion \in Letter
    BY DEF Letter
  <2> HIDE DEF Letter, Output
  <2> QED BY <2>1, OutputIs
<1> HIDE DEF Letter, Output
<1>2. s = <<name, "=", "%", conversion>>
  BY DEF Field
<1>3. s \in Seq(Output)
  BY <1>1, <1>2
<1>4. Len(s) = 4 /\ s[1] = name /\ s[2] = "=" /\ s[3] = "%" /\ s[4] = conversion
  BY <1>2
<1> QED BY <1>3, <1>4 DEF HasField

Added(t, s, name, conversion) ==
  /\ t \in Seq(Output) /\ Len(t) = Len(s) + 4
  /\ HasField(t, Len(s), name, conversion)
  /\ \A n, m, c : HasField(s, n, m, c) => HasField(t, n, m, c)

LEMMA FieldAdded ==
  ASSUME NEW s \in Seq(Output), NEW name \in Letter, NEW conversion \in {"u", "x"},
         NEW t, t = s \o Field(name, conversion)
  PROVE  Added(t, s, name, conversion)
<1>1. PICK f : f = Field(name, conversion)
  OBVIOUS
<1>2. f \in Seq(Output) /\ Len(f) = 4 /\ HasField(f, 0, name, conversion)
  BY <1>1, OneField
<1> HIDE DEF Output, Letter
<1>3. t \in Seq(Output) /\ Len(t) = Len(s) + Len(f)
      /\ (\A i \in 1..Len(s) : t[i] = s[i]) /\ \A i \in 1..Len(f) : t[Len(s) + i] = f[i]
  <2>1. s \in Seq(Output) /\ f \in Seq(Output) /\ t = s \o f
    BY <1>1, <1>2
  <2> QED BY ONLY <2>1, Joined
<1>4. f[1] = name /\ f[2] = "=" /\ f[3] = "%" /\ f[4] = conversion
  BY <1>2 DEF HasField
<1>5. Len(s) \in Nat
  OBVIOUS
<1>6. 1 \in 1..Len(f) /\ 2 \in 1..Len(f) /\ 3 \in 1..Len(f) /\ 4 \in 1..Len(f)
  BY <1>2
<1>7. t[Len(s) + 1] = name /\ t[Len(s) + 2] = "=" /\ t[Len(s) + 3] = "%"
      /\ t[Len(s) + 4] = conversion
  BY <1>3, <1>4, <1>6
<1>8. HasField(t, Len(s), name, conversion)
  BY <1>2, <1>3, <1>5, <1>7 DEF HasField
<1>9. ASSUME NEW n, NEW m, NEW c, HasField(s, n, m, c) PROVE HasField(t, n, m, c)
  <2>1. /\ n \in Nat /\ n + 4 <= Len(s) /\ s[n + 1] = m /\ s[n + 2] = "=" /\ s[n + 3] = "%"
        /\ s[n + 4] = c
    BY <1>9 DEF HasField
  <2>2. n + 1 \in 1..Len(s) /\ n + 2 \in 1..Len(s) /\ n + 3 \in 1..Len(s) /\ n + 4 \in 1..Len(s)
    BY <1>5, <2>1
  <2>3. t[n + 1] = m /\ t[n + 2] = "=" /\ t[n + 3] = "%" /\ t[n + 4] = c
    BY <1>3, <2>1, <2>2
  <2>4. n + 4 <= Len(t)
    BY <1>2, <1>3, <1>5, <2>1
  <2> QED BY <2>1, <2>3, <2>4 DEF HasField
<1> QED BY <1>2, <1>3, <1>8, <1>9 DEF Added

\* printf.c: a field prints the name, the sign and the number in digits.
Base(conversion) == IF conversion = "u" THEN 10 ELSE 16

Short == {v \in Nat : v <= 65535}

LEMMA ShortIsLong == \A v \in Short : AsUnsignedLong(v) = v
<1>1. PICK K : K = 2^LONG_BITS
  OBVIOUS
<1>2. K \in Nat /\ K > 65535
  BY <1>1, LongAssumption
<1>3. ASSUME NEW v \in Short PROVE v % K = v
  <2>1. v \in Nat /\ v < K /\ 0 <= v
    BY <1>2 DEF Short
  <2> QED BY <1>2, <2>1
<1> QED BY <1>1, <1>3 DEF AsUnsignedLong

MakesField(p, n, a, name, base, v) ==
  \E D \in Seq(DigitSet) : Value(D, base) = v /\ IsField(p[n + 1][a], name, D, p[n + 5][a + 1])

LEMMA FieldPrints ==
  ASSUME NEW format \in Seq(Output), NEW args, NEW p, NEW a \in Nat, NEW n, NEW name \in Letter,
         NEW conversion \in {"u", "x"}, Printed(p, format, args), HasField(format, n, name, conversion),
         name # "%", args[a] \in Short, Ready(p, format, Output, n + 5, a + 1)
  PROVE  Ready(p, format, Output, n + 1, a) /\ MakesField(p, n, a, name, Base(conversion), args[a])
<1>1. /\ n \in Nat /\ n + 4 <= Len(format) /\ Len(format) \in Nat
      /\ format[n + 1] = name /\ format[n + 2] = "=" /\ format[n + 3] = "%"
      /\ format[n + 4] = conversion
  BY DEF HasField
<1>2. PICK v \in Short, base \in 2..16 : v = args[a] /\ base = Base(conversion)
  BY DEF Base
<1>3. PICK D : D = itoa_unsigned(v, base)
  OBVIOUS
<1>4. D \in Seq(DigitSet) /\ Value(D, base) = v
  <2>1. v \in Nat
    BY DEF Short
  <2> HIDE DEF DigitSet, Short
  <2> QED BY <1>3, <2>1, UnsignedReads
<1>5. Converted(conversion, args[a]) = D
  <2>1. AsUnsignedLong(v) = v
    BY ShortIsLong
  <2>2. CASE conversion = "u"
    BY <1>2, <1>3, <2>1, <2>2 DEF Converted, Base
  <2>3. CASE conversion = "x"
    BY <1>2, <1>3, <2>1, <2>3 DEF Converted, Base
  <2> QED BY <2>2, <2>3
<1>6. D \in Seq(Output)
  <2>1. DigitSet \subseteq Output
    BY OutputIs
  <2> HIDE DEF DigitSet, Output
  <2> QED BY <1>4, <2>1
<1> HIDE DEF DigitSet, Output, Letter, Short
<1>7. p[n + 3][a] = D \o p[n + 5][a + 1] /\ Ready(p, format, Output, n + 3, a)
  <2>1. PICK i : i = n + 3
    OBVIOUS
  <2>2. /\ i \in 1..Len(format) /\ i + 1 <= Len(format) /\ format[i] = "%" /\ i + 1 = n + 4
        /\ i + 2 = n + 5
    BY <1>1, <2>1
  <2>3. format[i + 1] = conversion /\ format[i + 1] \in Directive
    BY <1>1, <2>2 DEF Directive
  <2>4. Ready(p, format, Output, i + 2, a + 1) /\ Converted(format[i + 1], args[a]) \in Seq(Output)
    BY <1>5, <1>6, <2>2, <2>3
  <2>5. p[i][a] = Converted(format[i + 1], args[a]) \o p[i + 2][a + 1]
        /\ Ready(p, format, Output, i, a)
    BY <2>2, <2>3, <2>4, DirectivePrints
  <2> QED BY <1>5, <2>1, <2>2, <2>3, <2>5
<1>8. p[n + 2][a] = <<"=">> \o p[n + 3][a] /\ Ready(p, format, Output, n + 2, a)
  <2>1. PICK i : i = n + 2
    OBVIOUS
  <2>2. i \in 1..Len(format) /\ format[i] = "=" /\ format[i] # "%" /\ i + 1 = n + 3
    BY <1>1, <2>1
  <2>3. Ready(p, format, Output, i + 1, a)
    BY <1>7, <2>2
  <2>4. p[i][a] = <<format[i]>> \o p[i + 1][a] /\ Ready(p, format, Output, i, a)
    BY <2>2, <2>3, CharPrints
  <2> QED BY <2>1, <2>2, <2>4
<1>9. p[n + 1][a] = <<name>> \o p[n + 2][a] /\ Ready(p, format, Output, n + 1, a)
  <2>1. PICK i : i = n + 1
    OBVIOUS
  <2>2. i \in 1..Len(format) /\ format[i] = name /\ format[i] # "%" /\ i + 1 = n + 2
    BY <1>1, <2>1
  <2>3. Ready(p, format, Output, i + 1, a)
    BY <1>8, <2>2
  <2>4. p[i][a] = <<format[i]>> \o p[i + 1][a] /\ Ready(p, format, Output, i, a)
    BY <2>2, <2>3, CharPrints
  <2> QED BY <2>1, <2>2, <2>4
<1>10. p[n + 5][a + 1] \in Seq(Output)
  BY DEF Ready
<1>11. IsField(p[n + 1][a], name, D, p[n + 5][a + 1])
  <2>1. PICK t, rest : t = p[n + 1][a] /\ rest = p[n + 5][a + 1]
    OBVIOUS
  <2>2. t = <<name>> \o (<<"=">> \o (D \o rest))
    BY <1>7, <1>8, <1>9, <2>1
  <2>3. rest \in Seq(Output)
    BY <1>10, <2>1
  <2>4. IsField(t, name, D, rest)
    BY <1>4, <2>2, <2>3, FieldText
  <2> QED BY <2>1, <2>4
<1> QED BY <1>2, <1>4, <1>9, <1>11 DEF MakesField

\* The text t shows v after the name, and what the text rest shows.
Tops(t, rest, name, base, v) ==
  /\ t \in Seq(Output) /\ NoDigitFirst(t) /\ t # << >> /\ Stands(t, name, base, v)
  /\ \A other \in Letter \ {"=", name} :
       /\ Absent(other, rest) => Absent(other, t)
       /\ \A b, w : Stands(rest, other, b, w) => Stands(t, other, b, w)

LEMMA FieldTold ==
  ASSUME NEW format \in Seq(Output), NEW args, NEW p, NEW a \in Nat, NEW n, NEW name \in Letter,
         NEW conversion \in {"u", "x"}, Printed(p, format, args), HasField(format, n, name, conversion),
         name \notin {"%", "="}, args[a] \in Short, Ready(p, format, Output, n + 5, a + 1),
         Absent(name, p[n + 5][a + 1]), NoDigitFirst(p[n + 5][a + 1])
  PROVE  /\ Ready(p, format, Output, n + 1, a)
         /\ Tops(p[n + 1][a], p[n + 5][a + 1], name, Base(conversion), args[a])
<1>1. PICK t, rest : t = p[n + 1][a] /\ rest = p[n + 5][a + 1]
  OBVIOUS
<1>2. rest \in Seq(Output)
  BY <1>1 DEF Ready
<1> HIDE DEF DigitSet, Output, Letter, Short
<1>3. PICK D \in Seq(DigitSet) : /\ Value(D, Base(conversion)) = args[a]
                                 /\ IsField(t, name, D, rest)
  <2>1. MakesField(p, n, a, name, Base(conversion), args[a])
    <3>1. name # "%"
      OBVIOUS
    <3> QED BY <3>1, FieldPrints
  <2> QED BY <1>1, <2>1 DEF MakesField
<1>4. Ready(p, format, Output, n + 1, a)
  BY FieldPrints
<1>5. StandsAt(t, name, D, 1) /\ NoDigitFirst(t)
  <2>1. Absent(name, rest) /\ NoDigitFirst(rest) /\ name # "="
    BY <1>1
  <2> QED BY <1>2, <1>3, <2>1, FieldStands
<1>6. t \in Seq(Output) /\ 1 \in 1..Len(t) /\ t # << >>
  <2>1. 1 \in 1..Len(t)
    BY <1>5 DEF StandsAt
  <2>2. t \in Seq(Output)
    BY <1>3 DEF IsField
  <2> QED BY <2>1, <2>2
<1>7. Stands(t, name, Base(conversion), args[a])
  BY <1>3, <1>5, <1>6 DEF Stands
<1>8. ASSUME NEW other \in Letter \ {"=", name}
      PROVE  /\ Absent(other, rest) => Absent(other, t)
             /\ \A b, w : Stands(rest, other, b, w) => Stands(t, other, b, w)
  <2>1. other \in Letter /\ other # "=" /\ other # name
    OBVIOUS
  <2> QED BY <1>2, <1>3, <2>1, FieldBefore
<1> QED BY <1>1, <1>4, <1>5, <1>6, <1>7, <1>8 DEF Tops

NoRemark(text) == \A r \in Remark : Absent(r, text)

LEMMA RemarksKept ==
  ASSUME NEW t, NEW rest, NEW name \in Name, NEW base, NEW v, Tops(t, rest, name, base, v),
         NoRemark(rest)
  PROVE  NoRemark(t)
<1>1. \A r \in Remark : r \in Letter \ {"=", name}
  BY DEF Remark, Letter, Name
<1> HIDE DEF Remark, Letter, Name
<1> QED BY <1>1 DEF Tops, NoRemark

LEMMA Empty ==
  ASSUME NEW t, t = << >>
  PROVE  NoRemark(t) /\ NoDigitFirst(t) /\ \A name : Absent(name, t)
<1>1. Len(t) = 0
  OBVIOUS
<1> QED BY <1>1 DEF NoRemark, NoDigitFirst, Absent

\* idt.c: what exception_handler prints shows its five arguments.
LEMMA DumpFields ==
  /\ DumpFormat \in Seq(Output) /\ Len(DumpFormat) = 20
  /\ HasField(DumpFormat, 0, "vec", "u") /\ HasField(DumpFormat, 4, "err", "x")
  /\ HasField(DumpFormat, 8, "rip", "x") /\ HasField(DumpFormat, 12, "cs", "x")
  /\ HasField(DumpFormat, 16, "rflags", "x")
<1>1. PICK s, t, u, w, x :
        /\ s = Field("vec", "u") /\ t = s \o Field("err", "x") /\ u = t \o Field("rip", "x")
        /\ w = u \o Field("cs", "x") /\ x = w \o Field("rflags", "x")
  OBVIOUS
<1>2. x = DumpFormat
  BY <1>1 DEF DumpFormat
<1>3. "vec" \in Letter /\ "err" \in Letter /\ "rip" \in Letter /\ "cs" \in Letter /\ "rflags" \in Letter
  BY DEF Letter, Name
<1> HIDE DEF Output, Letter
<1>4. s \in Seq(Output) /\ Len(s) = 4 /\ HasField(s, 0, "vec", "u")
  BY <1>1, <1>3, OneField
<1>5. t \in Seq(Output) /\ Len(t) = 8 /\ HasField(t, 0, "vec", "u") /\ HasField(t, 4, "err", "x")
  <2>1. s \in Seq(Output) /\ "err" \in Letter /\ "x" \in {"u", "x"}
        /\ t = s \o Field("err", "x")
    BY <1>1, <1>3, <1>4
  <2>2. Added(t, s, "err", "x")
    BY <2>1, FieldAdded
  <2> QED BY <1>4, <2>2 DEF Added
<1>6. u \in Seq(Output) /\ Len(u) = 12 /\ HasField(u, 0, "vec", "u") /\ HasField(u, 4, "err", "x")
      /\ HasField(u, 8, "rip", "x")
  <2>1. t \in Seq(Output) /\ "rip" \in Letter /\ "x" \in {"u", "x"}
        /\ u = t \o Field("rip", "x")
    BY <1>1, <1>3, <1>5
  <2>2. Added(u, t, "rip", "x")
    BY <2>1, FieldAdded
  <2> QED BY <1>5, <2>2 DEF Added
<1>7. w \in Seq(Output) /\ Len(w) = 16 /\ HasField(w, 0, "vec", "u") /\ HasField(w, 4, "err", "x")
      /\ HasField(w, 8, "rip", "x") /\ HasField(w, 12, "cs", "x")
  <2>1. u \in Seq(Output) /\ "cs" \in Letter /\ "x" \in {"u", "x"}
        /\ w = u \o Field("cs", "x")
    BY <1>1, <1>3, <1>6
  <2>2. Added(w, u, "cs", "x")
    BY <2>1, FieldAdded
  <2> QED BY <1>6, <2>2 DEF Added
<1>8. x \in Seq(Output) /\ Len(x) = 20 /\ HasField(x, 0, "vec", "u") /\ HasField(x, 4, "err", "x")
      /\ HasField(x, 8, "rip", "x") /\ HasField(x, 12, "cs", "x") /\ HasField(x, 16, "rflags", "x")
  <2>1. w \in Seq(Output) /\ "rflags" \in Letter /\ "x" \in {"u", "x"}
        /\ x = w \o Field("rflags", "x")
    BY <1>1, <1>3, <1>7
  <2>2. Added(x, w, "rflags", "x")
    BY <2>1, FieldAdded
  <2> QED BY <1>7, <2>2 DEF Added
<1> QED BY <1>2, <1>8

LEMMA FaultFields ==
  /\ FaultFormat \in Seq(Output) /\ Len(FaultFormat) = 16
  /\ HasField(FaultFormat, 0, "err", "u") /\ HasField(FaultFormat, 4, "rip", "x")
  /\ HasField(FaultFormat, 8, "cs", "x") /\ HasField(FaultFormat, 12, "rflags", "x")
<1>1. PICK s, t, u, w :
        /\ s = Field("err", "u") /\ t = s \o Field("rip", "x") /\ u = t \o Field("cs", "x")
        /\ w = u \o Field("rflags", "x")
  OBVIOUS
<1>2. w = FaultFormat
  BY <1>1 DEF FaultFormat
<1>3. "err" \in Letter /\ "rip" \in Letter /\ "cs" \in Letter /\ "rflags" \in Letter
  BY DEF Letter, Name
<1> HIDE DEF Output, Letter
<1>4. s \in Seq(Output) /\ Len(s) = 4 /\ HasField(s, 0, "err", "u")
  BY <1>1, <1>3, OneField
<1>5. t \in Seq(Output) /\ Len(t) = 8 /\ HasField(t, 0, "err", "u") /\ HasField(t, 4, "rip", "x")
  <2>1. s \in Seq(Output) /\ "rip" \in Letter /\ "x" \in {"u", "x"}
        /\ t = s \o Field("rip", "x")
    BY <1>1, <1>3, <1>4
  <2>2. Added(t, s, "rip", "x")
    BY <2>1, FieldAdded
  <2> QED BY <1>4, <2>2 DEF Added
<1>6. u \in Seq(Output) /\ Len(u) = 12 /\ HasField(u, 0, "err", "u") /\ HasField(u, 4, "rip", "x")
      /\ HasField(u, 8, "cs", "x")
  <2>1. t \in Seq(Output) /\ "cs" \in Letter /\ "x" \in {"u", "x"}
        /\ u = t \o Field("cs", "x")
    BY <1>1, <1>3, <1>5
  <2>2. Added(u, t, "cs", "x")
    BY <2>1, FieldAdded
  <2> QED BY <1>5, <2>2 DEF Added
<1>7. w \in Seq(Output) /\ Len(w) = 16 /\ HasField(w, 0, "err", "u") /\ HasField(w, 4, "rip", "x")
      /\ HasField(w, 8, "cs", "x") /\ HasField(w, 12, "rflags", "x")
  <2>1. u \in Seq(Output) /\ "rflags" \in Letter /\ "x" \in {"u", "x"}
        /\ w = u \o Field("rflags", "x")
    BY <1>1, <1>3, <1>6
  <2>2. Added(w, u, "rflags", "x")
    BY <2>1, FieldAdded
  <2> QED BY <1>6, <2>2 DEF Added
<1> QED BY <1>2, <1>7

LEMMA DumpShows ==
  ASSUME NEW args, NEW t, \A k \in 1..5 : args[k] \in Short, t = vprintk_func(DumpFormat, args)
  PROVE  /\ t \in Seq(Output) /\ t # << >>
         /\ Stands(t, "vec", 10, args[1]) /\ Stands(t, "err", 16, args[2])
         /\ Stands(t, "rip", 16, args[3]) /\ Stands(t, "cs", 16, args[4])
         /\ Stands(t, "rflags", 16, args[5])
<1>1. PICK f : f = DumpFormat
  OBVIOUS
<1>2. /\ f \in Seq(Output) /\ Len(f) = 20
      /\ HasField(f, 0, "vec", "u") /\ HasField(f, 4, "err", "x")
      /\ HasField(f, 8, "rip", "x") /\ HasField(f, 12, "cs", "x") /\ HasField(f, 16, "rflags", "x")
  BY <1>1, DumpFields
<1> HIDE DEF Output, Short
<1>3. PICK p : t = p[1][1] /\ Printed(p, f, args)
  <2>1. f \in Seq(Output)
    BY <1>2
  <2>2. t = vprintk_func(f, args)
    BY <1>1
  <2>3. Outcome(t, f, args)
    BY <2>1, <2>2, PrintedIs
  <2> QED BY <2>3 DEF Outcome
<1>4. PICK e, g, h, i, j : /\ e = p[17][5] /\ g = p[13][4] /\ h = p[9][3] /\ i = p[5][2]
                           /\ j = p[21][6]
  OBVIOUS
<1>5. j = << >> /\ Ready(p, f, Output, 21, 6)
  <2>1. 6 \in Nat /\ Len(f) + 1 = 21
    BY <1>2
  <2>2. p[Len(f) + 1][6] = << >> /\ Ready(p, f, Output, Len(f) + 1, 6)
    BY <1>2, <1>3, <2>1, AtEnd
  <2> QED BY <1>4, <2>1, <2>2
<1>6. /\ {"vec", "err", "rip", "cs", "rflags"} \subseteq Letter
      /\ {"vec", "err", "rip", "cs", "rflags"} \cap {"=", "%"} = {}
      /\ Base("x") = 16 /\ Base("u") = 10
  BY DEF Base, Letter, Name
<1> HIDE DEF Letter
<1>7. Ready(p, f, Output, 17, 5) /\ Tops(e, j, "rflags", 16, args[5])
  <2>1. 5 \in Nat /\ 5 \in 1..5 /\ 16 + 5 = 21 /\ 16 + 1 = 17 /\ 5 + 1 = 6
    OBVIOUS
  <2>2. Absent("rflags", j) /\ NoDigitFirst(j)
    BY <1>5, Empty
  <2> QED BY <1>2, <1>3, <1>4, <1>5, <1>6, <2>1, <2>2, FieldTold
<1>8. Absent("cs", e) /\ Absent("rip", e) /\ Absent("err", e) /\ Absent("vec", e) /\ NoDigitFirst(e)
  <2>1. Absent("cs", j) /\ Absent("rip", j) /\ Absent("err", j) /\ Absent("vec", j)
    BY <1>5, Empty
  <2> QED BY <1>6, <1>7, <2>1 DEF Tops
<1>9. Ready(p, f, Output, 13, 4) /\ Tops(g, e, "cs", 16, args[4])
  <2>1. 4 \in Nat /\ 4 \in 1..5 /\ 12 + 5 = 17 /\ 12 + 1 = 13 /\ 4 + 1 = 5
    OBVIOUS
  <2> QED BY <1>2, <1>3, <1>4, <1>6, <1>7, <1>8, <2>1, FieldTold
<1>10. Absent("rip", g) /\ Absent("err", g) /\ Absent("vec", g) /\ NoDigitFirst(g)
  BY <1>6, <1>8, <1>9 DEF Tops
<1>11. Ready(p, f, Output, 9, 3) /\ Tops(h, g, "rip", 16, args[3])
  <2>1. 3 \in Nat /\ 3 \in 1..5 /\ 8 + 5 = 13 /\ 8 + 1 = 9 /\ 3 + 1 = 4
    OBVIOUS
  <2> QED BY <1>2, <1>3, <1>4, <1>6, <1>9, <1>10, <2>1, FieldTold
<1>12. Absent("err", h) /\ Absent("vec", h) /\ NoDigitFirst(h)
  BY <1>6, <1>10, <1>11 DEF Tops
<1>13. Ready(p, f, Output, 5, 2) /\ Tops(i, h, "err", 16, args[2])
  <2>1. 2 \in Nat /\ 2 \in 1..5 /\ 4 + 5 = 9 /\ 4 + 1 = 5 /\ 2 + 1 = 3
    OBVIOUS
  <2> QED BY <1>2, <1>3, <1>4, <1>6, <1>11, <1>12, <2>1, FieldTold
<1>14. Absent("vec", i) /\ NoDigitFirst(i)
  BY <1>6, <1>12, <1>13 DEF Tops
<1>15. Tops(t, i, "vec", 10, args[1])
  <2>1. 1 \in Nat /\ 1 \in 1..5 /\ 0 + 5 = 5 /\ 0 + 1 = 1 /\ 1 + 1 = 2
    OBVIOUS
  <2> QED BY <1>2, <1>3, <1>4, <1>6, <1>13, <1>14, <2>1, FieldTold
<1>16. Stands(e, "rflags", 16, args[5])
  BY <1>7 DEF Tops
<1>17. Stands(g, "rflags", 16, args[5]) /\ Stands(g, "cs", 16, args[4])
  BY <1>6, <1>9, <1>16 DEF Tops
<1>18. /\ Stands(h, "rflags", 16, args[5]) /\ Stands(h, "cs", 16, args[4])
       /\ Stands(h, "rip", 16, args[3])
  BY <1>6, <1>11, <1>17 DEF Tops
<1>19. /\ Stands(i, "rflags", 16, args[5]) /\ Stands(i, "cs", 16, args[4])
       /\ Stands(i, "rip", 16, args[3]) /\ Stands(i, "err", 16, args[2])
  BY <1>6, <1>13, <1>18 DEF Tops
<1> QED BY <1>6, <1>15, <1>19 DEF Tops

LEMMA FaultShows ==
  ASSUME NEW args, NEW t, \A k \in 1..4 : args[k] \in Short, t = vprintk_func(FaultFormat, args)
  PROVE  /\ t \in Seq(Output) /\ t # << >> /\ NoRemark(t)
         /\ Stands(t, "err", 10, args[1]) /\ Stands(t, "rip", 16, args[2])
         /\ Stands(t, "cs", 16, args[3]) /\ Stands(t, "rflags", 16, args[4])
<1>1. PICK f : f = FaultFormat
  OBVIOUS
<1>2. /\ f \in Seq(Output) /\ Len(f) = 16
      /\ HasField(f, 0, "err", "u") /\ HasField(f, 4, "rip", "x")
      /\ HasField(f, 8, "cs", "x") /\ HasField(f, 12, "rflags", "x")
  BY <1>1, FaultFields
<1> HIDE DEF Output, Short
<1>3. PICK p : t = p[1][1] /\ Printed(p, f, args)
  <2>1. f \in Seq(Output)
    BY <1>2
  <2>2. t = vprintk_func(f, args)
    BY <1>1
  <2>3. Outcome(t, f, args)
    BY <2>1, <2>2, PrintedIs
  <2> QED BY <2>3 DEF Outcome
<1>4. PICK g, h, i, j : g = p[13][4] /\ h = p[9][3] /\ i = p[5][2] /\ j = p[17][5]
  OBVIOUS
<1>5. j = << >> /\ Ready(p, f, Output, 17, 5)
  <2>1. 5 \in Nat /\ Len(f) + 1 = 17
    BY <1>2
  <2>2. p[Len(f) + 1][5] = << >> /\ Ready(p, f, Output, Len(f) + 1, 5)
    BY <1>2, <1>3, <2>1, AtEnd
  <2> QED BY <1>4, <2>1, <2>2
<1>6. /\ {"vec", "err", "rip", "cs", "rflags"} \subseteq Letter
      /\ {"vec", "err", "rip", "cs", "rflags"} \cap {"=", "%"} = {}
      /\ {"err", "rip", "cs", "rflags"} \subseteq Name
      /\ Base("x") = 16 /\ Base("u") = 10
  BY DEF Base, Letter, Name
<1> HIDE DEF Letter, Name
<1>9. Ready(p, f, Output, 13, 4) /\ Tops(g, j, "rflags", 16, args[4])
  <2>1. 4 \in Nat /\ 4 \in 1..4 /\ 12 + 5 = 17 /\ 12 + 1 = 13 /\ 4 + 1 = 5
    OBVIOUS
  <2>2. Absent("rflags", j) /\ NoDigitFirst(j)
    BY <1>5, Empty
  <2> QED BY <1>2, <1>3, <1>4, <1>5, <1>6, <2>1, <2>2, FieldTold
<1>10. Absent("rip", g) /\ Absent("err", g) /\ Absent("cs", g) /\ NoDigitFirst(g) /\ NoRemark(g)
  <2>1. Absent("cs", j) /\ Absent("rip", j) /\ Absent("err", j) /\ NoRemark(j)
    BY <1>5, Empty
  <2>2. NoRemark(g)
    BY <1>6, <1>9, <2>1, RemarksKept
  <2> QED BY <1>6, <1>9, <2>1, <2>2 DEF Tops
<1>11. Ready(p, f, Output, 9, 3) /\ Tops(h, g, "cs", 16, args[3])
  <2>1. 3 \in Nat /\ 3 \in 1..4 /\ 8 + 5 = 13 /\ 8 + 1 = 9 /\ 3 + 1 = 4
    OBVIOUS
  <2> QED BY <1>2, <1>3, <1>4, <1>6, <1>9, <1>10, <2>1, FieldTold
<1>12. Absent("err", h) /\ Absent("rip", h) /\ NoDigitFirst(h) /\ NoRemark(h)
  <2>1. NoRemark(h)
    BY <1>6, <1>10, <1>11, RemarksKept
  <2> QED BY <1>6, <1>10, <1>11, <2>1 DEF Tops
<1>13. Ready(p, f, Output, 5, 2) /\ Tops(i, h, "rip", 16, args[2])
  <2>1. 2 \in Nat /\ 2 \in 1..4 /\ 4 + 5 = 9 /\ 4 + 1 = 5 /\ 2 + 1 = 3
    OBVIOUS
  <2> QED BY <1>2, <1>3, <1>4, <1>6, <1>11, <1>12, <2>1, FieldTold
<1>14. Absent("err", i) /\ NoDigitFirst(i) /\ NoRemark(i)
  <2>1. NoRemark(i)
    BY <1>6, <1>12, <1>13, RemarksKept
  <2> QED BY <1>6, <1>12, <1>13, <2>1 DEF Tops
<1>15. Tops(t, i, "err", 10, args[1])
  <2>1. 1 \in Nat /\ 1 \in 1..4 /\ 0 + 5 = 5 /\ 0 + 1 = 1 /\ 1 + 1 = 2
    OBVIOUS
  <2> QED BY <1>2, <1>3, <1>4, <1>6, <1>13, <1>14, <2>1, FieldTold
<1>16. NoRemark(t)
  BY <1>6, <1>14, <1>15, RemarksKept
<1>17. Stands(g, "rflags", 16, args[4])
  BY <1>9 DEF Tops
<1>18. Stands(h, "rflags", 16, args[4]) /\ Stands(h, "cs", 16, args[3])
  BY <1>6, <1>11, <1>17 DEF Tops
<1>19. /\ Stands(i, "rflags", 16, args[4]) /\ Stands(i, "cs", 16, args[3])
       /\ Stands(i, "rip", 16, args[2])
  BY <1>6, <1>13, <1>18 DEF Tops
<1> QED BY <1>6, <1>15, <1>16, <1>19 DEF Tops

\* A remark is printed as it is,
LEMMA RemarkPrints ==
  ASSUME NEW r \in Remark, NEW args, NEW t, t = vprintk_func(<<r>>, args)
  PROVE  t = <<r>>
<1>1. PICK f : f = <<r>>
  OBVIOUS
<1>2. r \in Output /\ r # "%"
  BY OutputIs DEF Remark, Letter
<1> HIDE DEF Output, Remark
<1>3. f \in Seq(Output) /\ Len(f) = 1 /\ f[1] = r
  BY <1>1, <1>2, Elements
<1>4. PICK p : t = p[1][1] /\ Printed(p, f, args)
  <2>1. f \in Seq(Output)
    BY <1>3
  <2>2. t = vprintk_func(f, args)
    BY <1>1
  <2>3. Outcome(t, f, args)
    BY <2>1, <2>2, PrintedIs
  <2> QED BY <2>3 DEF Outcome
<1>5. p[2][1] = << >> /\ Ready(p, f, Output, 2, 1)
  <2>1. 1 \in Nat /\ Len(f) + 1 = 2
    BY <1>3
  <2>2. p[Len(f) + 1][1] = << >> /\ Ready(p, f, Output, Len(f) + 1, 1)
    BY <1>3, <1>4, <2>1, AtEnd
  <2> QED BY <2>1, <2>2
<1>6. p[1][1] = <<f[1]>> \o p[2][1]
  <2>1. 1 \in Nat /\ 1 \in 1..Len(f) /\ 1 + 1 = 2 /\ f[1] # "%"
    BY <1>2, <1>3
  <2>2. PICK i, a : i = 1 /\ a = 1
    OBVIOUS
  <2>3. /\ a \in Nat /\ i \in 1..Len(f) /\ i + 1 = 2 /\ f[i] # "%" /\ Ready(p, f, Output, i + 1, a)
        /\ f \in Seq(Output) /\ Printed(p, f, args)
    BY <1>3, <1>4, <1>5, <2>1, <2>2
  <2>4. p[i][a] = <<f[i]>> \o p[i + 1][a] /\ Ready(p, f, Output, i, a)
    BY ONLY <2>3, CharPrints
  <2> QED BY <2>2, <2>4
<1>7. <<r>> \o << >> = <<r>>
  <2>1. <<r>> \in Seq(Output)
    BY <1>2
  <2> QED BY <2>1
<1> QED BY <1>3, <1>4, <1>5, <1>6, <1>7

\* and what was told before it stays so.
Remarked(text, r, t) ==
  /\ t \in Seq(Output) /\ t # << >> /\ t[Len(t)] = r /\ Len(t) \in 1..Len(t)
  /\ \A k \in 1..Len(text) : k \in 1..Len(t) /\ t[k] = text[k]
  /\ \A other : other # r /\ Absent(other, text) => Absent(other, t)
  /\ \A name \in Name : \A base, v : Stands(text, name, base, v) => Stands(t, name, base, v)

LEMMA RemarkAfter ==
  ASSUME NEW text \in Seq(Output), NEW r \in Remark, NEW t, t = text \o <<r>>
  PROVE  Remarked(text, r, t)
<1>1. PICK n \in Nat : n = Len(text)
  OBVIOUS
<1>2. r \in Output /\ r \notin DigitSet /\ \A name \in Name : name # r
  <2>1. r \in Letter /\ \A name \in Name : name # r
    BY DEF Letter, Remark, Name
  <2> QED BY <2>1, OutputIs, LettersAreNoDigits
<1> HIDE DEF Output, Remark, Name, DigitSet
<1>3. PICK u : u = <<r>>
  OBVIOUS
<1>4. u \in Seq(Output) /\ Len(u) = 1 /\ u[1] = r
  BY <1>2, <1>3, Elements
<1>5. t \in Seq(Output) /\ Len(t) = Len(text) + Len(u)
      /\ (\A i \in 1..Len(text) : t[i] = text[i]) /\ \A i \in 1..Len(u) : t[Len(text) + i] = u[i]
  <2>1. text \in Seq(Output) /\ u \in Seq(Output) /\ t = text \o u
    BY <1>3, <1>4
  <2> QED BY ONLY <2>1, Joined
<1>6. Len(t) = n + 1 /\ t[n + 1] = r
  <2>1. 1 \in 1..Len(u)
    BY <1>4
  <2> QED BY <1>1, <1>4, <1>5, <2>1
<1>7. \A k \in 1..n : k \in 1..Len(t) /\ t[k] = text[k]
  BY <1>1, <1>5, <1>6
<1>8. t # << >> /\ Len(t) \in 1..Len(t) /\ t[Len(t)] = r
  BY <1>1, <1>6
<1>9. ASSUME NEW j \in 1..Len(t) PROVE j \in 1..n \/ j = n + 1
  BY <1>1, <1>6
<1>10. ASSUME NEW other, other # r, Absent(other, text) PROVE Absent(other, t)
  <2>1. \A j \in 1..n : text[j] # other
    BY <1>1, <1>10 DEF Absent
  <2> QED BY <1>6, <1>7, <1>9, <1>10, <2>1 DEF Absent
<1>11. ASSUME NEW name \in Name, NEW base, NEW v, Stands(text, name, base, v)
       PROVE  Stands(t, name, base, v)
  <2>1. PICK E \in Seq(DigitSet), at \in 1..Len(text) :
          StandsAt(text, name, E, at) /\ Value(E, base) = v
    BY <1>11 DEF Stands
  <2>2. PICK e \in Nat : e = Len(E)
    OBVIOUS
  <2>3. /\ at \in 1..n /\ text[at] = name /\ \A j \in 1..n : text[j] = name => j = at
        /\ at + 1 + e <= n /\ \A k \in 1..e : text[at + 1 + k] = E[k]
        /\ at + 2 + e <= n => text[at + 2 + e] \notin DigitSet
    BY <1>1, <2>1, <2>2, Zenon DEF StandsAt
  <2>4. at \in 1..Len(t) /\ t[at] = name
    BY <1>7, <2>3
  <2>5. ASSUME NEW j \in 1..Len(t), t[j] = name PROVE j = at
    <3>1. j \in 1..n
      BY <1>2, <1>6, <1>9, <2>5
    <3> QED BY <1>7, <2>3, <2>5, <3>1
  <2>6. at + 1 + e <= Len(t)
    BY <1>1, <1>6, <2>2, <2>3
  <2>7. ASSUME NEW k \in 1..e PROVE t[at + 1 + k] = E[k]
    <3>1. at + 1 + k \in 1..n
      BY <1>1, <2>2, <2>3
    <3> QED BY <1>7, <2>3, <3>1
  <2>8. at + 2 + e <= Len(t) => t[at + 2 + e] \notin DigitSet
    <3>1. CASE at + 2 + e <= n
      <4>1. at + 2 + e \in 1..n
        BY <1>1, <2>2, <2>3, <3>1
      <4>2. t[at + 2 + e] = text[at + 2 + e]
        BY <1>7, <4>1
      <4>3. text[at + 2 + e] \notin DigitSet
        BY <2>3, <3>1
      <4> QED BY <4>2, <4>3
    <3>2. CASE at + 2 + e = n + 1
      BY <1>2, <1>6, <3>2
    <3>3. at + 2 + e <= n \/ at + 2 + e = n + 1
      <4>1. at \in Nat /\ e \in Nat /\ n \in Nat /\ at + 1 + e <= n
        BY <1>1, <2>2, <2>3
      <4> QED BY ONLY <4>1
    <3> QED BY <3>1, <3>2, <3>3
  <2>9. StandsAt(t, name, E, at)
    BY <2>2, <2>4, <2>5, <2>6, <2>7, <2>8, Zenon DEF StandsAt
  <2> QED BY <2>1, <2>4, <2>9 DEF Stands
<1> QED BY <1>1, <1>5, <1>7, <1>8, <1>10, <1>11 DEF Remarked

-----------------------------------------------------------------------------
(* Where the serial port stays as it is.                                    *)

\* The serial port among the devices.
Port(d) == [uart |-> d.uart, serial_ready |-> d.serial_ready]
HasPort(d) == "uart" \in DOMAIN d /\ "serial_ready" \in DOMAIN d
SamePort(d, e) == HasPort(e) /\ e.uart = d.uart /\ e.serial_ready = d.serial_ready

LEMMA OtherChanges ==
  ASSUME NEW d, HasPort(d), NEW field, field \notin {"uart", "serial_ready"}, NEW val, NEW e,
         e = [d EXCEPT ![field] = val]
  PROVE  SamePort(d, e)
BY DEF HasPort, SamePort

\* io.c: a word for another device.
LEMMA OutOther ==
  ASSUME NEW d, HasPort(d), NEW port \in {32, 33, 160, 161, 67, 64, 112, 128}, NEW val, NEW e,
         e = outb(d, port, val)
  PROVE  SamePort(d, e)
<1> USE DEF PIC1_COMMAND, PIC1_DATA, PIC1, PIC2_COMMAND, PIC2_DATA, PIC2, COM1
<1>1. CASE port \in {32, 33}
  <2>1. e = [d EXCEPT !.pic1 = PicWritten(d.pic1, port - 32, val)]
    BY <1>1 DEF outb
  <2> QED BY <2>1 DEF HasPort, SamePort
<1>2. CASE port \in {160, 161}
  <2>1. e = [d EXCEPT !.pic2 = PicWritten(d.pic2, port - 160, val)]
    BY <1>2 DEF outb
  <2> QED BY <2>1 DEF HasPort, SamePort
<1>3. CASE port = 67
  <2>1. e = [d EXCEPT !.pit = PitMode(d.pit, val)]
    BY <1>3 DEF outb
  <2> QED BY <2>1 DEF HasPort, SamePort
<1>4. CASE port = 64
  <2>1. e = [d EXCEPT !.pit = PitData(d.pit, val)]
    BY <1>4 DEF outb
  <2> QED BY <2>1 DEF HasPort, SamePort
<1>5. CASE port = 112
  <2>1. e = [d EXCEPT !.cmos = val]
    BY <1>5 DEF outb
  <2> QED BY <2>1 DEF HasPort, SamePort
<1>6. CASE port = 128
  <2>1. e = d
    BY <1>6 DEF outb
  <2> QED BY <2>1 DEF SamePort
<1> QED BY <1>1, <1>2, <1>3, <1>4, <1>5, <1>6

LEMMA SameSame ==
  ASSUME NEW a, NEW b, NEW c, SamePort(a, b), SamePort(b, c)
  PROVE  SamePort(a, c)
BY DEF SamePort

LEMMA BothOther ==
  ASSUME NEW d, HasPort(d), NEW p1 \in {32, 33}, NEW v1, NEW p2 \in {160, 161}, NEW v2, NEW e,
         e = Both(d, p1, v1, p2, v2)
  PROVE  SamePort(d, e)
<1>1. PICK a : a = outb(d, p1, v1)
  OBVIOUS
<1>2. PICK b : b = outb(a, 128, 0)
  OBVIOUS
<1>3. PICK c : c = outb(b, p2, v2)
  OBVIOUS
<1>4. e = outb(c, 128, 0)
  BY <1>1, <1>2, <1>3 DEF Both, io_wait
<1>5. SamePort(d, a)
  BY <1>1, OutOther
<1>6. SamePort(a, b)
  BY <1>2, <1>5, OutOther DEF SamePort
<1>7. SamePort(b, c)
  BY <1>3, <1>6, OutOther DEF SamePort
<1>8. SamePort(c, e)
  BY <1>4, <1>7, OutOther DEF SamePort
<1> QED BY <1>5, <1>6, <1>7, <1>8, SameSame

\* pic.c, timer.c, nmi.c: the drivers of the other devices.
LEMMA InitOther ==
  ASSUME NEW d, HasPort(d), NEW e, e = PIC_init(d)
  PROVE  SamePort(d, e)
<1> DEFINE Begin == ICW1_INIT + ICW1_ICW4
<1> USE DEF PIC1_COMMAND, PIC1_DATA, PIC1, PIC2_COMMAND, PIC2_DATA, PIC2
<1>1. PICK started : started = Both(d, PIC1_COMMAND, Begin, PIC2_COMMAND, Begin)
  OBVIOUS
<1>2. PICK moved : moved = Both(started, PIC1_DATA, 32, PIC2_DATA, 40)
  OBVIOUS
<1>3. PICK chained : chained = Both(moved, PIC1_DATA, 4, PIC2_DATA, 2)
  OBVIOUS
<1>4. PICK ready : ready = Both(chained, PIC1_DATA, ICW4_8086, PIC2_DATA, ICW4_8086)
  OBVIOUS
<1>5. PICK first : first = outb(ready, PIC1_DATA, 0)
  OBVIOUS
<1>6. e = outb(first, PIC2_DATA, 0)
  BY <1>1, <1>2, <1>3, <1>4, <1>5 DEF PIC_init, PIC_remap
<1>7. SamePort(d, started)
  BY <1>1, BothOther
<1>8. SamePort(started, moved)
  BY <1>2, <1>7, BothOther DEF SamePort
<1>9. SamePort(moved, chained)
  BY <1>3, <1>8, BothOther DEF SamePort
<1>10. SamePort(chained, ready)
  BY <1>4, <1>9, BothOther DEF SamePort
<1>11. SamePort(ready, first)
  BY <1>5, <1>10, OutOther DEF SamePort
<1>12. SamePort(first, e)
  BY <1>6, <1>11, OutOther DEF SamePort
<1> QED BY <1>7, <1>8, <1>9, <1>10, <1>11, <1>12, SameSame

LEMMA EoiOther ==
  ASSUME NEW d, HasPort(d), NEW l \in Device, NEW e, e = PIC_sendEOI(d, l)
  PROVE  SamePort(d, e)
<1>1. e = outb(d, 32, PIC_EOI)
  BY DEF PIC_sendEOI, Device, PIC1_COMMAND, PIC1
<1> QED BY <1>1, OutOther

LEMMA TimerOther ==
  ASSUME NEW d, HasPort(d), NEW e, e = timer_init(d)
  PROVE  SamePort(d, e)
<1>1. PICK a : a = outb(d, 67, 54)
  OBVIOUS
<1>2. PICK b : b = outb(a, 64, (1193180 \div 1000) % 256)
  OBVIOUS
<1>3. e = outb(b, 64, ((1193180 \div 1000) \div 256) % 256)
  BY <1>1, <1>2 DEF timer_init
<1>4. SamePort(d, a)
  BY <1>1, OutOther
<1>5. SamePort(a, b)
  BY <1>2, <1>4, OutOther DEF SamePort
<1>6. SamePort(b, e)
  BY <1>3, <1>5, OutOther DEF SamePort
<1> QED BY <1>4, <1>5, <1>6, SameSame

LEMMA NmiOther ==
  ASSUME NEW d, HasPort(d), NEW e, e = NMI_enable(d) \/ e = NMI_disable(d)
  PROVE  SamePort(d, e)
<1>1. \E val : e = outb(d, 112, val)
  BY DEF NMI_enable, NMI_disable
<1> QED BY <1>1, OutOther

\* What is asked of a controller's lines.
LEMMA LinesOther ==
  ASSUME NEW d, HasPort(d), NEW chip, NEW e, e = [d EXCEPT !.pic1 = chip]
  PROVE  SamePort(d, e)
BY OtherChanges DEF HasPort, SamePort

LEMMA DevicesHavePort ==
  ASSUME NEW d, IsDevices(d)
  PROVE  HasPort(d)
BY DEF IsDevices, HasPort

-----------------------------------------------------------------------------
(* What a dump tells.                                                       *)

\* tty.c: what is printed comes out of the port after what came out before.
PortGood(d) == HasPort(d) /\ Port(d) \in Tty(Output) /\ TtyOK(Port(d))

Printing(d, text, e) == PortGood(e) /\ e.uart.received = d.uart.received \o text

LEMMA PrintIsHeard ==
  ASSUME NEW d, PortGood(d), NEW text \in Seq(Output), NEW e, e = terminal_write(d, text)
  PROVE  Printing(d, text, e)
<1> HIDE DEF Output
<1>1. PICK tty : tty = Port(d)
  OBVIOUS
<1>2. PICK q : q = Sent(tty, text)
  OBVIOUS
<1>3. e = [d EXCEPT !.uart = q.uart, !.serial_ready = q.serial_ready]
  BY <1>1, <1>2 DEF terminal_write, serial_write, Sent, Port
<1>4. tty \in Tty(Output) /\ TtyOK(tty) /\ Alphabet(Output)
  BY <1>1, OutputIs DEF PortGood
<1>5. q \in Tty(Output) /\ TtyOK(q) /\ Heard(q) = Heard(tty) \o text
  BY <1>2, <1>4, SerialWritten
<1>6. HasPort(e) /\ e.uart = q.uart /\ e.serial_ready = q.serial_ready
  BY <1>3 DEF PortGood, HasPort
<1>7. Port(e) = q
  BY <1>5, <1>6 DEF Port, Tty
<1>8. Heard(tty) = d.uart.received
  BY <1>1 DEF Heard, Port
<1> QED BY <1>5, <1>6, <1>7, <1>8 DEF Printing, PortGood, Heard

LEMMA SameIsGood ==
  ASSUME NEW d, PortGood(d), NEW e, SamePort(d, e)
  PROVE  PortGood(e) /\ e.uart.received = d.uart.received
BY DEF PortGood, SamePort, Port

\* What a program prints is not heard any further.
LEMMA UnheardIsGood ==
  ASSUME NEW d, PortGood(d), NEW e, e = Unheard(d)
  PROVE  PortGood(e) /\ e.uart.received = << >>
<1> HIDE DEF Output
<1>1. d.uart \in UartType(Output) /\ d.serial_ready \in BOOLEAN
  BY DEF PortGood, Port, Tty
<1>2. PICK u : u = [d.uart EXCEPT !.received = << >>]
  OBVIOUS
<1>3. u \in UartType(Output) /\ u.received = << >> /\ u.dlab = d.uart.dlab
      /\ u.line = d.uart.line /\ u.divisor = d.uart.divisor
  <2>1. PICK w : w = << >>
    OBVIOUS
  <2>2. w \in Seq(Output)
    BY <2>1
  <2>3. u = [d.uart EXCEPT !.received = w]
    BY <1>2, <2>1
  <2>4. u \in UartType(Output)
    BY <1>1, <2>2, <2>3 DEF UartType
  <2>5. u.received = w /\ u.dlab = d.uart.dlab /\ u.line = d.uart.line /\ u.divisor = d.uart.divisor
    BY <1>1, <2>3 DEF UartType
  <2> QED BY <2>1, <2>4, <2>5
<1>4. e = [d EXCEPT !.uart = u]
  BY <1>2 DEF Unheard
<1>5. HasPort(e) /\ e.uart = u /\ e.serial_ready = d.serial_ready
  BY <1>4 DEF PortGood, HasPort
<1>6. Port(e) \in Tty(Output)
  BY <1>1, <1>3, <1>5 DEF Port, Tty
<1>7. TtyOK(Port(d)) => TtyOK(Port(e))
  BY <1>3, <1>5 DEF TtyOK, Port
<1> QED BY <1>3, <1>5, <1>6, <1>7 DEF PortGood

\* The exception that was raised: its vector, its error code and the frame of
\* the code that raised it.
Raised(v, e, f) == <<v, e, Address[f.at], f.cs, RFlags(f.flag)>>

IsrOK == At("isr_stub") =>
  /\ nr \in Exceptions /\ OwnFrame(Words[1])
  /\ raised[2] \in {0, 26} /\ raised = Raised(nr, raised[2], Words[1])
  /\ IF nr \in PushesError THEN Len(Words) = 2 /\ Words[2] = Number(raised[2])
                           ELSE Len(Words) = 1 /\ raised[2] = 0

FaultOK == At("isr_stub_14") =>
  /\ raised[2] \in {0, 1, 2, 3, 4, 5, 6, 7} /\ raised = Raised(14, raised[2], Words[1])
  /\ Words[2] = Number(raised[2])
  /\ Bit(raised[2], PF_USER) <=> Words[1].cs = 43

\* The dump tells the exception because the stub finds on its stack what was
\* raised.
DumpInv == PortGood(io) /\ IsrOK /\ FaultOK /\ DumpTellsException

\* Steps on which nothing is printed and no exception is under way.
Silent == {"isr_stub", "isr_stub_14", "halted"}

LEMMA Elsewhere ==
  ASSUME DumpInv, ~At("halted"), pc'[cur'] \notin Silent, SamePort(io, io')
  PROVE  DumpInv'
<1>1. dump = << >>
  BY DEF DumpInv, DumpTellsException
<1>2. PortGood(io') /\ dump' = << >>
  BY <1>1, SameIsGood DEF DumpInv, dump
<1> QED BY <1>2 DEF DumpInv, IsrOK, FaultOK, DumpTellsException, At, Silent

LEMMA IoHasPort ==
  ASSUME MachineInv
  PROVE  HasPort(io)
BY DevicesHavePort DEF MachineInv, DevicesOK

LEMMA NothingPrinted ==
  ASSUME MachineInv, io' = io
  PROVE  SamePort(io, io')
BY IoHasPort DEF SamePort

\* kernel_main.
LEMMA BootTells ==
  ASSUME MachineInv, DumpInv, BootStep
  PROVE  DumpInv'
<1>1. pc[Main] = "boot" /\ Main \in Thread /\ cur \in Thread /\ cur' = cur
  BY DEF BootStep, MachineInv, TypeInv, Thread
<1>2. pc[cur] = "boot"
  BY <1>1 DEF MachineInv, WaitOK, Waiting
<1>3. cur = Main
  BY <1>2 DEF MachineInv, RunOK, KernelOK, InKernel
<1>4. pc'[cur'] \in {"idle", "boot"}
  BY <1>1, <1>3 DEF BootStep
<1>5. SamePort(io, io')
  <2>1. \/ io' = PIC_init(io) \/ io' = timer_init(io) \/ io' = NMI_enable(io)
        \/ io' = NMI_disable(io) \/ io' = io
    BY DEF BootStep
  <2>2. HasPort(io)
    BY IoHasPort
  <2> QED BY <2>1, <2>2, NothingPrinted, InitOther, TimerOther, NmiOther
<1>6. ~At("halted") /\ pc'[cur'] \notin Silent
  BY <1>2, <1>4 DEF At, Silent
<1> QED BY <1>5, <1>6, Elsewhere

\* A device or the CPU asks the controller.
LEMMA DeviceTells ==
  ASSUME MachineInv, DumpInv, DeviceRaises
  PROVE  DumpInv'
<1>1. \E chip : io' = [io EXCEPT !.pic1 = chip]
  <2>1. PICK l : io' = [io EXCEPT !.pic1.irr = @ \cup {l}]
    BY DEF DeviceRaises
  <2>2. PICK chip : chip = [io.pic1 EXCEPT !.irr = io.pic1.irr \cup {l}]
    OBVIOUS
  <2>3. io' = [io EXCEPT !.pic1 = chip]
    BY <2>1, <2>2
  <2> QED BY <2>3
<1>2. SamePort(io, io')
  <2>1. PICK chip : io' = [io EXCEPT !.pic1 = chip]
    BY <1>1
  <2> QED BY <2>1, IoHasPort, LinesOther
<1>3. PortGood(io') /\ dump' = dump
  BY <1>2, SameIsGood DEF DumpInv, dump
<1>4. UNCHANGED <<cur, pc, stack, nr, raised>>
  BY DEF DeviceRaises, stacks
<1>5. IsrOK' /\ FaultOK'
  BY <1>4 DEF DumpInv, IsrOK, FaultOK, At, Words
<1>6. DumpTellsException'
  BY <1>3, <1>4 DEF DumpInv, DumpTellsException, At, Tells, Shown
<1> QED BY <1>3, <1>5, <1>6 DEF DumpInv

LEMMA InterruptTells ==
  ASSUME MachineInv, DumpInv, Interrupt
  PROVE  DumpInv'
<1>1. pc[cur] \in OwnCode /\ ~At("halted")
  BY DEF Interrupt, MachineInv, RunOK, KernelOK, OwnCode, InKernel, At
<1>2. Booted
  BY <1>1, FrameIs
<1>3. io.pic1 \in Chip /\ IsDevices(io)
  BY Fields DEF MachineInv, DevicesOK
<1>4. PICK l : l = Min(io.pic1.irr)
  OBVIOUS
<1>5. /\ io' = [io EXCEPT !.pic1.irr = @ \ {l}, !.pic1.isr = @ \cup {l}]
      /\ Deliver(io.pic1.offset + l, << >>) /\ io.pic1.irr # {}
  BY <1>4 DEF Interrupt
<1>6. l \in Device
  <2>1. io.pic1.irr \subseteq Device
    BY <1>3 DEF Chip
  <2>2. \E m \in io.pic1.irr : \A n \in io.pic1.irr : m <= n
    BY <1>5, <2>1 DEF Device
  <2>3. l \in io.pic1.irr
    BY <1>4, <2>2 DEF Min
  <2> QED BY <2>1, <2>3
<1>7. PICK v, more : v = io.pic1.offset + l /\ more = << >>
  OBVIOUS
<1>8. v \in Vectors /\ v \in {32, 33, 38} /\ StubOf(v) \notin Silent
  BY <1>2, <1>6, <1>7 DEF Booted, Vectors, Device, StubOf, Silent
<1>9. more \in Seq(Word) /\ Len(more) <= 1 /\ Deliver(v, more)
  BY <1>5, <1>7
<1>10. Goto(StubOf(v)) /\ cur' = cur /\ cur \in Thread
  BY <1>1, <1>8, <1>9, DeliverIs DEF MachineInv, TypeInv
<1>11. pc'[cur'] \notin Silent
  BY <1>8, <1>10 DEF Goto, MachineInv, TypeInv
<1>12. SamePort(io, io')
  <2>1. PICK chip : chip = [io.pic1 EXCEPT !.irr = @ \ {l}, !.isr = @ \cup {l}]
    OBVIOUS
  <2>2. io' = [io EXCEPT !.pic1 = chip]
    BY <1>3, <1>5, <2>1 DEF IsDevices
  <2> QED BY <2>2, IoHasPort, LinesOther
<1> QED BY <1>1, <1>11, <1>12, Elsewhere

\* The handlers of the interrupts.
LEMMA HandlerTells ==
  ASSUME MachineInv, DumpInv, TimerHandler \/ KeyboardHandler
  PROVE  DumpInv'
<1>1. PICK l \in Device : io' = PIC_sendEOI(io, l)
  BY DEF TimerHandler, KeyboardHandler, Device
<1>2. SamePort(io, io')
  BY <1>1, IoHasPort, EoiOther
<1>3. PICK handler \in {"task_hook", "irq_end", "wild"} : Goto(handler) /\ cur' = cur
  BY DEF TimerHandler, KeyboardHandler, PushAll, Wild
<1>4. pc'[cur'] \notin Silent
  BY <1>3 DEF Goto, Silent, MachineInv, TypeInv
<1>5. ~At("halted")
  BY DEF TimerHandler, KeyboardHandler, At
<1> QED BY <1>2, <1>4, <1>5, Elsewhere

\* The ends of the stubs.
LEMMA ReturnTells ==
  ASSUME MachineInv, DumpInv, FloppyHandler \/ IrqEnd \/ FaultEnd
  PROVE  DumpInv'
<1>1. pc'[cur] \in OwnCode
  BY FloppyHandlerIs, IrqEndIs, FaultEndIs
<1>2. cur' = cur
  BY DEF FloppyHandler, IrqEnd, FaultEnd, Iretq, Wild
<1>3. SamePort(io, io')
  <2>1. io' = io \/ io' = PIC_sendEOI(io, 6)
    BY DEF FloppyHandler, IrqEnd, FaultEnd
  <2> QED BY <2>1, IoHasPort, NothingPrinted, EoiOther DEF Device
<1>4. ~At("halted")
  BY DEF FloppyHandler, IrqEnd, FaultEnd, At
<1>5. pc'[cur'] \notin Silent
  BY <1>1, <1>2 DEF OwnCode, Silent
<1> QED BY <1>3, <1>4, <1>5, Elsewhere

\* Another thread runs, or the machine runs away.
LEMMA SwitchTells ==
  ASSUME MachineInv, DumpInv, NEW next \in Runnable, NEW l,
         \/ pc[cur] = "task_hook" /\ l = "irq_end"
         \/ pc[cur] = "kernel" /\ l = "asleep"
         \/ pc[cur] = "service" /\ l = "dead",
         SwitchTo(next, l), io' = io
  PROVE  DumpInv'
<1>1. cur' = next /\ pc'[next] = CASE pc[next] = "start"  -> "kernel"
                                   [] pc[next] = "asleep" -> "loading"
                                   [] OTHER               -> pc[next]
  BY SwitchIs
<1>2. pc[next] \in {"start", "irq_end", "asleep"}
  BY DEF Runnable
<1>3. pc'[cur'] \in {"kernel", "loading", "irq_end"}
  BY <1>1, <1>2
<1>4. ~At("halted") /\ pc'[cur'] \notin Silent
  BY <1>3 DEF At, Silent
<1> QED BY <1>4, NothingPrinted, Elsewhere

LEMMA SchedulerTells ==
  ASSUME MachineInv, DumpInv, TimerHook \/ Sleep
  PROVE  DumpInv'
<1>1. CASE \E next \in Runnable : \/ At("task_hook") /\ SwitchTo(next, "irq_end")
                                  \/ At("kernel") /\ SwitchTo(next, "asleep")
  BY <1>1, SwitchTells DEF TimerHook, Sleep, At
<1>2. CASE TimerHook /\ Goto("irq_end") /\ cur' = cur
  <2>1. pc'[cur'] \notin Silent /\ ~At("halted")
    BY <1>2 DEF Goto, Silent, TimerHook, At, MachineInv, TypeInv
  <2>2. io' = io
    BY <1>2 DEF TimerHook
  <2> QED BY <2>1, <2>2, NothingPrinted, Elsewhere
<1> QED BY <1>1, <1>2 DEF TimerHook, Sleep

\* Ring 3 and system calls.
LEMMA CallTells ==
  ASSUME MachineInv, DumpInv, GetToRing3 \/ Syscall \/ DoSyscall \/ SysReturn
  PROVE  DumpInv'
<1>1. io' = io /\ cur' = cur /\ ~At("halted")
  BY DEF GetToRing3, Syscall, DoSyscall, SysReturn, Wild, At
<1>2. PICK l \in {"user", "do_syscall", "service", "wild"} : Goto(l)
  BY DEF GetToRing3, Syscall, DoSyscall, SysReturn, Wild, Sysretq
<1>3. pc'[cur'] \notin Silent
  BY <1>1, <1>2 DEF Goto, Silent, MachineInv, TypeInv
<1> QED BY <1>1, <1>3, NothingPrinted, Elsewhere

\* Service 5 is sys_exit.
LEMMA ServiceTells ==
  ASSUME MachineInv, DumpInv, Service
  PROVE  DumpInv'
<1>1. At("service") /\ ~At("halted")
  BY DEF Service, At
<1>2. CASE syscalls[nr + 1] = "sys_exit"
  <2>1. PICK next \in Runnable : SwitchTo(next, "dead")
    BY <1>2 DEF Service
  <2>2. io' = io
    BY <1>2 DEF Service
  <2> QED BY <1>1, <2>1, <2>2, SwitchTells DEF At
<1>3. CASE syscalls[nr + 1] # "sys_exit"
  <2>1. Goto("sysret") /\ cur' = cur
    BY <1>3 DEF Service
  <2>2. pc'[cur'] \notin Silent
    BY <2>1 DEF Goto, Silent, MachineInv, TypeInv
  <2>3. CASE io' = io
    BY <1>1, <2>2, <2>3, NothingPrinted, Elsewhere
  <2>4. CASE io' = Unheard(terminal_write(io, <<"c">>))
    <3>1. PICK text, e : text = <<"c">> /\ e = terminal_write(io, text)
      OBVIOUS
    <3>2. text \in Seq(Output)
      <4>1. "c" \in Output
        <5>1. "c" = Digit[12 + 1]
          BY DEF Digit
        <5>2. "c" \in DigitSet
          BY <5>1 DEF DigitSet
        <5> QED BY <5>2, OutputIs
      <4> HIDE DEF Output
      <4> QED BY <3>1, <4>1
    <3>3. PortGood(e)
      BY <3>1, <3>2, PrintIsHeard DEF DumpInv, Printing
    <3>4. PortGood(io') /\ dump' = << >>
      BY <2>4, <3>1, <3>3, UnheardIsGood DEF dump
    <3> QED BY <2>2, <3>4 DEF DumpInv, IsrOK, FaultOK, DumpTellsException, At, Silent
  <2> QED BY <1>3, <2>3, <2>4 DEF Service
<1> QED BY <1>2, <1>3

LEMMA StutterTells ==
  ASSUME DumpInv, UNCHANGED vars
  PROVE  DumpInv'
<1>1. UNCHANGED <<cur, pc, stack, nr, raised, io>>
  BY DEF vars, stacks
<1>2. IsrOK' /\ FaultOK' /\ PortGood(io')
  BY <1>1 DEF DumpInv, IsrOK, FaultOK, At, Words
<1>3. DumpTellsException'
  BY <1>1 DEF DumpInv, DumpTellsException, At, Tells, Shown, dump
<1> QED BY <1>2, <1>3 DEF DumpInv

LEMMA InitTells ==
  ASSUME Init
  PROVE  DumpInv
<1> HIDE DEF Output
<1>1. io = PowerOn /\ pc[cur] = "boot"
  BY DEF Init, Thread
<1>2. PortGood(PowerOn) /\ PowerOn.uart.received = << >>
  <2>1. HasPort(PowerOn) /\ PowerOn.uart.received = << >> /\ PowerOn.serial_ready = FALSE
    BY DEF HasPort, PowerOn
  <2>2. PowerOn.uart = [dlab |-> FALSE, line |-> 3, divisor |-> 12, received |-> << >>]
    BY DEF PowerOn
  <2>3. PICK u : u = PowerOn.uart
    OBVIOUS
  <2>4. u \in UartType(Output)
    BY <2>2, <2>3 DEF UartType
  <2>5. Port(PowerOn) \in Tty(Output)
    BY <2>1, <2>3, <2>4 DEF Port, Tty
  <2>6. TtyOK(Port(PowerOn))
    BY <2>1, <2>2 DEF TtyOK, Port
  <2> QED BY <2>1, <2>5, <2>6 DEF PortGood
<1> QED BY <1>1, <1>2 DEF DumpInv, IsrOK, FaultOK, DumpTellsException, At, dump

\* The words that the CPU pushes for an exception.
LEMMA PushedWords ==
  ASSUME NEW f \in Word, NEW more \in Seq(Word), Len(more) <= 1, NEW words,
         words = <<f>> \o more
  PROVE  /\ Len(words) = 1 + Len(more) /\ words[1] = f
         /\ Len(more) = 1 => words[2] = more[1]
<1>1. PICK u : u = <<f>>
  OBVIOUS
<1>2. u \in Seq(Word) /\ Len(u) = 1 /\ u[1] = f
  BY <1>1, Elements
<1>3. words \in Seq(Word) /\ Len(words) = Len(u) + Len(more)
      /\ (\A i \in 1..Len(u) : words[i] = u[i])
      /\ \A i \in 1..Len(more) : words[Len(u) + i] = more[i]
  <2>1. u \in Seq(Word) /\ more \in Seq(Word) /\ words = u \o more
    BY <1>1, <1>2
  <2> QED BY ONLY <2>1, Joined
<1>4. 1 \in 1..Len(u) /\ (Len(more) = 1 => 1 \in 1..Len(more) /\ Len(u) + 1 = 2)
  BY <1>2
<1> QED BY <1>2, <1>3, <1>4

\* What a vector leaves: the stub runs with the frame on its stack.
LEMMA Delivered ==
  ASSUME MachineInv, pc[cur] \in OwnCode, NEW v \in Vectors,
         NEW more \in Seq(Word), Len(more) <= 1, Deliver(v, more), NEW f, f = Frame
  PROVE  /\ cur' = cur /\ pc'[cur'] = StubOf(v) /\ OwnFrame(f)
         /\ nr' = IF StubOf(v) = "isr_stub" THEN v ELSE 0
         /\ Len(stack'[cur']) = 1 + Len(more) /\ stack'[cur'][1] = f
         /\ Len(more) = 1 => stack'[cur'][2] = more[1]
<1>1. /\ cur' = cur /\ Goto(StubOf(v)) /\ Stack(<<Frame>> \o more)
      /\ nr' = IF StubOf(v) = "isr_stub" THEN v ELSE 0
  BY DeliverIs
<1>2. OwnFrame(f) /\ f \in Word
  BY FrameIs
<1>3. PICK words : words = <<f>> \o more
  OBVIOUS
<1>4. cur \in Thread /\ pc'[cur'] = StubOf(v) /\ stack'[cur'] = words
  BY <1>1, <1>3 DEF Goto, Stack, MachineInv, TypeInv
<1>5. Len(words) = 1 + Len(more) /\ words[1] = f /\ (Len(more) = 1 => words[2] = more[1])
  BY <1>2, <1>3, PushedWords
<1> QED BY <1>1, <1>2, <1>4, <1>5

LEMMA NothingYet ==
  ASSUME MachineInv, DumpInv, pc[cur] \in OwnCode, io' = io, pc'[cur'] # "halted"
  PROVE  PortGood(io') /\ DumpTellsException'
<1>1. dump = << >>
  BY DEF DumpInv, DumpTellsException, At, OwnCode
<1> QED BY <1>1 DEF DumpInv, DumpTellsException, At, dump

LEMMA RaiseTells ==
  ASSUME MachineInv, DumpInv, Raise
  PROVE  DumpInv'
<1>1. PICK v \in Exceptions, e \in {0, 26} :
        /\ v \in PushesError \/ e = 0
        /\ raised' = <<v, e, Address[pc[cur]], cs, RFlags(interrupts)>>
        /\ Deliver(v, IF v \in PushesError THEN <<Number(e)>> ELSE << >>)
        /\ io' = io /\ pc[cur] \in OwnCode
  BY DEF Raise
<1>2. PICK more, w : w = Number(e) /\ more = IF v \in PushesError THEN <<w>> ELSE << >>
  OBVIOUS
<1>3. w \in Word
  BY <1>2, WordIs
<1>4. more \in Seq(Word) /\ Len(more) <= 1
      /\ IF v \in PushesError THEN Len(more) = 1 /\ more[1] = w ELSE Len(more) = 0
  BY <1>2, <1>3
<1>5. v \in Vectors /\ StubOf(v) = "isr_stub"
  BY InterruptsAssumption DEF InterruptsAssumption, Vectors, StubOf
<1>6. PICK f : f = Frame
  OBVIOUS
<1>7. /\ cur' = cur /\ pc'[cur'] = "isr_stub" /\ OwnFrame(f) /\ nr' = v
      /\ Len(stack'[cur']) = 1 + Len(more) /\ stack'[cur'][1] = f
      /\ Len(more) = 1 => stack'[cur'][2] = more[1]
  <2>1. Deliver(v, more)
    BY <1>1, <1>2
  <2>2. /\ cur' = cur /\ pc'[cur'] = StubOf(v) /\ OwnFrame(f)
        /\ nr' = IF StubOf(v) = "isr_stub" THEN v ELSE 0
        /\ Len(stack'[cur']) = 1 + Len(more) /\ stack'[cur'][1] = f
        /\ Len(more) = 1 => stack'[cur'][2] = more[1]
    BY <1>1, <1>4, <1>5, <1>6, <2>1, Delivered
  <2> QED BY <1>5, <2>2
<1>8. raised' = Raised(v, e, f) /\ raised'[2] = e
  BY <1>1, <1>6 DEF Raised, Frame
<1>9. IsrOK'
  <2>1. raised' = Raised(nr', raised'[2], stack'[cur'][1])
    BY <1>7, <1>8
  <2>2. IF v \in PushesError THEN Len(stack'[cur']) = 2 /\ stack'[cur'][2] = Number(e)
                             ELSE Len(stack'[cur']) = 1 /\ e = 0
    BY <1>1, <1>2, <1>4, <1>7
  <2> QED BY <1>7, <1>8, <2>1, <2>2 DEF IsrOK, Words
<1>10. FaultOK'
  BY <1>7 DEF FaultOK, At
<1>11. PortGood(io') /\ DumpTellsException'
  BY <1>1, <1>7, NothingYet
<1> QED BY <1>9, <1>10, <1>11 DEF DumpInv

LEMMA PageFaultTells ==
  ASSUME MachineInv, DumpInv, PageFault
  PROVE  DumpInv'
<1>1. PICK prot, write, e :
        /\ prot \in {0, PF_PROT} /\ write \in {0, PF_WRITE}
        /\ e = prot + write + IF ring = 3 THEN PF_USER ELSE 0
        /\ raised' = <<14, e, Address[pc[cur]], cs, RFlags(interrupts)>>
        /\ Deliver(14, <<Number(e)>>) /\ io' = io /\ pc[cur] \in OwnCode
  BY DEF PageFault
<1>2. e \in {0, 1, 2, 3, 4, 5, 6, 7} /\ (Bit(e, PF_USER) <=> ring = 3)
  BY <1>1 DEF PF_PROT, PF_WRITE, PF_USER, Bit
<1>3. PICK more, w, v : w = Number(e) /\ more = <<w>> /\ v = 14
  OBVIOUS
<1>4. w \in Word
  BY <1>2, <1>3, WordIs
<1>5. more \in Seq(Word) /\ Len(more) <= 1 /\ Len(more) = 1 /\ more[1] = w
  BY <1>3, <1>4
<1>6. v \in Vectors /\ StubOf(v) = "isr_stub_14"
  BY <1>3 DEF Vectors, StubOf
<1>7. PICK f : f = Frame
  OBVIOUS
<1>8. /\ cur' = cur /\ pc'[cur'] = "isr_stub_14" /\ OwnFrame(f)
      /\ stack'[cur'][1] = f /\ stack'[cur'][2] = w
  <2>1. Deliver(v, more)
    BY <1>1, <1>3
  <2>2. /\ cur' = cur /\ pc'[cur'] = StubOf(v) /\ OwnFrame(f)
        /\ nr' = IF StubOf(v) = "isr_stub" THEN v ELSE 0
        /\ Len(stack'[cur']) = 1 + Len(more) /\ stack'[cur'][1] = f
        /\ Len(more) = 1 => stack'[cur'][2] = more[1]
    BY <1>1, <1>5, <1>6, <1>7, <2>1, Delivered
  <2> QED BY <1>5, <1>6, <2>2
<1>9. raised' = Raised(14, e, f) /\ raised'[2] = e
  BY <1>1, <1>7 DEF Raised, Frame
<1>10. Bit(e, PF_USER) <=> f.cs = 43
  <2>1. f.ring = ring
    BY <1>7 DEF Frame
  <2>2. f.ring = 3 <=> f.cs = 43
    BY <1>8 DEF OwnFrame
  <2> QED BY <1>2, <2>1, <2>2
<1>11. FaultOK'
  <2>1. raised' = Raised(14, raised'[2], stack'[cur'][1])
    BY <1>8, <1>9
  <2>2. stack'[cur'][2] = Number(raised'[2])
    BY <1>3, <1>8, <1>9
  <2> QED BY <1>2, <1>8, <1>9, <1>10, <2>1, <2>2 DEF FaultOK, Words
<1>12. IsrOK'
  BY <1>8 DEF IsrOK, At
<1>13. PortGood(io') /\ DumpTellsException'
  BY <1>1, <1>8, NothingYet
<1> QED BY <1>11, <1>12, <1>13 DEF DumpInv

LEMMA AfterNothing ==
  ASSUME NEW S, NEW text \in Seq(S), NEW empty, empty = << >>
  PROVE  empty \o text = text
OBVIOUS

\* The numbers of an exception fit the format.
ShortArgs(args) == \A k \in 1..5 : args[k] \in Short

LEMMA NumbersAreShort ==
  ASSUME NEW v \in Short, NEW e \in Short, NEW f, OwnFrame(f), NEW args, args = Raised(v, e, f)
  PROVE  /\ ShortArgs(args) /\ args # << >>
         /\ args[1] = v /\ args[2] = e /\ args[4] = f.cs /\ f.cs \in {8, 43}
<1>1. args = <<v, e, Address[f.at], f.cs, RFlags(f.flag)>>
  BY DEF Raised
<1>2. args # << >>
  <2>1. PICK a, b, c, g, h : args = <<a, b, c, g, h>>
    BY <1>1
  <2>2. PICK empty : empty = << >>
    OBVIOUS
  <2>3. Len(args) = 5 /\ Len(empty) = 0
    BY ONLY <2>1, <2>2
  <2> QED BY <2>2, <2>3
<1>3. f.at \in OwnCode /\ f.cs \in {8, 43}
  BY DEF OwnFrame
<1>4. Address[f.at] \in Short
  BY <1>3 DEF OwnCode, Address, Short
<1>5. f.cs \in Short /\ RFlags(f.flag) \in Short
  BY <1>3 DEF RFlags, Short
<1> HIDE DEF Short
<1>6. args[1] = v /\ args[2] = e /\ args[3] = Address[f.at] /\ args[4] = f.cs
      /\ args[5] = RFlags(f.flag)
  BY <1>1
<1>7. ASSUME NEW k \in 1..5 PROVE k = 1 \/ k = 2 \/ k = 3 \/ k = 4 \/ k = 5
  OBVIOUS
<1>8. ShortArgs(args)
  BY <1>4, <1>5, <1>6, <1>7 DEF ShortArgs
<1> QED BY <1>2, <1>3, <1>6, <1>8

\* idt.c: exception_handler finds the vector, the error code and the frame.
LEMMA ExceptionTells ==
  ASSUME MachineInv, DumpInv, Exception
  PROVE  DumpInv'
<1> HIDE DEF Output, Short
<1>1. /\ pc[cur] = "isr_stub" /\ cur \in Thread /\ nr \in Exceptions /\ OwnFrame(Words[1])
      /\ raised[2] \in {0, 26} /\ raised = Raised(nr, raised[2], Words[1])
      /\ IF nr \in PushesError THEN Len(Words) = 2 /\ Words[2] = Number(raised[2])
                               ELSE Len(Words) = 1 /\ raised[2] = 0
  BY DEF Exception, At, DumpInv, IsrOK, MachineInv, TypeInv
<1>2. nr \in 0..31 /\ nr # 14 /\ (nr \in isr_err_stub <=> nr \in PushesError)
  BY <1>1, InterruptsAssumption DEF InterruptsAssumption, isr_err_stub, PushesError
<1>3. PICK under, w : /\ w = Number(0)
                      /\ under = IF nr \in isr_err_stub THEN Words ELSE Words \o <<w>>
  OBVIOUS
<1>4. Len(under) = 2 /\ under[2] = Number(raised[2]) /\ under[1] = Words[1]
  <2>1. CASE nr \in PushesError
    BY <1>1, <1>2, <1>3, <2>1
  <2>2. CASE nr \notin PushesError
    <3>1. PICK u : u = <<w>>
      OBVIOUS
    <3>2. w \in Word
      BY <1>3, WordIs
    <3>3. Words \in Seq(Word) /\ u \in Seq(Word) /\ Len(u) = 1 /\ u[1] = w
      BY <1>1, <3>1, <3>2, Elements DEF MachineInv, TypeInv, Words
    <3>4. under = Words \o u
      BY <1>2, <1>3, <2>2, <3>1
    <3>5. Len(under) = Len(Words) + Len(u)
          /\ (\A i \in 1..Len(Words) : under[i] = Words[i])
          /\ \A i \in 1..Len(u) : under[Len(Words) + i] = u[i]
      <4>1. PICK a : a = Words
        OBVIOUS
      <4>2. a \in Seq(Word) /\ u \in Seq(Word) /\ under = a \o u
        BY <3>3, <3>4, <4>1
      <4>3. /\ under \in Seq(Word) /\ Len(under) = Len(a) + Len(u)
            /\ (\A i \in 1..Len(a) : under[i] = a[i])
            /\ \A i \in 1..Len(u) : under[Len(a) + i] = u[i]
        BY ONLY <4>2, Joined
      <4>4. Len(under) = Len(a) + Len(u) /\ \A i \in 1..Len(a) : under[i] = a[i]
        BY <4>3
      <4>5. \A i \in 1..Len(u) : under[Len(a) + i] = u[i]
        BY <4>3
      <4> QED BY ONLY <4>1, <4>4, <4>5
    <3>6. Len(Words) = 1 /\ raised[2] = 0 /\ 1 \in 1..Len(Words) /\ 1 \in 1..Len(u)
          /\ Len(Words) + 1 = 2 /\ Len(Words) + Len(u) = 2
      <4>1. Len(Words) = 1 /\ raised[2] = 0
        BY <1>1, <2>2
      <4>2. Len(u) = 1
        BY <3>3
      <4> QED BY ONLY <4>1, <4>2
    <3> QED BY <1>3, <3>3, <3>5, <3>6
  <2> QED BY <2>1, <2>2
<1>5. PICK text : text = vprintk_func(DumpFormat, raised)
  OBVIOUS
<1>6. io' = terminal_write(io, text)
  <2>1. Len(under) - 1 = 1 /\ Len(under) > 1
    BY <1>4
  <2>2. under[Len(under)].is = "number" /\ under[Len(under)].value = raised[2]
    BY <1>4 DEF Number
  <2>3. under[Len(under) - 1].is = "frame" /\ under[Len(under) - 1].at \in OwnCode
        /\ under[Len(under) - 1] = Words[1]
    BY <1>1, <1>4, <2>1 DEF OwnFrame
  <2>4. raised = <<nr, raised[2], Address[Words[1].at], Words[1].cs, RFlags(Words[1].flag)>>
    BY <1>1 DEF Raised
  <2>5. io' = printk(io, DumpFormat, raised)
    BY <1>3, <2>1, <2>2, <2>3, <2>4 DEF Exception
  <2> QED BY <1>5, <2>5 DEF printk
<1>7. (\A k \in 1..5 : raised[k] \in Short) /\ raised[1] = nr /\ raised # << >>
  <2>1. PICK v, e, f, args : v = nr /\ e = raised[2] /\ f = Words[1] /\ args = raised
    OBVIOUS
  <2>2. v \in Short /\ e \in Short
    BY <1>1, <1>2, <2>1 DEF Short
  <2>3. raised = Raised(nr, raised[2], Words[1]) /\ OwnFrame(Words[1])
    BY <1>1
  <2>4. args = Raised(v, e, f) /\ OwnFrame(f)
    BY ONLY <2>1, <2>3
  <2>5. /\ ShortArgs(args) /\ args # << >>
        /\ args[1] = v /\ args[2] = e /\ args[4] = f.cs /\ f.cs \in {8, 43}
    BY ONLY <2>2, <2>4, NumbersAreShort
  <2> QED BY <2>1, <2>5 DEF ShortArgs
<1>8. /\ text \in Seq(Output) /\ text # << >>
      /\ Stands(text, "vec", 10, raised[1]) /\ Stands(text, "err", 16, raised[2])
      /\ Stands(text, "rip", 16, raised[3]) /\ Stands(text, "cs", 16, raised[4])
      /\ Stands(text, "rflags", 16, raised[5])
  BY <1>5, <1>7, DumpShows
<1>9. Printing(io, text, io')
  BY <1>6, <1>8, PrintIsHeard DEF DumpInv
<1>10. dump = << >>
  BY <1>1 DEF DumpInv, DumpTellsException, At
<1>11. dump' = text
  BY <1>8, <1>9, <1>10, AfterNothing DEF Printing, dump
<1>12. raised' = raised /\ cur' = cur /\ pc'[cur'] = "halted"
  BY <1>1 DEF Exception, Goto, MachineInv, TypeInv
<1>13. Tells(raised)'
  <2>1. /\ ShownIn(text, "vec", 10) = raised[1] /\ ShownIn(text, "err", 16) = raised[2]
        /\ ShownIn(text, "rip", 16) = raised[3] /\ ShownIn(text, "cs", 16) = raised[4]
        /\ ShownIn(text, "rflags", 16) = raised[5]
    <3>1. 10 \in Nat /\ 16 \in Nat
      OBVIOUS
    <3> QED BY <1>8, <3>1, StandingIsShown
  <2>2. /\ Shown("vec", 10)' = raised[1] /\ Shown("err", 16)' = raised[2]
        /\ Shown("rip", 16)' = raised[3] /\ Shown("cs", 16)' = raised[4]
        /\ Shown("rflags", 16)' = raised[5]
    BY <1>11, <2>1 DEF Shown, ShownIn
  <2>3. raised = <<raised[1], raised[2], raised[3], raised[4], raised[5]>> /\ raised[1] # 14
    BY <1>1, <1>2, <1>7 DEF Raised
  <2> QED BY <1>12, <2>2, <2>3 DEF Tells
<1>14. raised # << >>
  BY <1>7
<1>15. PortGood(io') /\ dump' # << >>
  BY <1>8, <1>9, <1>11 DEF Printing
<1> QED BY <1>12, <1>13, <1>14, <1>15 DEF DumpInv, IsrOK, FaultOK, DumpTellsException, At

\* cpu.c: panic prints its remark after "[Error]".
Panicked(d, text, r, e) ==
  /\ PortGood(e) /\ e.uart.received \in Seq(Output) /\ e.uart.received # << >>
  /\ "[Error]" \in ToSet(e.uart.received) /\ r \in ToSet(e.uart.received)
  /\ \A other \in Remark \ {"[Error]", r} :
       Absent(other, text) => other \notin ToSet(e.uart.received)
  /\ \A name \in Name : \A base, v :
       Stands(text, name, base, v) => Stands(e.uart.received, name, base, v)

LEMMA PanicIsHeard ==
  ASSUME NEW d, PortGood(d), NEW text \in Seq(Output), d.uart.received = text,
         NEW r \in Remark \ {"[Error]"}, NEW e, e = panic(d, <<r>>, << >>)
  PROVE  Panicked(d, text, r, e)
<1>1. "[Error]" \in Remark /\ r \in Remark /\ r # "[Error]" /\ Remark \subseteq Output
  BY OutputIs DEF Remark, Letter
<1> HIDE DEF Output, Remark, Name
<1>2. PICK error, remark, first :
        /\ error = <<"[Error]">> /\ remark = <<r>> /\ first = terminal_write(d, error)
  OBVIOUS
<1>3. vprintk_func(<<"[Error]">>, << >>) = error
  BY <1>1, <1>2, RemarkPrints
<1>4. vprintk_func(<<r>>, << >>) = remark
  BY <1>1, <1>2, RemarkPrints
<1>5. e = terminal_write(first, remark)
  BY <1>2, <1>3, <1>4 DEF panic, printk
<1>6. error \in Seq(Output) /\ remark \in Seq(Output)
  BY <1>1, <1>2
<1>7. Printing(d, error, first)
  BY <1>2, <1>6, PrintIsHeard
<1>8. Printing(first, remark, e)
  BY <1>5, <1>6, <1>7, PrintIsHeard DEF Printing
<1>9. PICK s, t : s = text \o <<"[Error]">> /\ t = s \o <<r>>
  OBVIOUS
<1>10. e.uart.received = t
  BY <1>2, <1>7, <1>8, <1>9 DEF Printing
<1>11. PICK q : q = "[Error]"
  OBVIOUS
<1>12. Remarked(text, q, s)
  <2>1. text \in Seq(Output) /\ q \in Remark /\ s = text \o <<q>>
    BY <1>1, <1>9, <1>11
  <2> QED BY ONLY <2>1, RemarkAfter
<1>13. Remarked(s, r, t)
  <2>1. s \in Seq(Output) /\ r \in Remark /\ t = s \o <<r>>
    BY <1>1, <1>9, <1>12 DEF Remarked
  <2> QED BY ONLY <2>1, RemarkAfter
<1>14. ToSet(t) = {t[k] : k \in 1..Len(t)}
  BY <1>13 DEF ToSet, Remarked
<1>15. q \in ToSet(t) /\ r \in ToSet(t)
  <2>1. Len(s) \in 1..Len(t) /\ t[Len(s)] = q
    BY <1>12, <1>13 DEF Remarked
  <2> QED BY <1>13, <1>14, <2>1 DEF Remarked
<1>16. ASSUME NEW other \in Remark \ {"[Error]", r}, Absent(other, text)
       PROVE  other \notin ToSet(t)
  <2>1. Absent(other, t)
    BY <1>11, <1>12, <1>13, <1>16 DEF Remarked
  <2> QED BY <1>14, <2>1 DEF Absent
<1>17. \A name \in Name : \A base, v : Stands(text, name, base, v) => Stands(t, name, base, v)
  BY <1>12, <1>13 DEF Remarked
<1>18. PortGood(e)
  BY <1>8 DEF Printing
<1> QED BY <1>10, <1>11, <1>13, <1>15, <1>16, <1>17, <1>18 DEF Panicked, Remarked

\* pagemanager.c: the error code says whether user code found no page.
LEMMA MappableIs ==
  ASSUME NEW e \in {0, 1, 2, 3, 4, 5, 6, 7}, NEW c \in {8, 43}, Bit(e, PF_USER) <=> c = 43
  PROVE  Mappable(e) <=> c % 4 = 3 /\ ~Bit(e, PF_PROT)
<1>1. e \div 8 = 0
  OBVIOUS
<1>2. c % 4 = 3 <=> c = 43
  OBVIOUS
<1> QED BY <1>1, <1>2 DEF Mappable

LEMMA PageFaultHandlerTells ==
  ASSUME MachineInv, DumpInv, PageFaultHandler
  PROVE  DumpInv'
<1> HIDE DEF Output, Short
<1>1. /\ pc[cur] = "isr_stub_14" /\ cur \in Thread /\ Words \in Seq(Word) /\ Len(Words) = 2
      /\ OwnFrame(Words[1]) /\ Words[2].is = "number"
  BY DEF PageFaultHandler, At, MachineInv, TypeInv, Words, RunOK, EnteredOK, Entered, InStub, Depth
<1>2. PICK e, f : e = raised[2] /\ f = Words[1]
  OBVIOUS
<1>3. /\ e \in {0, 1, 2, 3, 4, 5, 6, 7} /\ raised = Raised(14, e, f)
      /\ Words[2] = Number(e) /\ (Bit(e, PF_USER) <=> f.cs = 43) /\ OwnFrame(f)
  BY <1>1, <1>2 DEF DumpInv, FaultOK, At
<1>4. dump = << >>
  BY <1>1 DEF DumpInv, DumpTellsException, At
<1>5. Top(1) = Words[2] /\ Top(2) = f /\ Top(1).value = e
  <2>1. Top(1) = Words[2] /\ Top(2) = Words[1]
    BY <1>1 DEF Top
  <2>2. Words[2] = Number(e)
    BY <1>3
  <2>3. Words[2].value = e
    BY ONLY <2>2 DEF Number
  <2> QED BY <1>2, <2>1, <2>3
<1>6. ~(Len(Words) + Len(push_all) > StackWords \/ ~TopAre(<<"number", "frame">>))
  <2>1. TopAre(<<"number", "frame">>)
    BY <1>1, <1>2, <1>5 DEF TopAre, OwnFrame
  <2>2. Len(Words) + Len(push_all) = 17
    BY <1>1, Orders
  <2> QED BY <2>1, <2>2, InterruptsAssumption DEF InterruptsAssumption
<1>7. PICK args : args = <<e, Address[f.at], f.cs, RFlags(f.flag)>>
  OBVIOUS
<1>8. /\ cur' = cur
      /\ \/ Mappable(e) /\ Goto("fault_end") /\ io' = io
         \/ Mappable(e) /\ Goto("halted") /\ raised' = raised /\ io' = panic(io, <<"Invalid">>, << >>)
         \/ /\ ~Mappable(e) /\ Goto("halted") /\ raised' = raised
            /\ io' = panic(printk(io, FaultFormat, args), <<"Unknown">>, << >>)
  BY <1>5, <1>6, <1>7 DEF PageFaultHandler
<1>9. /\ \A k \in 1..5 : raised[k] \in Short
      /\ raised # << >> /\ raised[1] = 14 /\ raised[2] = e /\ raised[4] = f.cs /\ f.cs \in {8, 43}
      /\ raised = <<14, args[1], args[2], args[3], args[4]>>
      /\ raised[3] = args[2] /\ raised[4] = args[3] /\ raised[5] = args[4] /\ args[1] = e
  <2>1. PICK v, r : v = 14 /\ r = raised
    OBVIOUS
  <2>2. v \in Short /\ e \in Short /\ r = Raised(v, e, f) /\ OwnFrame(f)
    BY <1>3, <2>1 DEF Short
  <2>3. /\ ShortArgs(r) /\ r # << >>
        /\ r[1] = v /\ r[2] = e /\ r[4] = f.cs /\ f.cs \in {8, 43}
    BY ONLY <2>2, NumbersAreShort
  <2>4. r = <<14, e, Address[f.at], f.cs, RFlags(f.flag)>>
    BY <2>1, <2>2 DEF Raised
  <2>5. args[1] = e /\ args[2] = Address[f.at] /\ args[3] = f.cs /\ args[4] = RFlags(f.flag)
    BY <1>7
  <2>6. r[3] = Address[f.at] /\ r[5] = RFlags(f.flag)
    BY <2>4
  <2> QED BY <2>1, <2>3, <2>4, <2>5, <2>6 DEF ShortArgs
<1>10. Mappable(e) <=> (raised[4] % 4 = 3 /\ ~Bit(raised[2], PF_PROT))
  <2>1. PICK c : c = f.cs
    OBVIOUS
  <2>2. c \in {8, 43} /\ (Bit(e, PF_USER) <=> c = 43)
    BY <1>3, <1>9, <2>1
  <2>3. Mappable(e) <=> c % 4 = 3 /\ ~Bit(e, PF_PROT)
    BY ONLY <1>3, <2>2, MappableIs
  <2> QED BY <1>9, <2>1, <2>3
<1>11. \A l : Goto(l) => pc'[cur'] = l
  BY <1>1, <1>8 DEF Goto, MachineInv, TypeInv
<1>12. CASE Goto("fault_end") /\ io' = io
  <2>1. pc'[cur'] \notin Silent /\ ~At("halted")
    BY <1>1, <1>11, <1>12 DEF Silent, At
  <2> QED BY <1>12, <2>1, NothingPrinted, Elsewhere
<1>13. CASE Mappable(e) /\ Goto("halted") /\ raised' = raised /\ io' = panic(io, <<"Invalid">>, << >>)
  <2>1. PICK d, text, r, k : d = io /\ text = << >> /\ r = "Invalid" /\ k = io'
    OBVIOUS
  <2>2. /\ PortGood(d) /\ text \in Seq(Output) /\ d.uart.received = text
        /\ r \in Remark \ {"[Error]"} /\ k = panic(d, <<r>>, << >>)
    BY <1>4, <1>13, <2>1 DEF DumpInv, dump, Remark
  <2>3. Panicked(d, text, r, k)
    BY ONLY <2>2, PanicIsHeard
  <2>4. "Unknown" \in Remark \ {"[Error]", r} /\ Absent("Unknown", text)
    BY <2>1, Empty DEF Remark
  <2>5. dump' = k.uart.received
    BY <2>1 DEF dump
  <2>6. /\ PortGood(io') /\ dump' # << >> /\ "[Error]" \in ToSet(dump') /\ "Invalid" \in ToSet(dump')
        /\ "Unknown" \notin ToSet(dump')
    BY <2>1, <2>3, <2>4, <2>5 DEF Panicked
  <2>7. Tells(raised)'
    BY <1>9, <1>10, <1>13, <2>6 DEF Tells
  <2>8. pc'[cur'] = "halted"
    BY <1>11, <1>13
  <2> QED BY <1>9, <1>13, <2>6, <2>7, <2>8 DEF DumpInv, IsrOK, FaultOK, DumpTellsException, At
<1>14. CASE /\ ~Mappable(e) /\ Goto("halted") /\ raised' = raised
            /\ io' = panic(printk(io, FaultFormat, args), <<"Unknown">>, << >>)
  <2>1. PICK d, text, r, k : /\ text = vprintk_func(FaultFormat, args)
                             /\ d = terminal_write(io, text) /\ r = "Unknown" /\ k = io'
    OBVIOUS
  <2>2. \A n \in 1..4 : args[n] \in Short
    <3>1. args[1] \in Short /\ args[2] \in Short /\ args[3] \in Short /\ args[4] \in Short
      <4>1. raised[2] \in Short /\ raised[3] \in Short /\ raised[4] \in Short /\ raised[5] \in Short
        BY <1>9
      <4> QED BY <1>9, <4>1
    <3>2. ASSUME NEW n \in 1..4 PROVE n = 1 \/ n = 2 \/ n = 3 \/ n = 4
      OBVIOUS
    <3> QED BY <3>1, <3>2
  <2>3. /\ text \in Seq(Output) /\ text # << >> /\ NoRemark(text)
        /\ Stands(text, "err", 10, args[1]) /\ Stands(text, "rip", 16, args[2])
        /\ Stands(text, "cs", 16, args[3]) /\ Stands(text, "rflags", 16, args[4])
    BY <2>1, <2>2, FaultShows
  <2>4. Printing(io, text, d)
    BY <2>1, <2>3, PrintIsHeard DEF DumpInv
  <2>5. /\ PortGood(d) /\ text \in Seq(Output) /\ d.uart.received = text
        /\ r \in Remark \ {"[Error]"} /\ k = panic(d, <<r>>, << >>)
    <3>1. d.uart.received = text
      BY <1>4, <2>3, <2>4, AfterNothing DEF Printing, dump
    <3>2. k = panic(d, <<r>>, << >>)
      BY <1>14, <2>1 DEF printk
    <3>3. r \in Remark \ {"[Error]"}
      BY <2>1 DEF Remark
    <3> QED BY <2>3, <2>4, <3>1, <3>2, <3>3 DEF Printing
  <2>6. Panicked(d, text, r, k)
    BY ONLY <2>5, PanicIsHeard
  <2>7. PICK t : t = k.uart.received
    OBVIOUS
  <2>8. dump' = t
    BY <2>1, <2>7 DEF dump
  <2>9. /\ PortGood(io') /\ t # << >> /\ "[Error]" \in ToSet(t) /\ "Unknown" \in ToSet(t)
        /\ t \in Seq(Output)
    BY <2>1, <2>6, <2>7 DEF Panicked
  <2>10. /\ Stands(t, "err", 10, args[1]) /\ Stands(t, "rip", 16, args[2])
         /\ Stands(t, "cs", 16, args[3]) /\ Stands(t, "rflags", 16, args[4])
    <3>1. "err" \in Name /\ "rip" \in Name /\ "cs" \in Name /\ "rflags" \in Name
      BY DEF Name
    <3> QED BY <2>3, <2>6, <2>7, <3>1 DEF Panicked
  <2>11. /\ ShownIn(t, "err", 10) = args[1] /\ ShownIn(t, "rip", 16) = args[2]
         /\ ShownIn(t, "cs", 16) = args[3] /\ ShownIn(t, "rflags", 16) = args[4]
    <3>1. 10 \in Nat /\ 16 \in Nat
      OBVIOUS
    <3> QED BY <2>9, <2>10, <3>1, StandingIsShown
  <2>12. /\ Shown("err", 10)' = args[1] /\ Shown("rip", 16)' = args[2]
         /\ Shown("cs", 16)' = args[3] /\ Shown("rflags", 16)' = args[4]
    BY <2>8, <2>11 DEF Shown, ShownIn
  <2>13. Tells(raised)'
    BY <1>9, <1>10, <1>14, <2>8, <2>9, <2>12 DEF Tells
  <2>14. pc'[cur'] = "halted"
    BY <1>11, <1>14
  <2> QED BY <1>9, <1>14, <2>8, <2>9, <2>13, <2>14 DEF DumpInv, IsrOK, FaultOK, DumpTellsException, At
<1> QED BY <1>8, <1>12, <1>13, <1>14

LEMMA NextTells ==
  ASSUME MachineInv, DumpInv, [Next]_vars
  PROVE  DumpInv'
BY DeviceTells, BootTells, InterruptTells, HandlerTells, ReturnTells, RaiseTells, ExceptionTells,
  PageFaultTells, PageFaultHandlerTells, SchedulerTells, CallTells, ServiceTells, StutterTells
  DEF Next

\* isr.s, idt.c, pagemanager.c, printf.c, tty.c: what comes out of the serial port
\* when the machine halts is the exception that was raised, and the machine halts
\* for nothing else and never in silence.
THEOREM DumpsTell == Spec => []DumpTellsException
<1>1. Init => DumpInv
  BY InitTells
<1>2. MachineInv /\ MachineInv' /\ DumpInv /\ [Next]_vars => DumpInv'
  BY NextTells
<1>3. DumpInv => DumpTellsException
  BY DEF DumpInv
<1>4. Spec => []MachineInv
  BY Always
<1> QED BY <1>1, <1>2, <1>3, <1>4, PTL DEF Spec

-----------------------------------------------------------------------------
(* Formats in pieces.                                                       *)

\* What a format and what it prints are made of.
Glyph ==
  DigitSet \cup {"text", "%", "-"} \cup {"s", "d", "u", "x"} \cup UNION {ToSet(t) : t \in Text}

\* Digits are characters.
LEMMA DigitsAreGlyphs ==
  ASSUME NEW s \in Seq(DigitSet)
  PROVE  s \in Seq(Glyph)
<1>1. \A d \in DigitSet : d \in Glyph
  BY DEF Glyph
<1> HIDE DEF DigitSet, Glyph
<1> QED BY <1>1

LEMMA TextsAreGlyphs ==
  ASSUME NEW t \in Text
  PROVE  t \in Seq(Glyph)
<1>1. t \in Seq(STRING)
  BY ArgumentAssumption
<1>2. \A i \in 1..Len(t) : t[i] \in Glyph
  <2>1. \A i \in 1..Len(t) : t[i] \in ToSet(t)
    BY <1>1 DEF ToSet
  <2> QED BY <2>1 DEF Glyph
<1> HIDE DEF Glyph
<1> QED BY <1>1, <1>2

\* The first element of a sequence and the rest.
LEMMA HeadAndTail ==
  ASSUME NEW T, NEW c \in T, NEW s \in Seq(T), NEW u, u = <<c>> \o s
  PROVE  u \in Seq(T) /\ u # << >> /\ Head(u) = c /\ Tail(u) = s
OBVIOUS

LEMMA HeadIsFirst ==
  ASSUME NEW T, NEW s \in Seq(T), s # << >>
  PROVE  Head(s) = s[1] /\ ToSet(s) \subseteq T
BY DEF ToSet

\* printf.c: itoa_unsigned writes a number,
LEMMA UnsignedWrites ==
  ASSUME NEW base \in {10, 16}, NEW v \in Nat
  PROVE  itoa_unsigned(v, base) \in Seq(Glyph) /\ Writes(itoa_unsigned(v, base), v, base)
<1>1. PICK t : t = itoa_unsigned(v, base)
  OBVIOUS
<1>2. base \in 2..16
  OBVIOUS
<1>3. t \in Seq(DigitSet) /\ t # << >> /\ Value(t, base) = v /\ (t[1] = "0" => Len(t) = 1)
  BY <1>1, <1>2, UnsignedReads
<1>4. Head(t) = t[1] /\ ToSet(t) \subseteq Numerals
  BY <1>3, HeadIsFirst, NumeralsAre
<1>5. t \in Seq(Glyph)
  BY <1>3, DigitsAreGlyphs
<1>6. ~(v < 0)
  OBVIOUS
<1>7. Writes(t, v, base)
  <2>1. PICK num, first : num = Value(t, base) /\ first = Head(t)
    OBVIOUS
  <2> QED BY <1>3, <1>4, <1>6, <2>1 DEF Writes
<1> QED BY <1>1, <1>5, <1>7

\* and itoa_signed one with its sign.
LEMMA SignedWrites ==
  ASSUME NEW v \in Int
  PROVE  itoa_signed(v, 10) \in Seq(Glyph) /\ Writes(itoa_signed(v, 10), v, 10)
<1>1. CASE v < 0
  <2>1. PICK w : w = -v
    OBVIOUS
  <2>2. w \in Nat /\ w # 0 /\ 10 \in 2..16
    BY <1>1, <2>1
  <2>3. PICK d, t : d = itoa_internal(w, 10) /\ t = <<"-">> \o d
    OBVIOUS
  <2>4. itoa_signed(v, 10) = t
    BY <1>1, <2>1, <2>3 DEF itoa_signed
  <2>5. d \in Seq(DigitSet) /\ d # << >> /\ Value(d, 10) = w /\ d[1] # "0"
    BY <2>2, <2>3, ItoaReads
  <2>6. Head(d) = d[1] /\ ToSet(d) \subseteq Numerals
    BY <2>5, HeadIsFirst, NumeralsAre
  <2>7. d \in Seq(Glyph) /\ "-" \in Glyph
    <3>1. d \in Seq(Glyph)
      BY <2>5, DigitsAreGlyphs
    <3>2. "-" \in Glyph
      BY DEF Glyph
    <3> QED BY <3>1, <3>2
  <2>8. t \in Seq(Glyph) /\ t # << >> /\ Head(t) = "-" /\ Tail(t) = d
    BY <2>3, <2>7, HeadAndTail
  <2>9. Writes(t, v, 10)
    BY <1>1, <2>1, <2>5, <2>6, <2>8, Zenon DEF Writes
  <2> QED BY <2>4, <2>8, <2>9
<1>2. CASE ~(v < 0)
  <2>1. v \in Nat
    BY <1>2
  <2>2. itoa_signed(v, 10) = itoa_unsigned(v, 10)
    BY <1>2 DEF itoa_signed
  <2> QED BY <2>1, <2>2, UnsignedWrites
<1> QED BY <1>1, <1>2

\* What is printed as an int stays what it is, and a long is not negative.
LEMMA ArgumentTyped ==
  ASSUME NEW v \in Argument
  PROVE  v \in Int /\ AsInt(v) = v /\ AsUnsignedLong(v) \in Nat
<1>1. PICK H, K, L : H = 2^(INT_BITS - 1) /\ K = 2^INT_BITS /\ L = 2^LONG_BITS
  OBVIOUS
<1>2. /\ H \in Nat /\ H > 0 /\ K = 2 * H /\ L \in Nat /\ L > 0
      /\ v \in Int /\ -H <= v /\ v < H
  BY <1>1, ArgumentAssumption, PrintfAssumption
<1>3. (v + H) % K = v + H
  <2>1. PICK x : x = v + H
    OBVIOUS
  <2>2. x \in Nat /\ x < K /\ K \in Nat
    BY <1>2, <2>1
  <2>3. x % K = x
    BY ONLY <2>2
  <2> QED BY <2>1, <2>3
<1>4. AsInt(v) = v
  BY <1>1, <1>2, <1>3 DEF AsInt
<1>5. v % L \in Nat
  BY ONLY <1>2
<1> QED BY <1>1, <1>2, <1>4, <1>5 DEF AsUnsignedLong

\* A directive with its argument.
IsDirective(piece, d, v) == piece.format = <<"%", d>> /\ piece.args = <<v>>

LEMMA PieceKinds ==
  ASSUME NEW piece \in Piece
  PROVE  \/ piece.format = <<"text">> /\ piece.args = << >>
         \/ piece.format = <<"%", "%">> /\ piece.args = << >>
         \/ \E d \in {"d", "u", "x"}, v \in Argument : IsDirective(piece, d, v)
         \/ \E v \in Text : IsDirective(piece, "s", v)
BY DEF Piece, IsDirective

\* What is printed for a piece.
Told(piece) ==
  IF piece.format = <<"text">> THEN <<"text">>
  ELSE IF piece.format = <<"%", "%">> THEN <<"%">>
  ELSE Converted(piece.format[2], piece.args[1])

LEMMA DirectiveTold ==
  ASSUME NEW piece, NEW d \in {"d", "s", "u", "x"}, NEW v, IsDirective(piece, d, v)
  PROVE  /\ piece.format # <<"text">> /\ piece.format # <<"%", "%">>
         /\ piece.format[2] = d /\ piece.args[1] = v /\ Told(piece) = Converted(d, v)
<1>1. <<"%", d>> # <<"text">> /\ <<"%", d>> # <<"%", "%">>
  <2>1. Len(<<"%", d>>) = 2 /\ Len(<<"text">>) = 1
    OBVIOUS
  <2>2. <<"%", d>>[2] = d /\ <<"%", "%">>[2] = "%" /\ d # "%"
    OBVIOUS
  <2> QED BY <2>1, <2>2
<1>2. <<"%", d>>[2] = d /\ <<v>>[1] = v
  OBVIOUS
<1> QED BY <1>1, <1>2 DEF IsDirective, Told

LEMMA ConvertedIs ==
  ASSUME NEW v
  PROVE  /\ Converted("s", v) = v
         /\ Converted("d", v) = itoa_signed(AsInt(v), 10)
         /\ Converted("u", v) = itoa_unsigned(AsUnsignedLong(v), 10)
         /\ Converted("x", v) = itoa_unsigned(AsUnsignedLong(v), 16)
BY DEF Converted

\* printf.c: it is what the piece means.
LEMMA PieceTold ==
  ASSUME NEW piece \in Piece
  PROVE  Told(piece) \in Seq(Glyph) /\ Means(piece, Told(piece))
<1>1. CASE piece.format = <<"text">>
  <2>1. Told(piece) = <<"text">> /\ "text" \in Glyph
    BY <1>1 DEF Told, Glyph
  <2>2. Told(piece) \in Seq(Glyph)
    <3> HIDE DEF Glyph
    <3> QED BY <2>1
  <2>3. Means(piece, <<"text">>)
    BY <1>1, Zenon DEF Means
  <2> QED BY <2>1, <2>2, <2>3
<1>2. CASE piece.format = <<"%", "%">>
  <2>1. Told(piece) = <<"%">> /\ "%" \in Glyph
    BY <1>2 DEF Told, Glyph
  <2>2. Told(piece) \in Seq(Glyph)
    <3> HIDE DEF Glyph
    <3> QED BY <2>1
  <2>3. Means(piece, <<"%">>)
    <3>1. piece.format # <<"text">> /\ piece.format[2] = "%"
      <4>1. <<"%", "%">> # <<"text">> /\ <<"%", "%">>[2] = "%"
        OBVIOUS
      <4> QED BY <1>2, <4>1
    <3> QED BY <3>1 DEF Means
  <2> QED BY <2>1, <2>2, <2>3
<1>3. ASSUME NEW v \in Argument, IsDirective(piece, "d", v)
      PROVE  Told(piece) \in Seq(Glyph) /\ Means(piece, Told(piece))
  <2>1. /\ piece.format # <<"text">> /\ piece.format # <<"%", "%">>
        /\ piece.format[2] = "d" /\ piece.args[1] = v /\ Told(piece) = Converted("d", v)
    BY <1>3, DirectiveTold
  <2>2. Told(piece) = itoa_signed(v, 10) /\ v \in Int
    BY <2>1, ConvertedIs, ArgumentTyped
  <2>3. Told(piece) \in Seq(Glyph) /\ Writes(Told(piece), v, 10)
    BY <2>2, SignedWrites
  <2> QED BY <2>1, <2>3 DEF Means
<1>4. ASSUME NEW v \in Argument, IsDirective(piece, "u", v)
      PROVE  Told(piece) \in Seq(Glyph) /\ Means(piece, Told(piece))
  <2>1. /\ piece.format # <<"text">> /\ piece.format # <<"%", "%">>
        /\ piece.format[2] = "u" /\ piece.args[1] = v /\ Told(piece) = Converted("u", v)
    BY <1>4, DirectiveTold
  <2>2. PICK w : w = AsUnsignedLong(v)
    OBVIOUS
  <2>3. Told(piece) = itoa_unsigned(w, 10) /\ w \in Nat /\ 10 \in {10, 16}
    BY <2>1, <2>2, ConvertedIs, ArgumentTyped
  <2>4. Told(piece) \in Seq(Glyph) /\ Writes(Told(piece), w, 10)
    BY <2>3, UnsignedWrites
  <2>5. w = v % (2^LONG_BITS)
    BY <2>2 DEF AsUnsignedLong
  <2> QED BY <2>1, <2>4, <2>5 DEF Means
<1>5. ASSUME NEW v \in Argument, IsDirective(piece, "x", v)
      PROVE  Told(piece) \in Seq(Glyph) /\ Means(piece, Told(piece))
  <2>1. /\ piece.format # <<"text">> /\ piece.format # <<"%", "%">>
        /\ piece.format[2] = "x" /\ piece.args[1] = v /\ Told(piece) = Converted("x", v)
    BY <1>5, DirectiveTold
  <2>2. PICK w : w = AsUnsignedLong(v)
    OBVIOUS
  <2>3. Told(piece) = itoa_unsigned(w, 16) /\ w \in Nat /\ 16 \in {10, 16}
    BY <2>1, <2>2, ConvertedIs, ArgumentTyped
  <2>4. Told(piece) \in Seq(Glyph) /\ Writes(Told(piece), w, 16)
    BY <2>3, UnsignedWrites
  <2>5. w = v % (2^LONG_BITS)
    BY <2>2 DEF AsUnsignedLong
  <2> QED BY <2>1, <2>4, <2>5 DEF Means
<1>6. ASSUME NEW v \in Text, IsDirective(piece, "s", v)
      PROVE  Told(piece) \in Seq(Glyph) /\ Means(piece, Told(piece))
  <2>1. /\ piece.format # <<"text">> /\ piece.format # <<"%", "%">>
        /\ piece.format[2] = "s" /\ piece.args[1] = v /\ Told(piece) = Converted("s", v)
    BY <1>6, DirectiveTold
  <2>2. Told(piece) = v /\ v \in Seq(Glyph)
    BY <2>1, ConvertedIs, TextsAreGlyphs
  <2> QED BY <2>1, <2>2 DEF Means
<1> QED BY <1>1, <1>2, <1>3, <1>4, <1>5, <1>6, PieceKinds

\* A piece is in the format from place i on, its argument at place a.
Placed(format, args, piece, i, a) ==
  /\ i \in Nat /\ a \in Nat
  /\ \A k \in 1..Len(piece.format) :
       i + k - 1 \in 1..Len(format) /\ format[i + k - 1] = piece.format[k]
  /\ \A k \in 1..Len(piece.args) : args[a + k - 1] = piece.args[k]

LEMMA DirectivePlaced ==
  ASSUME NEW piece, NEW d, NEW v, IsDirective(piece, d, v), NEW format, NEW args, NEW i, NEW a,
         Placed(format, args, piece, i, a)
  PROVE  /\ Len(piece.format) = 2 /\ Len(piece.args) = 1
         /\ i \in 1..Len(format) /\ i + 1 \in 1..Len(format) /\ format[i] = "%" /\ format[i + 1] = d
         /\ args[a] = v
<1>1. /\ Len(piece.format) = 2 /\ piece.format[1] = "%" /\ piece.format[2] = d
      /\ Len(piece.args) = 1 /\ piece.args[1] = v
  BY DEF IsDirective
<1>2. 1 \in 1..2 /\ 2 \in 1..2 /\ 1 \in 1..1 /\ i + 1 - 1 = i /\ i + 2 - 1 = i + 1 /\ a + 1 - 1 = a
  BY DEF Placed
<1> QED BY <1>1, <1>2 DEF Placed

\* The places behind a piece, and what is printed from it on.
Behind(piece, i, a, j, b) == j = i + Len(piece.format) /\ b = a + Len(piece.args)
PieceIsTold(p, format, piece, i, a, j, b) ==
  p[i][a] = Told(piece) \o p[j][b] /\ Ready(p, format, Glyph, i, a)

\* What is printed from a piece on is what is told for it and what follows it.
LEMMA PiecePrints ==
  ASSUME NEW piece \in Piece, NEW format \in Seq(Glyph), NEW args, NEW p, NEW i, NEW a,
         NEW j, NEW b, Printed(p, format, args), Placed(format, args, piece, i, a),
         Behind(piece, i, a, j, b), Ready(p, format, Glyph, j, b)
  PROVE  PieceIsTold(p, format, piece, i, a, j, b)
<1> USE DEF Behind
<1> SUFFICES p[i][a] = Told(piece) \o p[j][b] /\ Ready(p, format, Glyph, i, a)
  BY DEF PieceIsTold
<1> HIDE DEF Glyph
<1>1. CASE piece.format = <<"text">> /\ piece.args = << >>
  <2>1. /\ Len(piece.format) = 1 /\ piece.format[1] = "text" /\ Len(piece.args) = 0
        /\ 1 \in 1..1 /\ i \in Nat /\ a \in Nat /\ i + 1 - 1 = i
    BY <1>1 DEF Placed
  <2>2. i \in 1..Len(format) /\ format[i] = "text" /\ format[i] # "%"
    BY <2>1 DEF Placed
  <2>3. j = i + 1 /\ b = a
    BY <2>1
  <2>4. p[i][a] = <<format[i]>> \o p[i + 1][a] /\ Ready(p, format, Glyph, i, a)
    BY <2>1, <2>2, <2>3, CharPrints
  <2>5. Told(piece) = <<format[i]>>
    BY <1>1, <2>2 DEF Told
  <2> QED BY <2>3, <2>4, <2>5
<1>2. CASE piece.format = <<"%", "%">> /\ piece.args = << >>
  <2>1. /\ Len(piece.format) = 2 /\ piece.format[1] = "%" /\ piece.format[2] = "%"
        /\ Len(piece.args) = 0 /\ 1 \in 1..2 /\ 2 \in 1..2
        /\ i \in Nat /\ a \in Nat /\ i + 1 - 1 = i /\ i + 2 - 1 = i + 1
    BY <1>2 DEF Placed
  <2>2. i \in 1..Len(format) /\ i + 1 \in 1..Len(format) /\ format[i] = "%" /\ format[i + 1] = "%"
    BY <2>1 DEF Placed
  <2>3. j = i + 2 /\ b = a /\ i + 1 <= Len(format)
    BY <2>1, <2>2
  <2>4. p[i][a] = <<"%">> \o p[i + 2][a] /\ Ready(p, format, Glyph, i, a)
    BY <2>1, <2>2, <2>3, PercentPrints
  <2>5. Told(piece) = <<"%">>
    <3>1. <<"%", "%">> # <<"text">>
      OBVIOUS
    <3> QED BY <1>2, <3>1 DEF Told
  <2> QED BY <2>3, <2>4, <2>5
<1>3. ASSUME NEW d \in {"d", "s", "u", "x"}, NEW v, IsDirective(piece, d, v)
      PROVE  p[i][a] = Told(piece) \o p[j][b] /\ Ready(p, format, Glyph, i, a)
  <2>1. /\ Len(piece.format) = 2 /\ Len(piece.args) = 1
        /\ i \in 1..Len(format) /\ i + 1 \in 1..Len(format) /\ format[i] = "%" /\ format[i + 1] = d
        /\ args[a] = v
    BY <1>3, DirectivePlaced
  <2>2. a \in Nat /\ j = i + 2 /\ b = a + 1 /\ i + 1 <= Len(format) /\ format[i + 1] \in Directive
    BY <2>1 DEF Placed, Directive
  <2>3. Told(piece) = Converted(format[i + 1], args[a])
    BY <1>3, <2>1, DirectiveTold
  <2>4. Converted(format[i + 1], args[a]) \in Seq(Glyph)
    BY <2>3, PieceTold
  <2>5. /\ p[i][a] = Converted(format[i + 1], args[a]) \o p[i + 2][a + 1]
        /\ Ready(p, format, Glyph, i, a)
    BY <2>1, <2>2, <2>4, DirectivePrints
  <2> QED BY <2>2, <2>3, <2>5
<1> QED BY <1>1, <1>2, <1>3, PieceKinds

\* One sequence after the other.
Three(w, s, t, u) ==
  /\ Len(w) = Len(s) + Len(t) + Len(u)
  /\ \A k \in 1..Len(s) : w[k] = s[k]
  /\ \A k \in 1..Len(t) : w[Len(s) + k] = t[k]
  /\ \A k \in 1..Len(u) : w[Len(s) + Len(t) + k] = u[k]

LEMMA ThreeJoined ==
  ASSUME NEW T, NEW s \in Seq(T), NEW t \in Seq(T), NEW u \in Seq(T), NEW w, w = (s \o t) \o u
  PROVE  w \in Seq(T) /\ Three(w, s, t, u)
<1>1. PICK v : v = s \o t
  OBVIOUS
<1>2. /\ v \in Seq(T) /\ Len(v) = Len(s) + Len(t)
      /\ (\A i \in 1..Len(s) : v[i] = s[i]) /\ \A i \in 1..Len(t) : v[Len(s) + i] = t[i]
  BY <1>1, Joined
<1>3. w = v \o u
  BY <1>1
<1>4. /\ w \in Seq(T) /\ Len(w) = Len(v) + Len(u)
      /\ (\A i \in 1..Len(v) : w[i] = v[i]) /\ \A i \in 1..Len(u) : w[Len(v) + i] = u[i]
  <2>1. v \in Seq(T) /\ u \in Seq(T) /\ w = v \o u
    BY <1>2, <1>3
  <2> QED BY ONLY <2>1, Joined
<1>5. PICK m \in Nat, n \in Nat : m = Len(s) /\ n = Len(t)
  OBVIOUS
<1>6. \A k \in 1..m : w[k] = s[k]
  BY <1>2, <1>4, <1>5
<1>7. \A k \in 1..n : w[m + k] = t[k]
  <2>1. \A k \in 1..n : m + k \in 1..Len(v)
    BY <1>2, <1>5
  <2> QED BY <1>2, <1>4, <1>5, <2>1
<1> QED BY <1>2, <1>4, <1>5, <1>6, <1>7 DEF Three

LEMMA SliceIs ==
  ASSUME NEW T, NEW w \in Seq(T), NEW s \in Seq(T), NEW n \in Nat, NEW m, m = n + Len(s),
         m <= Len(w), \A k \in 1..Len(s) : w[n + k] = s[k]
  PROVE  SubSeq(w, n + 1, m) = s
<1>1. PICK a, u : a = n + 1 /\ u = SubSeq(w, a, m)
  OBVIOUS
<1>2. a \in Nat /\ a >= 1 /\ m - a + 1 = Len(s) /\ m \in Nat /\ Len(s) \in Nat
  BY <1>1
<1>3. u \in Seq(T) /\ Len(u) = Len(s) /\ \A k \in 1..Len(s) : u[k] = w[a + k - 1]
  <2>1. \A k \in 1..Len(s) : a + k - 1 \in 1..Len(w)
    BY <1>1
  <2> QED BY <1>1, <1>2, <2>1
<1>4. \A k \in 1..Len(s) : u[k] = s[k]
  <2>1. \A k \in 1..Len(s) : a + k - 1 = n + k
    BY <1>1
  <2> QED BY <1>3, <2>1
<1>5. u = s
  BY <1>3, <1>4, SeqEqual
<1> QED BY <1>1, <1>5

Sliced(w, s, t, u) ==
  \E i \in 0..Len(w) : \E j \in i..Len(w) :
    SubSeq(w, 1, i) = s /\ SubSeq(w, i + 1, j) = t /\ SubSeq(w, j + 1, Len(w)) = u

LEMMA ThreeSlices ==
  ASSUME NEW T, NEW s \in Seq(T), NEW t \in Seq(T), NEW u \in Seq(T), NEW w \in Seq(T),
         Three(w, s, t, u)
  PROVE  Sliced(w, s, t, u)
<1>1. PICK i, j : i = Len(s) /\ j = Len(s) + Len(t)
  OBVIOUS
<1>2. /\ i \in 0..Len(w) /\ j \in i..Len(w) /\ Len(w) = j + Len(u) /\ i = 0 + Len(s)
      /\ j = i + Len(t) /\ 0 \in Nat /\ i \in Nat /\ j \in Nat /\ Len(w) \in Nat
      /\ i <= Len(w) /\ j <= Len(w) /\ 0 + 1 = 1
  BY <1>1 DEF Three
<1>3. /\ \A k \in 1..Len(s) : w[0 + k] = s[k]
      /\ \A k \in 1..Len(t) : w[i + k] = t[k]
      /\ \A k \in 1..Len(u) : w[j + k] = u[k]
  BY <1>1 DEF Three
<1>4. SubSeq(w, 1, i) = s
  BY <1>2, <1>3, SliceIs
<1>5. SubSeq(w, i + 1, j) = t
  BY <1>2, <1>3, SliceIs
<1>6. SubSeq(w, j + 1, Len(w)) = u
  <2>1. PICK m : m = Len(w)
    OBVIOUS
  <2>2. m = j + Len(u) /\ m <= Len(w)
    BY <1>2, <2>1
  <2>3. SubSeq(w, j + 1, m) = u
    BY <1>2, <1>3, <2>2, SliceIs
  <2> QED BY <2>1, <2>3
<1> QED BY <1>2, <1>4, <1>5, <1>6 DEF Sliced

\* The arguments of pieces are numbers and texts.
LEMMA PieceTyped ==
  ASSUME NEW piece \in Piece
  PROVE  piece.format \in Seq(Glyph) /\ piece.args \in Seq(Argument \cup Text)
<1>1. {"text", "%", "s", "d", "u", "x"} \subseteq Glyph
  BY DEF Glyph
<1> HIDE DEF Glyph
<1>2. ASSUME NEW d \in {"d", "s", "u", "x"}, NEW v \in Argument \cup Text, IsDirective(piece, d, v)
      PROVE  piece.format \in Seq(Glyph) /\ piece.args \in Seq(Argument \cup Text)
  <2>1. d \in Glyph /\ "%" \in Glyph
    BY <1>1
  <2>2. <<"%", d>> \in Seq(Glyph) /\ <<v>> \in Seq(Argument \cup Text)
    BY <2>1
  <2> QED BY <1>2, <2>2 DEF IsDirective
<1>3. ASSUME piece.args = << >> PROVE piece.args \in Seq(Argument \cup Text)
  BY <1>3
<1>4. <<"text">> \in Seq(Glyph) /\ <<"%", "%">> \in Seq(Glyph)
  <2>1. "text" \in Glyph /\ "%" \in Glyph
    BY <1>1
  <2> QED BY <2>1
<1> QED BY <1>2, <1>3, <1>4, PieceKinds

\* printf.c: three pieces are told one after the other.
LEMMA ThreePieces ==
  ASSUME NEW p \in Piece, NEW q \in Piece, NEW r \in Piece
  PROVE  PrintedInPieces(p, q, r)
<1>1. PICK format, args : format = (p.format \o q.format) \o r.format
                          /\ args = (p.args \o q.args) \o r.args
  OBVIOUS
<1>2. /\ p.format \in Seq(Glyph) /\ q.format \in Seq(Glyph) /\ r.format \in Seq(Glyph)
      /\ p.args \in Seq(Argument \cup Text) /\ q.args \in Seq(Argument \cup Text)
      /\ r.args \in Seq(Argument \cup Text)
  BY PieceTyped
<1>3. PICK text : text = vprintk_func(format, args)
  OBVIOUS
<1> HIDE DEF Glyph
<1>4. format \in Seq(Glyph) /\ Three(format, p.format, q.format, r.format)
  BY <1>1, <1>2, ThreeJoined
<1>5. Three(args, p.args, q.args, r.args)
  <2>1. PICK S : S = Argument \cup Text
    OBVIOUS
  <2>2. /\ p.args \in Seq(S) /\ q.args \in Seq(S) /\ r.args \in Seq(S)
        /\ args = (p.args \o q.args) \o r.args
    BY <1>1, <1>2, <2>1
  <2> QED BY ONLY <2>2, ThreeJoined
<1>6. PICK l, m, n, a, b, c :
        /\ l = Len(p.format) /\ m = Len(q.format) /\ n = Len(r.format)
        /\ a = Len(p.args) /\ b = Len(q.args) /\ c = Len(r.args)
  OBVIOUS
<1>7. l \in Nat /\ m \in Nat /\ n \in Nat /\ a \in Nat /\ b \in Nat /\ c \in Nat
  <2>1. PICK S, s, t, u : S = Argument \cup Text /\ s = p.args /\ t = q.args /\ u = r.args
    OBVIOUS
  <2>2. s \in Seq(S) /\ t \in Seq(S) /\ u \in Seq(S)
    BY <1>2, <2>1
  <2>3. Len(s) \in Nat /\ Len(t) \in Nat /\ Len(u) \in Nat
    BY ONLY <2>2
  <2>4. l \in Nat /\ m \in Nat /\ n \in Nat
    BY <1>2, <1>6
  <2> QED BY <1>6, <2>1, <2>3, <2>4
<1>8. Len(format) = l + m + n
  BY <1>4, <1>6 DEF Three
<1>9. Placed(format, args, p, 1, 1)
  <2>1. \A k \in 1..l : 1 + k - 1 = k /\ k \in 1..Len(format)
    BY <1>7, <1>8
  <2>2. \A k \in 1..a : 1 + k - 1 = k
    BY <1>7
  <2> QED BY <1>4, <1>5, <1>6, <2>1, <2>2 DEF Placed, Three
<1>10. Placed(format, args, q, 1 + l, 1 + a)
  <2>1. \A k \in 1..m : (1 + l) + k - 1 = l + k /\ l + k \in 1..Len(format)
    BY <1>7, <1>8
  <2>2. \A k \in 1..b : (1 + a) + k - 1 = a + k
    BY <1>7
  <2>3. /\ \A k \in 1..m : format[l + k] = q.format[k]
        /\ \A k \in 1..b : args[a + k] = q.args[k]
    BY <1>4, <1>5, <1>6 DEF Three
  <2>4. \A k \in 1..m : (1 + l) + k - 1 \in 1..Len(format) /\ format[(1 + l) + k - 1] = q.format[k]
    BY <2>1, <2>3
  <2>5. \A k \in 1..b : args[(1 + a) + k - 1] = q.args[k]
    BY <2>2, <2>3
  <2>6. 1 + l \in Nat /\ 1 + a \in Nat
    BY <1>7
  <2> QED BY <1>6, <2>4, <2>5, <2>6, Zenon DEF Placed
<1>11. Placed(format, args, r, (1 + l) + m, (1 + a) + b)
  <2>1. \A k \in 1..n : ((1 + l) + m) + k - 1 = l + m + k /\ l + m + k \in 1..Len(format)
    BY <1>7, <1>8
  <2>2. \A k \in 1..c : ((1 + a) + b) + k - 1 = a + b + k
    BY <1>7
  <2>3. /\ \A k \in 1..n : format[l + m + k] = r.format[k]
        /\ \A k \in 1..c : args[a + b + k] = r.args[k]
    BY <1>4, <1>5, <1>6 DEF Three
  <2>4. \A k \in 1..n : ((1 + l) + m) + k - 1 \in 1..Len(format) /\ format[((1 + l) + m) + k - 1] = r.format[k]
    BY <2>1, <2>3
  <2>5. \A k \in 1..c : args[((1 + a) + b) + k - 1] = r.args[k]
    BY <2>2, <2>3
  <2>6. (1 + l) + m \in Nat /\ (1 + a) + b \in Nat
    BY <1>7
  <2> QED BY <1>6, <2>4, <2>5, <2>6, Zenon DEF Placed
<1>12. PICK z : text = z[1][1] /\ Printed(z, format, args)
  <2>1. Outcome(text, format, args)
    BY <1>3, <1>4, PrintedIs
  <2> QED BY <2>1 DEF Outcome
<1>13. PICK e, d : e = Len(format) + 1 /\ d = ((1 + a) + b) + c
  OBVIOUS
<1>14. e = ((1 + l) + m) + n /\ d \in Nat
  BY <1>7, <1>8, <1>13
<1>15. z[e][d] = << >> /\ Ready(z, format, Glyph, e, d)
  BY <1>4, <1>12, <1>13, <1>14, AtEnd
<1>16. PICK i, j, f, g : i = 1 + l /\ j = (1 + l) + m /\ f = 1 + a /\ g = (1 + a) + b
  OBVIOUS
<1>17. PieceIsTold(z, format, r, j, g, e, d)
  <2>1. Behind(r, j, g, e, d)
    BY <1>6, <1>13, <1>14, <1>16 DEF Behind
  <2>2. /\ r \in Piece /\ format \in Seq(Glyph) /\ Printed(z, format, args)
        /\ Placed(format, args, r, j, g)
    BY <1>4, <1>12, <1>11, <1>16
  <2>3. Ready(z, format, Glyph, e, d)
    BY <1>15
  <2> QED BY ONLY <2>1, <2>2, <2>3, PiecePrints
<1>18. PieceIsTold(z, format, q, i, f, j, g)
  <2>1. Behind(q, i, f, j, g)
    BY <1>6, <1>16 DEF Behind
  <2>2. /\ q \in Piece /\ format \in Seq(Glyph) /\ Printed(z, format, args)
        /\ Placed(format, args, q, i, f)
    BY <1>4, <1>12, <1>10, <1>16
  <2>3. Ready(z, format, Glyph, j, g)
    BY <1>17 DEF PieceIsTold
  <2> QED BY ONLY <2>1, <2>2, <2>3, PiecePrints
<1>19. PieceIsTold(z, format, p, 1, 1, i, f)
  <2>1. Behind(p, 1, 1, i, f)
    BY <1>6, <1>16 DEF Behind
  <2>2. /\ p \in Piece /\ format \in Seq(Glyph) /\ Printed(z, format, args)
        /\ Placed(format, args, p, 1, 1)
    BY <1>4, <1>12, <1>9, <1>16
  <2>3. Ready(z, format, Glyph, i, f)
    BY <1>18 DEF PieceIsTold
  <2> QED BY ONLY <2>1, <2>2, <2>3, PiecePrints
<1>20. PICK s, t, u : s = Told(p) /\ t = Told(q) /\ u = Told(r)
  OBVIOUS
<1>21. /\ s \in Seq(Glyph) /\ t \in Seq(Glyph) /\ u \in Seq(Glyph)
       /\ Means(p, s) /\ Means(q, t) /\ Means(r, u)
  BY <1>20, PieceTold
<1>22. text = (s \o t) \o u
  <2>1. z[j][g] = u
    BY <1>15, <1>17, <1>20, <1>21 DEF PieceIsTold
  <2>2. text = s \o (t \o u)
    BY <1>12, <1>18, <1>19, <1>20, <2>1 DEF PieceIsTold
  <2>3. (s \o t) \o u = s \o (t \o u)
    BY <1>21, Associative
  <2> QED BY <2>2, <2>3
<1>23. text \in Seq(Glyph) /\ Three(text, s, t, u)
  BY <1>21, <1>22, ThreeJoined
<1>24. Sliced(text, s, t, u)
  BY <1>21, <1>23, ThreeSlices
<1>25. text = printf(p.format \o q.format \o r.format, p.args \o q.args \o r.args)
  BY <1>1, <1>3 DEF printf
<1> QED BY <1>21, <1>24, <1>25, Zenon DEF PrintedInPieces, Sliced

\* printf.c: a format of pieces prints what each piece means, one after the other,
\* whatever numbers fit an int and whatever texts are given, for every width of int
\* and long.
THEOREM PiecesTold == Spec => []PiecesPrinted
<1>1. PiecesPrinted
  BY ThreePieces DEF PiecesPrinted
<1> QED BY <1>1, PTL
=============================================================================
