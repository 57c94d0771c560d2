-------------------------------- MODULE Devices --------------------------------
(***************************************************************************)
(* The devices that the kernel programs through ports (cpu/io.c): the two  *)
(* interrupt controllers (driver/pic.c), the timer (driver/timer.c), the   *)
(* register that masks the non-maskable interrupt (cpu/nmi.c), and the     *)
(* serial port to which boot/tty.c copies what is printed.                 *)
(*                                                                         *)
(* A state io of the devices is a record with one field per device, and    *)
(* one for tty.c's flag serial_ready; the operators return the state that  *)
(* the code leaves behind.                                                 *)
(***************************************************************************)
EXTENDS Integers, Sequences, SequencesExt, FiniteSetsExt

-----------------------------------------------------------------------------
(* pic.c: ports and commands.                                               *)

PIC1 == 32
PIC2 == 160
PIC1_COMMAND == PIC1
PIC1_DATA    == PIC1 + 1
PIC2_COMMAND == PIC2
PIC2_DATA    == PIC2 + 1

PIC_EOI   == 32
ICW1_ICW4 == 1
ICW1_INIT == 16
ICW4_8086 == 1

COM1 == 1016   \* 0x3F8

-----------------------------------------------------------------------------
(* The devices (external).                                                  *)

\* A controller has a register for commands and one for data, which takes the
\* words of an initialisation one after the other: the offset, the cascade, the
\* mode; then what is written to it is the mask.
PicWritten(chip, register, val) ==
  CASE register = 0 /\ val = ICW1_INIT + ICW1_ICW4 ->
         [chip EXCEPT !.expects = "offset", !.irr = {}, !.isr = {}]
    [] register = 0 /\ val = PIC_EOI ->
         [chip EXCEPT !.isr = @ \ (IF @ = {} THEN {} ELSE {Min(@)})]
    [] register = 1 /\ chip.expects = "offset"  -> [chip EXCEPT !.offset = val, !.expects = "cascade"]
    [] register = 1 /\ chip.expects = "cascade" -> [chip EXCEPT !.expects = "mode"]
    [] register = 1 /\ chip.expects = "mode"    -> [chip EXCEPT !.expects = "mask"]
    [] register = 1 /\ chip.expects = "mask"    -> chip

\* Channel 0 of the timer counts down from a reload value, which comes in two
\* bytes if the mode says so.
PitMode(pit, val) == [pit EXCEPT !.access = (val \div 16) % 4, !.expects = "low"]
PitData(pit, val) ==
  IF pit.access = 3 /\ pit.expects = "high"
  THEN [pit EXCEPT !.reload = val * 256 + (pit.reload % 256), !.expects = "low"]
  ELSE [pit EXCEPT !.reload = val, !.expects = IF pit.access = 3 THEN "high" ELSE "low"]

\* The serial port: while the upper bit of the line control is set, its first
\* two registers are the divisor of the rate.  The other end expects eight data
\* bits, no parity and one stop bit, at the highest rate.
UartWritten(uart, register, val) ==
  CASE register = 3 -> [uart EXCEPT !.line = val % 128, !.dlab = val >= 128]
    [] register = 0 /\ uart.dlab -> [uart EXCEPT !.divisor = val + 256 * (@ \div 256)]
    [] register = 1 /\ uart.dlab -> [uart EXCEPT !.divisor = (@ % 256) + 256 * val]
    [] register = 0 /\ ~uart.dlab ->
         [uart EXCEPT !.received = Append(@, IF uart.line = 3 /\ uart.divisor = 1
                                             THEN val ELSE "garbled")]
    [] OTHER -> uart

\* What the BIOS leaves: its own offsets, the slowest timer, a serial port of
\* 9600 baud.
PowerOn ==
  LET chip(offset) == [offset |-> offset, expects |-> "mask", irr |-> {}, isr |-> {}]
  IN  [pic1 |-> chip(8), pic2 |-> chip(112),
       pit  |-> [access |-> 3, expects |-> "low", reload |-> 0],
       cmos |-> 0,
       uart |-> [dlab |-> FALSE, line |-> 3, divisor |-> 12, received |-> << >>],
       serial_ready |-> FALSE]

-----------------------------------------------------------------------------
(* io.c.                                                                    *)

outb(io, port, val) ==
  CASE port \in {PIC1_COMMAND, PIC1_DATA} ->
         [io EXCEPT !.pic1 = PicWritten(@, port - PIC1, val)]
    [] port \in {PIC2_COMMAND, PIC2_DATA} ->
         [io EXCEPT !.pic2 = PicWritten(@, port - PIC2, val)]
    [] port = 67  -> [io EXCEPT !.pit = PitMode(@, val)]
    [] port = 64  -> [io EXCEPT !.pit = PitData(@, val)]
    [] port = 112 -> [io EXCEPT !.cmos = val]
    [] port \in COM1..(COM1 + 7) -> [io EXCEPT !.uart = UartWritten(@, port - COM1, val)]
    [] OTHER -> io

\* The two ports that are read: the index of the CMOS, and the state of the
\* serial line, which is always ready for a character.
inb(io, port) == IF port = 112 THEN io.cmos ELSE 32

io_wait(io) == outb(io, 128, 0)

-----------------------------------------------------------------------------
(* The drivers.                                                             *)

\* A word to each controller, with time for it to take it.
Both(io, port1, val1, port2, val2) ==
  io_wait(outb(io_wait(outb(io, port1, val1)), port2, val2))

PIC_remap(io, offset1, offset2) ==
  LET started == Both(io, PIC1_COMMAND, ICW1_INIT + ICW1_ICW4, PIC2_COMMAND, ICW1_INIT + ICW1_ICW4)
      moved   == Both(started, PIC1_DATA, offset1, PIC2_DATA, offset2)
      chained == Both(moved, PIC1_DATA, 4, PIC2_DATA, 2)
      ready   == Both(chained, PIC1_DATA, ICW4_8086, PIC2_DATA, ICW4_8086)
  IN  outb(outb(ready, PIC1_DATA, 0), PIC2_DATA, 0)

PIC_init(io) == PIC_remap(io, 32, 40)

PIC_sendEOI(io, irq) ==
  outb(IF irq >= 8 THEN outb(io, PIC2_COMMAND, PIC_EOI) ELSE io, PIC1_COMMAND, PIC_EOI)

\* Binary, mode 3, lower and upper byte, channel 0.
timer_init(io) ==
  LET divisor == 1193180 \div 1000
  IN  outb(outb(outb(io, 67, 54), 64, divisor % 256), 64, (divisor \div 256) % 256)

\* The upper bit of the index masks the interrupt.
NMI_enable(io)  == outb(io, 112, inb(io, 112) % 128)
NMI_disable(io) == outb(io, 112, (inb(io, 112) % 128) + 128)

\* A series of writes.
Out(io, writes) == FoldLeft(LAMBDA s, w : outb(s, w[1], w[2]), io, writes)

\* The first character sets the port up: no interrupts, divisor 1, eight bits.
serial_out(io, c) ==
  LET init == << <<COM1 + 1, 0>>, <<COM1 + 3, 128>>, <<COM1, 1>>, <<COM1 + 1, 0>>,
                 <<COM1 + 3, 3>>, <<COM1 + 2, 199>>, <<COM1 + 4, 11>> >>
      ready == IF io.serial_ready THEN io
               ELSE [Out(io, init) EXCEPT !.serial_ready = TRUE]
  IN  outb(ready, COM1, c)

\* terminal_write, as far as the serial port goes: it reaches no other device.
serial_write(uart, ready, text) ==
  FoldLeft(serial_out, [uart |-> uart, serial_ready |-> ready], text)

terminal_write(io, text) ==
  LET tty == serial_write(io.uart, io.serial_ready, text)
  IN  [io EXCEPT !.uart = tty.uart, !.serial_ready = tty.serial_ready]

-----------------------------------------------------------------------------
(* What the drivers are for.                                                *)

\* timer.c: get_timer_count counts milliseconds, to the nearest.
TicksAreMilliseconds(io) == io.pit.reload # 0 /\ 1193180 \div io.pit.reload = 1000

NmiMasked(io) == io.cmos >= 128
=============================================================================
