-------------------------------- MODULE Floppy --------------------------------
(***************************************************************************)
(* The floppy driver of kernel/arch/x86_64/driver/floppy.c: one sector is  *)
(* read by seeking, sending the read command and waiting for IRQ6, with a  *)
(* bounded wait, retries of the seek, and a motor that is switched off at  *)
(* the end.  The drive and its controller are outside the source and are   *)
(* modelled from how the driver uses them: they take one command at a      *)
(* time, and a read leaves seven result bytes that must be fetched before  *)
(* the next command.  A sector is identified with its LBA.                 *)
(***************************************************************************)
EXTENDS Integers

CONSTANTS
  Lba,        \* the sectors that are asked for
  MaxFaults   \* bound: waits that time out and commands that go wrong

\* Sectors whose cylinder fits in a byte; the disk has fewer.
ASSUME FloppyAssumption == Lba \subseteq 0..(256 * 36 - 1) /\ MaxFaults \in Nat

Cylinders == 80      \* of 2 heads and 18 sectors each, on the disk

NoSector == -1       \* what memory at DMA_BUF holds before the first transfer

VARIABLES
  fdpc,        \* the statement of floppy_read_chs
  want,        \* its argument, as an LBA
  tries,
  ok,          \* the value returned last
  buffer512,   \* the sector whose bytes were copied to the caller
  motor, irq6_fired,
  command,     \* controller: the command under way, or "result"
  chs,         \* the sector that the command names, as an LBA
  cylinder,    \* drive: where the head is
  DMA_BUF,     \* the sector whose bytes lie at 0x1000
  unseen,      \* the result bytes that nobody looks at tell of an error
  faults

driver    == <<fdpc, want, tries, ok, buffer512, motor>>
hardware  == <<command, chs, cylinder, DMA_BUF, unseen>>
floppy    == <<driver, irq6_fired, hardware, faults>>

FdLabel == {"idle", "seek", "seek_wait", "sense", "read", "read_wait", "result"}

-----------------------------------------------------------------------------
(* lba_to_chs, with the cylinder in a byte; the inverse is what the drive    *)
(* does with the three numbers.                                              *)

\* Mutant: heads and sectors are not counted in the cylinder.
CylinderShort(lba) == (lba \div 18) % 256

Cylinder(lba) == (lba \div (2 * 18)) % 256
HeadOf(lba)   == (lba % (2 * 18)) \div 18
SectorOf(lba) == ((lba % (2 * 18)) % 18) + 1

LbaAt(c, h, s) == (c * 2 + h) * 18 + s - 1

-----------------------------------------------------------------------------
(* The registers of the motor, the controller and the DMA channel.          *)

motor_on == motor' = TRUE
motor_off == motor' = FALSE

\* fdc_write spins until the controller takes a command, and fdc_read until it
\* has a result byte; a command is written, and a result read, as a whole.
fdc_write(cmd) == command = "none" /\ command' = cmd /\ chs' = want
fdc_read == command = "result" /\ command' = "none" /\ UNCHANGED chs
fdc_sense_interrupt == command = "none"

floppy_irq_handler == irq6_fired' = TRUE

DmaBufAt == 4096     \* 0x1000

\* The memory that channel 2 fills, put together from the bytes it is given:
\* a page and an address of two bytes, and the length less one in two bytes;
\* bits 2 and 3 of the mode tell the direction.
DmaArea(addr, length, mode) ==
  LET count == length - 1
  IN  [from  |-> 65536 * ((addr \div 65536) % 256)
                   + 256 * ((addr \div 256) % 256) + (addr % 256),
       bytes |-> 256 * ((count \div 256) % 256) + (count % 256) + 1,
       dir   |-> (mode \div 4) % 4]

ToMemory   == 1
FromMemory == 2

dma_setup_read(addr, length) == DmaArea(addr, length, 86)    \* 0x56

\* A transfer leaves its sector, all of it, in DMA_BUF.
TransferFits ==
  dma_setup_read(DmaBufAt, 512) = [from |-> DmaBufAt, bytes |-> 512, dir |-> ToMemory]

\* The second byte of the read command; the drive takes the head from its bit 2.
SelectRead(lba) == HeadOf(lba) * 4
HeadSelected(byte) == (byte \div 4) % 2

\* The drive finds a sector on the track under the selected head when the motor
\* turns and the numbers of the sector are those of the command.
Finds(lba, byte) == motor /\ cylinder = Cylinder(lba) /\ HeadSelected(byte) = HeadOf(lba)

-----------------------------------------------------------------------------
\* The reset happens before interrupts are on: its IRQ6 may be served, and set
\* the flag, after the four waits are over.
fdc_reset == motor = FALSE /\ irq6_fired \in BOOLEAN /\ command = "none" /\ cylinder = 0

\* floppy_init resets the controller and does not calibrate the drive.
FloppyInit ==
  /\ fdc_reset
  /\ fdpc = "idle" /\ want = 0 /\ tries = 0 /\ ok = FALSE /\ buffer512 = NoSector
  /\ chs = NoSector /\ DMA_BUF = NoSector /\ unseen = FALSE
  /\ faults = 0

\* floppy_read_lba
FloppyRead(lba) ==
  /\ fdpc = "idle"
  /\ fdpc' = "seek" /\ want' = lba /\ tries' = 3 /\ motor_on
  /\ UNCHANGED <<ok, buffer512, irq6_fired, hardware, faults>>

SendSeek ==
  /\ fdpc = "seek" /\ fdc_write("seek") /\ fdpc' = "seek_wait"
  /\ UNCHANGED <<want, tries, ok, buffer512, motor, irq6_fired, cylinder,
                 DMA_BUF, unseen, faults>>

\* Mutant: the tries are not counted.
SeekAgainAlways == UNCHANGED tries /\ fdpc' = "seek"

\* The end of the do loop: after four seeks the read is sent whatever they
\* gave, as tries is never below zero when it is tested.
SeekAgain ==
  /\ tries' = tries - 1
  /\ fdpc' = IF tries = 0 THEN "read" ELSE "seek"

\* floppy_wait_irq_timeout, which takes the flag down.
WaitSeek ==
  /\ fdpc = "seek_wait" /\ irq6_fired
  /\ irq6_fired' = FALSE /\ fdpc' = "sense"
  /\ UNCHANGED <<want, tries, ok, buffer512, motor, hardware, faults>>

SeekTimeout ==
  /\ fdpc = "seek_wait" /\ ~irq6_fired /\ faults < MaxFaults
  /\ faults' = faults + 1 /\ motor_off /\ SeekAgain
  /\ UNCHANGED <<want, ok, buffer512, irq6_fired, hardware>>

\* fdc_sense_interrupt waits for the seek to end.
Sense ==
  /\ fdpc = "sense" /\ fdc_sense_interrupt
  /\ \/ cylinder = Cylinder(want) /\ fdpc' = "read" /\ UNCHANGED tries
     \/ cylinder # Cylinder(want) /\ SeekAgain
  /\ UNCHANGED <<want, ok, buffer512, motor, irq6_fired, hardware, faults>>

SendRead ==
  /\ fdpc = "read" /\ fdc_write("read") /\ fdpc' = "read_wait"
  /\ UNCHANGED <<want, tries, ok, buffer512, motor, irq6_fired, cylinder,
                 DMA_BUF, unseen, faults>>

WaitRead ==
  /\ fdpc = "read_wait" /\ irq6_fired
  /\ irq6_fired' = FALSE /\ fdpc' = "result"
  /\ UNCHANGED <<want, tries, ok, buffer512, motor, hardware, faults>>

ReadTimeout ==
  /\ fdpc = "read_wait" /\ ~irq6_fired /\ faults < MaxFaults
  /\ faults' = faults + 1 /\ motor_off /\ ok' = FALSE /\ fdpc' = "idle"
  /\ UNCHANGED <<want, tries, buffer512, irq6_fired, hardware>>

\* The seven result bytes are read and not looked at.
ReadResult ==
  /\ fdpc = "result" /\ fdc_read
  /\ buffer512' = DMA_BUF /\ motor_off /\ ok' = TRUE /\ fdpc' = "idle"
  /\ UNCHANGED <<want, tries, irq6_fired, cylinder, DMA_BUF, unseen, faults>>

DriverStep ==
  \/ SendSeek \/ WaitSeek \/ SeekTimeout \/ Sense
  \/ SendRead \/ WaitRead \/ ReadTimeout \/ ReadResult

-----------------------------------------------------------------------------
(* The drive and the controller; the end of a command raises IRQ6.           *)

SeekEnds ==
  /\ command = "seek"
  /\ command' = "none" /\ floppy_irq_handler
  /\ \/ Cylinder(chs) < Cylinders /\ cylinder' = Cylinder(chs) /\ UNCHANGED faults
     \/ Cylinder(chs) >= Cylinders /\ UNCHANGED <<cylinder, faults>>
     \/ /\ faults < MaxFaults /\ faults' = faults + 1
        /\ UNCHANGED cylinder
  /\ UNCHANGED <<driver, chs, DMA_BUF, unseen>>

\* Channel 2 puts the sector that is found into DMA_BUF.
ReadEnds ==
  /\ command = "read"
  /\ command' = "result" /\ floppy_irq_handler
  /\ \/ /\ Finds(chs, SelectRead(chs)) /\ TransferFits
        /\ DMA_BUF' = LbaAt(cylinder, HeadOf(chs), SectorOf(chs))
        /\ unseen' = FALSE /\ UNCHANGED faults
     \/ /\ ~(Finds(chs, SelectRead(chs)) /\ TransferFits)
        /\ unseen' = TRUE /\ UNCHANGED <<DMA_BUF, faults>>
     \/ /\ faults < MaxFaults /\ faults' = faults + 1
        /\ unseen' = TRUE /\ UNCHANGED DMA_BUF
  /\ UNCHANGED <<driver, chs, cylinder>>

ControllerStep == SeekEnds \/ ReadEnds

FloppyStep == DriverStep \/ ControllerStep
FloppyNext == FloppyStep \/ \E lba \in Lba : FloppyRead(lba)
FloppySpec == FloppyInit /\ [][FloppyNext]_floppy

-----------------------------------------------------------------------------
(* Properties.                                                              *)

FloppyTypeOK ==
  /\ fdpc \in FdLabel /\ want \in Nat /\ tries \in (-1)..3
  /\ ok \in BOOLEAN /\ buffer512 \in Int /\ motor \in BOOLEAN
  /\ irq6_fired \in BOOLEAN
  /\ command \in {"none", "seek", "recalibrate", "read", "write", "result"}
  /\ chs \in Int
  /\ cylinder \in 0..255 /\ DMA_BUF \in Int /\ unseen \in BOOLEAN
  /\ faults \in 0..MaxFaults

\* A read that returns true gives the sector it was asked for, although a flag
\* left over from an earlier command ends waits early and a late answer may
\* meet a later wait; only an error that the controller reports in the result
\* bytes, which the driver skips, hides behind true.
ReadGivesSector == fdpc = "idle" /\ ok => buffer512 = want \/ unseen
=============================================================================
