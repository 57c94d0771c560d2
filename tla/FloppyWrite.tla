------------------------------ MODULE FloppyWrite ------------------------------
(***************************************************************************)
(* The rest of the floppy driver, kernel/arch/x86_64/driver/floppy.c:      *)
(* floppy_write_lba, which tries the seek once, and fdc_calibrate.  Reads  *)
(* come from Floppy; one call is made at a time.  No file of the kernel    *)
(* calls these two yet.                                                    *)
(***************************************************************************)
EXTENDS Floppy

VARIABLES
  wpc,       \* the statement of floppy_write_lba or fdc_calibrate
  recals,    \* the tries of fdc_calibrate so far
  wok,       \* the value that floppy_write_lba returned last
  wrote      \* drive: the sector written last, and what was written to it

writer    == <<wpc, recals, wok>>
writeVars == <<floppy, writer, wrote>>

WriteLabel ==
  {"idle", "seek", "seek_wait", "sense", "write", "write_wait", "result",
   "recal", "recal_wait", "recal_sense"}

CalibrateTries == 10

Given == -2          \* DMA_BUF holds the bytes of the caller of floppy_write_lba

-----------------------------------------------------------------------------
(* What the write command tells the drive.                                  *)

\* (h << 5) | 0
SelectWrite(lba) == (HeadOf(lba) * 32) % 256

dma_setup_write(addr, length) == DmaArea(addr, length, 90)   \* 0x5A

WriteFits ==
  dma_setup_write(DmaBufAt, 512) = [from |-> DmaBufAt, bytes |-> 512, dir |-> FromMemory]

-----------------------------------------------------------------------------
WriteInit ==
  /\ FloppyInit
  /\ wpc = "idle" /\ recals = 0 /\ wok = FALSE
  /\ wrote = [sector |-> NoSector, bytes |-> NoSector]

NoCall == fdpc = "idle" /\ wpc = "idle"

\* A value returned by the last call is gone when the next one begins.
ReadCall(lba) ==
  /\ NoCall /\ FloppyRead(lba)
  /\ wok' = FALSE
  /\ UNCHANGED <<wpc, recals, wrote>>

\* floppy_write_lba
WriteCall(lba) ==
  /\ NoCall
  /\ motor_on /\ want' = lba /\ wpc' = "seek"
  /\ ok' = FALSE /\ wok' = FALSE
  /\ UNCHANGED <<fdpc, tries, buffer512, irq6_fired, hardware, faults, recals, wrote>>

\* The ways out.
WriteReturn(r) ==
  /\ motor_off /\ wok' = r /\ wpc' = "idle"
  /\ UNCHANGED <<fdpc, want, tries, ok, buffer512, recals, wrote>>

\* fdc_seek
WriteSeek ==
  /\ wpc = "seek" /\ fdc_write("seek") /\ wpc' = "seek_wait"
  /\ UNCHANGED <<driver, irq6_fired, cylinder, DMA_BUF, unseen, faults, recals, wok, wrote>>

WriteSeekEnded ==
  /\ wpc = "seek_wait" /\ irq6_fired
  /\ irq6_fired' = FALSE /\ wpc' = "sense"
  /\ UNCHANGED <<driver, hardware, faults, recals, wok, wrote>>

WriteSeekTimeout ==
  /\ wpc = "seek_wait" /\ ~irq6_fired /\ faults < MaxFaults
  /\ faults' = faults + 1 /\ WriteReturn(FALSE)
  /\ UNCHANGED <<irq6_fired, hardware>>

WriteSense ==
  /\ wpc = "sense" /\ fdc_sense_interrupt
  /\ \/ /\ cylinder = Cylinder(want) /\ wpc' = "write"
        /\ UNCHANGED <<driver, recals, wok, wrote>>
     \/ cylinder # Cylinder(want) /\ WriteReturn(FALSE)
  /\ UNCHANGED <<irq6_fired, hardware, faults>>

\* The caller's bytes are copied to DMA_BUF, which no command uses now.
SendWrite ==
  /\ wpc = "write" /\ fdc_write("write")
  /\ DMA_BUF' = Given /\ wpc' = "write_wait"
  /\ UNCHANGED <<driver, irq6_fired, cylinder, unseen, faults, recals, wok, wrote>>

WriteEnded ==
  /\ wpc = "write_wait" /\ irq6_fired
  /\ irq6_fired' = FALSE /\ wpc' = "result"
  /\ UNCHANGED <<driver, hardware, faults, recals, wok, wrote>>

WriteTimeout ==
  /\ wpc = "write_wait" /\ ~irq6_fired /\ faults < MaxFaults
  /\ faults' = faults + 1 /\ WriteReturn(FALSE)
  /\ UNCHANGED <<irq6_fired, hardware>>

\* The seven result bytes are read and not looked at.
WriteResult ==
  /\ wpc = "result" /\ fdc_read /\ WriteReturn(TRUE)
  /\ UNCHANGED <<irq6_fired, cylinder, DMA_BUF, unseen, faults>>

WriteStep ==
  \/ WriteSeek \/ WriteSeekEnded \/ WriteSeekTimeout \/ WriteSense
  \/ SendWrite \/ WriteEnded \/ WriteTimeout \/ WriteResult

-----------------------------------------------------------------------------
(* fdc_calibrate.                                                           *)

CalibrateCall ==
  /\ NoCall /\ wpc' = "recal" /\ recals' = 0
  /\ UNCHANGED <<floppy, wok, wrote>>

Recalibrate ==
  /\ wpc = "recal" /\ recals < CalibrateTries
  /\ fdc_write("recalibrate") /\ wpc' = "recal_wait"
  /\ UNCHANGED <<driver, irq6_fired, cylinder, DMA_BUF, unseen, faults, recals, wok, wrote>>

RecalibrateEnded ==
  /\ wpc = "recal_wait" /\ irq6_fired
  /\ irq6_fired' = FALSE /\ wpc' = "recal_sense"
  /\ UNCHANGED <<driver, hardware, faults, recals, wok, wrote>>

RecalibrateTimeout ==
  /\ wpc = "recal_wait" /\ ~irq6_fired /\ faults < MaxFaults
  /\ faults' = faults + 1 /\ recals' = recals + 1 /\ wpc' = "recal"
  /\ UNCHANGED <<driver, irq6_fired, hardware, wok, wrote>>

RecalibrateSense ==
  /\ wpc = "recal_sense" /\ fdc_sense_interrupt
  /\ \/ cylinder = 0 /\ wpc' = "idle" /\ UNCHANGED recals
     \/ cylinder # 0 /\ wpc' = "recal" /\ recals' = recals + 1
  /\ UNCHANGED <<floppy, wok, wrote>>

CalibrateFails ==
  /\ wpc = "recal" /\ recals = CalibrateTries /\ wpc' = "idle"
  /\ UNCHANGED <<floppy, recals, wok, wrote>>

CalibrateStep ==
  \/ Recalibrate \/ RecalibrateEnded \/ RecalibrateTimeout
  \/ RecalibrateSense \/ CalibrateFails

-----------------------------------------------------------------------------
(* The drive and the controller.                                            *)

WriteEnds ==
  /\ command = "write"
  /\ command' = "result" /\ floppy_irq_handler
  /\ \/ /\ Finds(chs, SelectWrite(chs)) /\ WriteFits
        /\ wrote' = [sector |-> LbaAt(cylinder, HeadOf(chs), SectorOf(chs)), bytes |-> DMA_BUF]
        /\ unseen' = FALSE /\ UNCHANGED faults
     \/ /\ ~(Finds(chs, SelectWrite(chs)) /\ WriteFits)
        /\ unseen' = TRUE /\ UNCHANGED <<wrote, faults>>
     \/ /\ faults < MaxFaults /\ faults' = faults + 1
        /\ unseen' = TRUE /\ UNCHANGED wrote
  /\ UNCHANGED <<driver, writer, chs, cylinder, DMA_BUF>>

RecalibrateEnds ==
  /\ command = "recalibrate"
  /\ command' = "none" /\ floppy_irq_handler
  /\ \/ cylinder' = 0 /\ UNCHANGED faults
     \/ faults < MaxFaults /\ faults' = faults + 1 /\ UNCHANGED cylinder
  /\ UNCHANGED <<driver, writer, chs, DMA_BUF, unseen, wrote>>

WriteNext ==
  \/ FloppyStep /\ UNCHANGED <<writer, wrote>>
  \/ \E lba \in Lba : ReadCall(lba) \/ WriteCall(lba)
  \/ CalibrateCall \/ WriteStep \/ CalibrateStep
  \/ WriteEnds \/ RecalibrateEnds

WriteSpec == WriteInit /\ [][WriteNext]_writeVars

-----------------------------------------------------------------------------
(* Properties.                                                              *)

\* A write that returns true has put the caller's bytes on the sector it was
\* asked for, whatever waits ended early or late before; only an error in the
\* result bytes, which are skipped, hides behind true.
WriteReachesSector ==
  wpc = "idle" /\ wok => wrote = [sector |-> want, bytes |-> Given] \/ unseen

\* Nothing but the bytes of a caller is ever written, even when the drive writes
\* after the driver gave up; and no sector of the second side is, as the write
\* command has the head in bit 5 of the byte where the drive looks at bit 2.
OnlyGivenOnFirstSide ==
  wrote.sector # NoSector => wrote.bytes = Given /\ HeadOf(wrote.sector) = 0
=============================================================================
