------------------------------ MODULE ExecProofs ------------------------------
(***************************************************************************)
(* Theorems about Floppy, FloppyWrite and Exec, for every disk, every      *)
(* number of faults of the drive, every set of tasks, every tree of the    *)
(* kernel and every pool of frames: a read that returns true gives the     *)
(* sector that was asked for, also among writes and calibrations; a write  *)
(* that returns true has put the caller's bytes on the sector, and none    *)
(* reaches the second side of the disk; kernel_exec gives the scheduler    *)
(* lock back on whatever path it leaves by; no frame is mapped twice or    *)
(* given away while it is mapped; the pages of a program hold what the     *)
(* segments of its file say; and a file that is read with success is the   *)
(* one of its name, along its chain, on every disk that is in order.       *)
(***************************************************************************)
EXTENDS Exec, FloppyWrite, NumberProofs, SequenceTheorems

-----------------------------------------------------------------------------
(* lba_to_chs and the drive.                                                *)

\* floppy.c 199-206: the drive finds the sector whose cylinder, head and sector
\* lba_to_chs computes, for every sector whose cylinder fits in a byte.
LEMMA ChsNamesSector ==
  ASSUME NEW lba \in 0..(256 * 36 - 1)
  PROVE  LbaAt(Cylinder(lba), HeadOf(lba), SectorOf(lba)) = lba
<1> DEFINE c == lba \div 36
           r == lba % 36
<1>1. c \in 0..255 /\ r \in 0..35 /\ lba = 36 * c + r
  OBVIOUS
<1>2. c % 256 = c
  BY <1>1
<1>3. r = 18 * (r \div 18) + (r % 18)
  BY <1>1
<1>4. LbaAt(Cylinder(lba), HeadOf(lba), SectorOf(lba))
        = (c * 2 + (r \div 18)) * 18 + ((r % 18) + 1) - 1
  BY <1>2 DEF LbaAt, Cylinder, HeadOf, SectorOf
<1> QED BY <1>1, <1>3, <1>4

\* A number of two bytes, put together from them.
LEMMA TwoBytes ==
  ASSUME NEW n \in Nat, n < 65536
  PROVE  256 * ((n \div 256) % 256) + (n % 256) = n
<1> DEFINE high == n \div 256
<1>1. high \in Nat /\ high < 256 /\ n = 256 * high + (n % 256)
  OBVIOUS
<1>2. high % 256 = high
  BY <1>1
<1> QED BY <1>1, <1>2

\* floppy.c 115-129: the bytes that channel 2 is given name the whole area, for
\* addresses below 16 MB and lengths that fit in 16 bits.
LEMMA DmaAreaIsWhole ==
  ASSUME NEW addr \in Nat, NEW page \in Nat, page < 256, addr \div 65536 = page,
         NEW length \in Nat, 0 < length, length <= 65536, NEW mode \in Nat
  PROVE  DmaArea(addr, length, mode)
           = [from |-> addr, bytes |-> length, dir |-> (mode \div 4) % 4]
<1> DEFINE rest == addr % 65536
           count == length - 1
<1>1. rest \in Nat /\ rest < 65536 /\ addr = 65536 * page + rest
  OBVIOUS
<1>2. page % 256 = page
  OBVIOUS
<1>3. addr \div 256 = 256 * page + (rest \div 256) /\ addr % 256 = rest % 256
  BY <1>1
<1>4. (addr \div 256) % 256 = (rest \div 256) % 256
  BY <1>1, <1>3
<1>5. 256 * ((rest \div 256) % 256) + (rest % 256) = rest
  BY <1>1, TwoBytes
<1>6. count \in Nat /\ count < 65536 /\ count + 1 = length
  OBVIOUS
<1>7. 256 * ((count \div 256) % 256) + (count % 256) = count
  BY <1>6, TwoBytes
<1>8. 65536 * (page % 256) + 256 * ((addr \div 256) % 256) + (addr % 256) = addr
  BY <1>1, <1>2, <1>3, <1>4, <1>5
<1> QED BY <1>6, <1>7, <1>8 DEF DmaArea

\* A read of a sector fills the buffer that the driver copies from.
LEMMA TransferFillsBuffer == TransferFits
<1>1. DmaBufAt \in Nat /\ DmaBufAt \div 65536 = 0
  BY DEF DmaBufAt
<1>2. dma_setup_read(DmaBufAt, 512)
        = [from |-> DmaBufAt, bytes |-> 512, dir |-> (86 \div 4) % 4]
  BY <1>1, DmaAreaIsWhole DEF dma_setup_read
<1> QED BY <1>2 DEF TransferFits, ToMemory

\* A cylinder is a byte.
LEMMA CylinderIsByte ==
  ASSUME NEW lba \in Nat
  PROVE  Cylinder(lba) \in 0..255
BY DEF Cylinder

\* A fault more is within the bound.
LEMMA FaultsCounted ==
  ASSUME NEW n \in 0..MaxFaults, NEW m, m = n \/ (n < MaxFaults /\ m = n + 1)
  PROVE  m \in 0..MaxFaults
<1>1. MaxFaults \in Nat
  BY FloppyAssumption DEF FloppyAssumption
<1> QED BY <1>1

-----------------------------------------------------------------------------
(* The invariant.                                                           *)

\* Only the loop of seeks uses the count, and leaves when it falls below zero.
TriesLeft == fdpc \in {"seek", "seek_wait", "sense"} => tries \in 0..3

\* A read or its result is with the controller only while the driver waits for
\* it, or after a wait that timed out: the driver then stops at the next seek.
CommandOfRead ==
  command \in {"read", "result"} =>
    fdpc \in {"read_wait", "result"} \/ (fdpc \in {"idle", "seek"} /\ ~ok)

\* A command names a sector, and the driver's read the one it wants.
CommandNames ==
  /\ command \in {"seek", "read", "write"} => chs \in 0..(256 * 36 - 1)
  /\ fdpc \in {"read_wait", "result"} /\ command = "read" => chs = want

\* While the driver waits for a result, the one that is there is its own.
ResultIsOwn ==
  /\ fdpc \in {"read_wait", "result"} /\ command = "result"
       => DMA_BUF = want \/ unseen
  /\ want \in 0..(256 * 36 - 1)

\* The inductive invariant of the read path.
FloppyInv ==
  /\ FloppyTypeOK /\ TriesLeft /\ CommandOfRead /\ CommandNames /\ ResultIsOwn
  /\ ReadGivesSector

\* It holds before the first call.
LEMMA FloppyInvInit == FloppyInit => FloppyInv
<1> SUFFICES ASSUME FloppyInit PROVE FloppyInv
  OBVIOUS
<1>1. /\ want \in Nat /\ chs \in Int /\ tries \in (-1)..3 /\ cylinder \in 0..255
      /\ buffer512 \in Int /\ DMA_BUF \in Int /\ faults \in 0..MaxFaults
  BY FloppyAssumption DEF FloppyInit, fdc_reset, NoSector, FloppyAssumption
<1>2. FloppyTypeOK
  BY <1>1 DEF FloppyInit, fdc_reset, FloppyTypeOK, FdLabel
<1>3. TriesLeft /\ CommandOfRead /\ CommandNames /\ ReadGivesSector
  BY DEF FloppyInit, fdc_reset, TriesLeft, CommandOfRead, CommandNames, ReadGivesSector
<1>4. ResultIsOwn
  BY DEF FloppyInit, fdc_reset, ResultIsOwn
<1> QED BY <1>2, <1>3, <1>4 DEF FloppyInv

\* Each step of the driver and of the controller preserves it.
LEMMA FloppyInvStep ==
  ASSUME FloppyInv, [FloppyNext]_floppy
  PROVE  FloppyInv'
<1> USE FloppyAssumption DEF FloppyAssumption, FloppyInv, FloppyTypeOK, FdLabel,
          TriesLeft, CommandOfRead, CommandNames, ResultIsOwn, ReadGivesSector, driver, hardware,
          motor_on, motor_off, fdc_write, fdc_read, fdc_sense_interrupt, floppy_irq_handler
<1>1. ASSUME NEW lba \in Lba, FloppyRead(lba) PROVE FloppyInv'
  BY <1>1 DEF FloppyRead
<1>2. CASE SendSeek
  BY <1>2 DEF SendSeek
<1>3. CASE WaitSeek
  <2> USE <1>3 DEF WaitSeek
  <2>0. FloppyTypeOK
    OBVIOUS
  <2>1. FloppyTypeOK'
    BY ONLY <2>0, <1>3 DEF FloppyTypeOK, FdLabel, WaitSeek, hardware
  <2>2. TriesLeft' /\ CommandOfRead' /\ CommandNames'
    OBVIOUS
  <2>3. ResultIsOwn' /\ ReadGivesSector'
    OBVIOUS
  <2> QED BY <2>1, <2>2, <2>3
<1>4. CASE SeekTimeout
  <2> USE <1>4 DEF SeekTimeout, SeekAgain
  <2>1. tries \in 0..3 /\ (tries' = tries - 1) /\ faults' \in 0..MaxFaults
    OBVIOUS
  <2>2. tries' \in (-1)..3 /\ TriesLeft'
    BY <2>1
  <2>3. FloppyTypeOK'
    BY <2>1, <2>2
  <2>4. CommandOfRead' /\ CommandNames' /\ ResultIsOwn' /\ ReadGivesSector'
    OBVIOUS
  <2> QED BY <2>2, <2>3, <2>4
<1>5. CASE Sense
  <2> USE <1>5 DEF Sense, SeekAgain
  <2>1. tries \in 0..3 /\ (tries' = tries \/ tries' = tries - 1)
    OBVIOUS
  <2>2. tries' \in (-1)..3
    BY ONLY <2>1
  <2>3. TriesLeft'
    BY <2>1
  <2>4. FloppyTypeOK'
    BY <2>2
  <2>5. CommandOfRead' /\ CommandNames' /\ ResultIsOwn' /\ ReadGivesSector'
    OBVIOUS
  <2> QED BY <2>3, <2>4, <2>5
<1>6. CASE SendRead
  BY <1>6 DEF SendRead
<1>7. CASE WaitRead
  <2> USE <1>7 DEF WaitRead
  <2>0. FloppyTypeOK
    OBVIOUS
  <2>1. FloppyTypeOK'
    BY ONLY <2>0, <1>7 DEF FloppyTypeOK, FdLabel, WaitRead, hardware
  <2>2. TriesLeft' /\ CommandOfRead' /\ CommandNames'
    OBVIOUS
  <2>3. ResultIsOwn' /\ ReadGivesSector'
    OBVIOUS
  <2> QED BY <2>1, <2>2, <2>3
<1>8. CASE ReadTimeout
  <2> USE <1>8 DEF ReadTimeout
  <2>1. faults' \in 0..MaxFaults
    OBVIOUS
  <2>2. FloppyTypeOK'
    BY <2>1
  <2>3. TriesLeft' /\ CommandOfRead' /\ CommandNames' /\ ResultIsOwn' /\ ReadGivesSector'
    OBVIOUS
  <2> QED BY <2>2, <2>3
<1>9. CASE ReadResult
  BY <1>9 DEF ReadResult
<1>10. CASE SeekEnds
  <2> USE <1>10 DEF SeekEnds
  <2>0. chs \in 0..(256 * 36 - 1) /\ chs \in Nat
    OBVIOUS
  <2>1. cylinder' \in 0..255
    BY <2>0, CylinderIsByte
  <2>2. faults' = faults \/ (faults < MaxFaults /\ faults' = faults + 1)
    OBVIOUS
  <2>3. faults' \in 0..MaxFaults
    BY <2>2, FaultsCounted
  <2>5. FloppyTypeOK
    OBVIOUS
  <2>6. FloppyTypeOK'
    BY ONLY <2>1, <2>3, <2>5, <1>10
    DEF FloppyTypeOK, FdLabel, SeekEnds, driver, floppy_irq_handler
  <2>4. TriesLeft' /\ CommandOfRead' /\ CommandNames' /\ ResultIsOwn' /\ ReadGivesSector'
    OBVIOUS
  <2> QED BY <2>6, <2>4
<1>11. CASE ReadEnds
  <2> USE <1>11 DEF ReadEnds
  <2>0. chs \in 0..(256 * 36 - 1)
    OBVIOUS
  <2>1. LbaAt(Cylinder(chs), HeadOf(chs), SectorOf(chs)) = chs
    BY <2>0, ChsNamesSector
  <2>2. DMA_BUF' = chs \/ unseen'
    BY <2>1 DEF Finds
  <2>3. DMA_BUF' \in Int
    BY <2>1 DEF Finds
  <2>4. faults' = faults \/ (faults < MaxFaults /\ faults' = faults + 1)
    OBVIOUS
  <2>5. FloppyTypeOK'
    BY <2>3, <2>4, FaultsCounted
  <2>6. TriesLeft' /\ CommandOfRead' /\ CommandNames' /\ ResultIsOwn' /\ ReadGivesSector'
    BY <2>2
  <2> QED BY <2>5, <2>6
<1>12. CASE UNCHANGED floppy
  BY <1>12 DEF floppy
<1> QED
  BY <1>1, <1>2, <1>3, <1>4, <1>5, <1>6, <1>7, <1>8, <1>9, <1>10, <1>11, <1>12
  DEF FloppyNext, FloppyStep, DriverStep, ControllerStep

\* It holds in every reachable state.
LEMMA FloppyInvariant == FloppySpec => []FloppyInv
<1>1. FloppyInv /\ [FloppyNext]_floppy => FloppyInv'
  BY FloppyInvStep
<1> QED BY FloppyInvInit, <1>1, PTL DEF FloppySpec

-----------------------------------------------------------------------------
(* Theorems.                                                                *)

\* The types of the driver and the controller; the count of tries does not run
\* below -1 however many waits time out (floppy.c 150-160).
THEOREM FloppyTypeCorrect == FloppySpec => []FloppyTypeOK
<1>1. FloppyInv => FloppyTypeOK
  BY DEF FloppyInv
<1> QED BY FloppyInvariant, <1>1, PTL

\* floppy.c 150-227: a read that returns true gives the sector it was asked for,
\* or an error in the result bytes went unseen, with any number of timeouts and
\* of flags left over from them.
THEOREM ReadCorrect == FloppySpec => []ReadGivesSector
<1>1. FloppyInv => ReadGivesSector
  BY DEF FloppyInv
<1> QED BY FloppyInvariant, <1>1, PTL

-----------------------------------------------------------------------------
(* The write command.                                                       *)

\* floppy.c 209-221: a write takes the whole of the buffer that was filled.
LEMMA WriteTakesBuffer == WriteFits
<1>1. DmaBufAt \in Nat /\ DmaBufAt \div 65536 = 0
  BY DEF DmaBufAt
<1>2. dma_setup_write(DmaBufAt, 512)
        = [from |-> DmaBufAt, bytes |-> 512, dir |-> (90 \div 4) % 4]
  BY <1>1, DmaAreaIsWhole DEF dma_setup_write
<1> QED BY <1>2 DEF WriteFits, FromMemory

\* floppy.c 247: the second byte of the write command selects the first side.
LEMMA WriteSelectsFirstSide ==
  ASSUME NEW lba \in 0..(256 * 36 - 1)
  PROVE  HeadSelected(SelectWrite(lba)) = 0
<1>1. HeadOf(lba) \in {0, 1}
  BY DEF HeadOf
<1> QED BY <1>1 DEF SelectWrite, HeadSelected

-----------------------------------------------------------------------------
(* The invariant.                                                           *)

WriteLabels == {"seek", "seek_wait", "sense", "write", "write_wait", "result"}

\* The variables of the write path in their types.
WriteTypeOK ==
  /\ wpc \in WriteLabel /\ recals \in Nat /\ wok \in BOOLEAN
  /\ wrote \in [sector : Int, bytes : Int]

\* One call at a time, and a value that was returned is gone in the next call.
OneCall ==
  /\ fdpc = "idle" \/ wpc = "idle"
  /\ fdpc # "idle" => ~wok
  /\ wpc \in WriteLabels => ~ok /\ ~wok

\* A read, a write or a result is with the controller while the driver waits for
\* it, or after a wait that timed out: no later command is then taken, and no
\* call has returned true.
CommandOfCall ==
  command \in {"read", "write", "result"} =>
    /\ ~wok
    /\ \/ fdpc \in {"read_wait", "result"} /\ command # "write"
       \/ wpc \in {"write_wait", "result"} /\ command # "read" /\ ~ok
       \/ fdpc \in {"idle", "seek"} /\ wpc \in {"idle", "seek", "recal"} /\ ~ok

\* A write under way has the caller's bytes, and the driver's names its sector.
WriteIsGiven ==
  /\ command = "write" => DMA_BUF = Given
  /\ wpc \in {"write_wait", "result"} /\ command = "write" => chs = want
  /\ wpc \in {"write_wait", "result"} /\ command = "result"
       => wrote = [sector |-> want, bytes |-> Given] \/ unseen
  /\ wok => wrote = [sector |-> want, bytes |-> Given] \/ unseen

\* The inductive invariant of reads and writes together.
WriteInv ==
  /\ FloppyInv /\ WriteTypeOK /\ OneCall /\ CommandOfCall /\ WriteIsGiven
  /\ OnlyGivenOnFirstSide

\* It holds before the first call.
LEMMA WriteInvInit == WriteInit => WriteInv
<1> SUFFICES ASSUME WriteInit PROVE WriteInv
  OBVIOUS
<1>1. FloppyInv
  BY FloppyInvInit DEF WriteInit
<1>2. WriteTypeOK
  <2>1. NoSector \in Int
    BY DEF NoSector
  <2>2. wrote \in [sector : Int, bytes : Int]
    BY <2>1 DEF WriteInit
  <2>3. recals \in Nat /\ wpc \in WriteLabel /\ wok \in BOOLEAN
    BY DEF WriteInit, WriteLabel
  <2> QED BY <2>2, <2>3 DEF WriteTypeOK
<1>3. OneCall /\ CommandOfCall /\ WriteIsGiven /\ OnlyGivenOnFirstSide
  BY DEF WriteInit, FloppyInit, fdc_reset, OneCall, CommandOfCall, WriteIsGiven,
         OnlyGivenOnFirstSide, WriteLabels
<1> QED BY <1>1, <1>2, <1>3 DEF WriteInv

-----------------------------------------------------------------------------
(* Steps of a read, with what they leave of the writer.                     *)

LEMMA WriteInvRead ==
  ASSUME WriteInv, FloppyStep, UNCHANGED <<writer, wrote>>
  PROVE  WriteInv'
<1>1. FloppyInv'
  BY FloppyInvStep DEF WriteInv, FloppyNext
<1>2. WriteTypeOK' /\ OnlyGivenOnFirstSide'
  BY DEF WriteInv, WriteTypeOK, OnlyGivenOnFirstSide, writer
<1> USE DEF WriteInv, OneCall, CommandOfCall, WriteIsGiven, WriteLabels, writer, driver,
        hardware, motor_on, motor_off, fdc_write, fdc_read, fdc_sense_interrupt,
        floppy_irq_handler
<1>3. ASSUME SendSeek PROVE OneCall' /\ CommandOfCall' /\ WriteIsGiven'
  BY <1>3 DEF SendSeek
<1>4. ASSUME WaitSeek PROVE OneCall' /\ CommandOfCall' /\ WriteIsGiven'
  BY <1>4 DEF WaitSeek
<1>5. ASSUME SeekTimeout PROVE OneCall' /\ CommandOfCall' /\ WriteIsGiven'
  BY <1>5 DEF SeekTimeout, SeekAgain
<1>6. ASSUME Sense PROVE OneCall' /\ CommandOfCall' /\ WriteIsGiven'
  BY <1>6 DEF Sense, SeekAgain
<1>7. ASSUME SendRead PROVE OneCall' /\ CommandOfCall' /\ WriteIsGiven'
  BY <1>7 DEF SendRead
<1>8. ASSUME WaitRead PROVE OneCall' /\ CommandOfCall' /\ WriteIsGiven'
  BY <1>8 DEF WaitRead
<1>9. ASSUME ReadTimeout PROVE OneCall' /\ CommandOfCall' /\ WriteIsGiven'
  BY <1>9 DEF ReadTimeout
<1>10. ASSUME ReadResult PROVE OneCall' /\ CommandOfCall' /\ WriteIsGiven'
  BY <1>10 DEF ReadResult
<1>11. ASSUME SeekEnds PROVE OneCall' /\ CommandOfCall' /\ WriteIsGiven'
  BY <1>11 DEF SeekEnds
<1>12. ASSUME ReadEnds PROVE OneCall' /\ CommandOfCall' /\ WriteIsGiven'
  BY <1>12 DEF ReadEnds
<1> QED
  BY <1>1, <1>2, <1>3, <1>4, <1>5, <1>6, <1>7, <1>8, <1>9, <1>10, <1>11, <1>12
  DEF FloppyStep, DriverStep, ControllerStep

-----------------------------------------------------------------------------
(* Calls, and steps of a write and of a calibration.                        *)

LEMMA WriteInvStep ==
  ASSUME WriteInv, [WriteNext]_writeVars
  PROVE  WriteInv'
<1>0. /\ FloppyTypeOK /\ WriteTypeOK
      /\ FloppyAssumption
  BY FloppyAssumption DEF WriteInv, FloppyInv
<1> USE DEF FloppyAssumption, WriteInv, FloppyInv, TriesLeft,
        CommandOfRead, CommandNames, ResultIsOwn, ReadGivesSector, OneCall, CommandOfCall,
        WriteIsGiven, OnlyGivenOnFirstSide, WriteLabels, NoCall, driver, hardware, writer,
        motor_on, motor_off, fdc_write, fdc_read, fdc_sense_interrupt, floppy_irq_handler,
        WriteReturn
<1>1. CASE FloppyStep /\ UNCHANGED <<writer, wrote>>
  BY <1>1, WriteInvRead
<1>2. ASSUME NEW lba \in Lba, ReadCall(lba) PROVE WriteInv'
  <2> USE <1>2 DEF ReadCall
  <2>1. FloppyInv'
    <3>1. FloppyNext
      BY DEF FloppyNext
    <3> QED BY <3>1, FloppyInvStep
  <2>2. WriteTypeOK'
    BY DEF WriteTypeOK
  <2>3. OneCall' /\ CommandOfCall' /\ WriteIsGiven' /\ OnlyGivenOnFirstSide'
    BY DEF FloppyRead
  <2> QED BY <2>1, <2>2, <2>3
<1>3. ASSUME NEW lba \in Lba, WriteCall(lba) PROVE WriteInv'
  <2>0. lba \in Nat /\ lba \in 0..(256 * 36 - 1)
    BY <1>0
  <2>1. FloppyTypeOK'
    BY ONLY <1>0, <2>0, <1>3
    DEF FloppyTypeOK, WriteCall, FloppyAssumption, driver, hardware, motor_on
  <2>2. WriteTypeOK'
    BY ONLY <1>0, <1>3 DEF WriteTypeOK, WriteLabel, WriteCall, writer, motor_on
  <2>3. TriesLeft' /\ CommandOfRead' /\ CommandNames' /\ ResultIsOwn' /\ ReadGivesSector'
    BY <2>0, <1>3 DEF WriteCall
  <2>4. OneCall' /\ CommandOfCall' /\ WriteIsGiven' /\ OnlyGivenOnFirstSide'
    BY <1>3 DEF WriteCall
  <2> QED BY <2>1, <2>2, <2>3, <2>4
<1>4. CASE WriteSeek
  <2>1. FloppyTypeOK'
    BY ONLY <1>0, <1>4
    DEF FloppyTypeOK, WriteSeek, FloppyAssumption, driver, hardware, fdc_write
  <2>2. WriteTypeOK'
    BY ONLY <1>0, <1>4 DEF WriteTypeOK, WriteLabel, WriteSeek, writer, fdc_write
  <2>3. TriesLeft' /\ CommandOfRead' /\ CommandNames' /\ ResultIsOwn' /\ ReadGivesSector'
    BY <1>4 DEF WriteSeek
  <2>4. OneCall' /\ CommandOfCall' /\ WriteIsGiven' /\ OnlyGivenOnFirstSide'
    BY <1>4 DEF WriteSeek
  <2> QED BY <2>1, <2>2, <2>3, <2>4
<1>5. CASE WriteSeekEnded
  <2>1. FloppyTypeOK'
    BY ONLY <1>0, <1>5
    DEF FloppyTypeOK, WriteSeekEnded, FloppyAssumption, driver, hardware
  <2>2. WriteTypeOK'
    BY ONLY <1>0, <1>5 DEF WriteTypeOK, WriteLabel, WriteSeekEnded, writer
  <2>3. TriesLeft' /\ CommandOfRead' /\ CommandNames' /\ ResultIsOwn' /\ ReadGivesSector'
    BY <1>5 DEF WriteSeekEnded
  <2>4. OneCall' /\ CommandOfCall' /\ WriteIsGiven' /\ OnlyGivenOnFirstSide'
    BY <1>5 DEF WriteSeekEnded
  <2> QED BY <2>1, <2>2, <2>3, <2>4
<1>6. CASE WriteSeekTimeout
  <2>0. faults' \in 0..MaxFaults
    BY <1>0, <1>6, FaultsCounted DEF FloppyTypeOK, WriteSeekTimeout
  <2>1. FloppyTypeOK'
    BY ONLY <1>0, <2>0, <1>6
    DEF FloppyTypeOK, WriteSeekTimeout, FloppyAssumption, driver, hardware,
        WriteReturn, motor_off
  <2>2. WriteTypeOK'
    BY ONLY <1>0, <1>6
    DEF WriteTypeOK, WriteLabel, WriteSeekTimeout, writer,
        WriteReturn, motor_off
  <2>3. TriesLeft' /\ CommandOfRead' /\ CommandNames' /\ ResultIsOwn' /\ ReadGivesSector'
    BY <1>6 DEF WriteSeekTimeout
  <2>4. OneCall' /\ CommandOfCall' /\ WriteIsGiven' /\ OnlyGivenOnFirstSide'
    BY <1>6 DEF WriteSeekTimeout
  <2> QED BY <2>1, <2>2, <2>3, <2>4
<1>7. CASE WriteSense
  <2>1. FloppyTypeOK'
    BY ONLY <1>0, <1>7
    DEF FloppyTypeOK, WriteSense, FloppyAssumption, driver, hardware,
        WriteReturn, motor_off
  <2>2. WriteTypeOK'
    BY ONLY <1>0, <1>7
    DEF WriteTypeOK, WriteLabel, WriteSense, writer,
        WriteReturn, motor_off
  <2>3. TriesLeft' /\ CommandOfRead' /\ CommandNames' /\ ResultIsOwn' /\ ReadGivesSector'
    <3>1. /\ fdpc' = fdpc /\ want' = want /\ tries' = tries /\ ok' = ok
          /\ buffer512' = buffer512 /\ command' = command /\ chs' = chs
          /\ DMA_BUF' = DMA_BUF /\ unseen' = unseen
      BY <1>7 DEF WriteSense
    <3> QED BY <3>1
  <2>4. OneCall' /\ CommandOfCall' /\ WriteIsGiven' /\ OnlyGivenOnFirstSide'
    BY <1>7 DEF WriteSense
  <2> QED BY <2>1, <2>2, <2>3, <2>4
<1>8. CASE SendWrite
  <2>1. FloppyTypeOK'
    BY ONLY <1>0, <1>8
    DEF FloppyTypeOK, SendWrite, FloppyAssumption, driver, hardware, fdc_write, Given
  <2>2. WriteTypeOK'
    BY ONLY <1>0, <1>8 DEF WriteTypeOK, WriteLabel, SendWrite, writer, fdc_write
  <2>3. TriesLeft' /\ CommandOfRead' /\ CommandNames' /\ ResultIsOwn' /\ ReadGivesSector'
    BY <1>8 DEF SendWrite
  <2>4. OneCall' /\ CommandOfCall' /\ WriteIsGiven' /\ OnlyGivenOnFirstSide'
    BY <1>8 DEF SendWrite
  <2> QED BY <2>1, <2>2, <2>3, <2>4
<1>9. CASE WriteEnded
  <2>1. FloppyTypeOK'
    BY ONLY <1>0, <1>9 DEF FloppyTypeOK, WriteEnded, FloppyAssumption, driver, hardware
  <2>2. WriteTypeOK'
    BY ONLY <1>0, <1>9 DEF WriteTypeOK, WriteLabel, WriteEnded, writer
  <2>3. TriesLeft' /\ CommandOfRead' /\ CommandNames' /\ ResultIsOwn' /\ ReadGivesSector'
    BY <1>9 DEF WriteEnded
  <2>4. OneCall' /\ CommandOfCall' /\ WriteIsGiven' /\ OnlyGivenOnFirstSide'
    BY <1>9 DEF WriteEnded
  <2> QED BY <2>1, <2>2, <2>3, <2>4
<1>10. CASE WriteTimeout
  <2>0. faults' \in 0..MaxFaults
    BY <1>0, <1>10, FaultsCounted DEF FloppyTypeOK, WriteTimeout
  <2>1. FloppyTypeOK'
    BY ONLY <1>0, <2>0, <1>10
    DEF FloppyTypeOK, WriteTimeout, FloppyAssumption, driver, hardware,
        WriteReturn, motor_off
  <2>2. WriteTypeOK'
    BY ONLY <1>0, <1>10
    DEF WriteTypeOK, WriteLabel, WriteTimeout, writer,
        WriteReturn, motor_off
  <2>3. TriesLeft' /\ CommandOfRead' /\ CommandNames' /\ ResultIsOwn' /\ ReadGivesSector'
    BY <1>10 DEF WriteTimeout
  <2>4. OneCall' /\ CommandOfCall' /\ WriteIsGiven' /\ OnlyGivenOnFirstSide'
    BY <1>10 DEF WriteTimeout
  <2> QED BY <2>1, <2>2, <2>3, <2>4
<1>11. CASE WriteResult
  <2>1. FloppyTypeOK'
    BY ONLY <1>0, <1>11
    DEF FloppyTypeOK, WriteResult, FloppyAssumption, driver, hardware,
        WriteReturn, motor_off, fdc_read
  <2>2. WriteTypeOK'
    BY ONLY <1>0, <1>11
    DEF WriteTypeOK, WriteLabel, WriteResult, writer,
        WriteReturn, motor_off, fdc_read
  <2>3. TriesLeft' /\ CommandOfRead' /\ CommandNames' /\ ResultIsOwn' /\ ReadGivesSector'
    BY <1>11 DEF WriteResult
  <2>4. OneCall' /\ CommandOfCall' /\ WriteIsGiven' /\ OnlyGivenOnFirstSide'
    BY <1>11 DEF WriteResult
  <2> QED BY <2>1, <2>2, <2>3, <2>4
<1>12. CASE CalibrateCall
  <2>1. FloppyTypeOK'
    BY ONLY <1>0, <1>12
    DEF FloppyTypeOK, CalibrateCall, FloppyAssumption, driver, hardware, floppy
  <2>2. WriteTypeOK'
    BY ONLY <1>0, <1>12 DEF WriteTypeOK, WriteLabel, CalibrateCall, writer, floppy
  <2>3. TriesLeft' /\ CommandOfRead' /\ CommandNames' /\ ResultIsOwn' /\ ReadGivesSector'
    BY <1>12 DEF CalibrateCall, floppy
  <2>4. OneCall' /\ CommandOfCall' /\ WriteIsGiven' /\ OnlyGivenOnFirstSide'
    BY <1>12 DEF CalibrateCall, floppy
  <2> QED BY <2>1, <2>2, <2>3, <2>4
<1>13. CASE Recalibrate
  <2>1. FloppyTypeOK'
    BY ONLY <1>0, <1>13
    DEF FloppyTypeOK, Recalibrate, FloppyAssumption, driver, hardware, fdc_write
  <2>2. WriteTypeOK'
    BY ONLY <1>0, <1>13 DEF WriteTypeOK, WriteLabel, Recalibrate, writer, fdc_write
  <2>3. TriesLeft' /\ CommandOfRead' /\ CommandNames' /\ ResultIsOwn' /\ ReadGivesSector'
    BY <1>13 DEF Recalibrate
  <2>4. OneCall' /\ CommandOfCall' /\ WriteIsGiven' /\ OnlyGivenOnFirstSide'
    BY <1>13 DEF Recalibrate
  <2> QED BY <2>1, <2>2, <2>3, <2>4
<1>14. CASE RecalibrateEnded
  <2>1. FloppyTypeOK'
    BY ONLY <1>0, <1>14
    DEF FloppyTypeOK, RecalibrateEnded, FloppyAssumption, driver, hardware
  <2>2. WriteTypeOK'
    BY ONLY <1>0, <1>14 DEF WriteTypeOK, WriteLabel, RecalibrateEnded, writer
  <2>3. TriesLeft' /\ CommandOfRead' /\ CommandNames' /\ ResultIsOwn' /\ ReadGivesSector'
    BY <1>14 DEF RecalibrateEnded
  <2>4. OneCall' /\ CommandOfCall' /\ WriteIsGiven' /\ OnlyGivenOnFirstSide'
    BY <1>14 DEF RecalibrateEnded
  <2> QED BY <2>1, <2>2, <2>3, <2>4
<1>15. CASE RecalibrateTimeout
  <2>1. FloppyTypeOK'
    BY ONLY <1>0, <1>15
    DEF FloppyTypeOK, RecalibrateTimeout, FloppyAssumption, driver, hardware
  <2>2. WriteTypeOK'
    <3>0. recals \in Nat /\ recals' = recals + 1
      BY ONLY <1>0, <1>15 DEF WriteTypeOK, RecalibrateTimeout
    <3>1. recals' \in Nat
      BY ONLY <3>0
    <3> QED
      BY ONLY <1>0, <1>15, <3>1 DEF WriteTypeOK, WriteLabel, RecalibrateTimeout
  <2>3. TriesLeft' /\ CommandOfRead' /\ CommandNames' /\ ResultIsOwn' /\ ReadGivesSector'
    BY <1>15 DEF RecalibrateTimeout
  <2>4. OneCall' /\ CommandOfCall' /\ WriteIsGiven' /\ OnlyGivenOnFirstSide'
    BY <1>15 DEF RecalibrateTimeout
  <2> QED BY <2>1, <2>2, <2>3, <2>4
<1>16. CASE RecalibrateSense
  <2>1. FloppyTypeOK'
    BY ONLY <1>0, <1>16
    DEF FloppyTypeOK, RecalibrateSense, FloppyAssumption, driver, hardware, floppy
  <2>2. WriteTypeOK'
    <3>1. recals' = recals \/ recals' = recals + 1
      BY <1>16 DEF RecalibrateSense
    <3>0. recals \in Nat
      BY ONLY <1>0 DEF WriteTypeOK
    <3>2. recals' \in Nat
      BY ONLY <3>0, <3>1
    <3>3. wpc' \in {"idle", "recal"} /\ wok' = wok /\ wrote' = wrote
      BY ONLY <1>16 DEF RecalibrateSense
    <3>4. wok \in BOOLEAN /\ wrote \in [sector : Int, bytes : Int]
      BY ONLY <1>0 DEF WriteTypeOK
    <3>5. wpc' \in WriteLabel
      BY ONLY <3>3 DEF WriteLabel
    <3> QED
      BY ONLY <3>2, <3>3, <3>4, <3>5 DEF WriteTypeOK
  <2>3. TriesLeft' /\ CommandOfRead' /\ CommandNames' /\ ResultIsOwn' /\ ReadGivesSector'
    BY <1>16 DEF RecalibrateSense, floppy
  <2>4. OneCall' /\ CommandOfCall' /\ WriteIsGiven' /\ OnlyGivenOnFirstSide'
    BY <1>16 DEF RecalibrateSense, floppy
  <2> QED BY <2>1, <2>2, <2>3, <2>4
<1>17. CASE CalibrateFails
  <2>1. FloppyTypeOK'
    BY ONLY <1>0, <1>17
    DEF FloppyTypeOK, CalibrateFails, FloppyAssumption, driver, hardware, floppy
  <2>2. WriteTypeOK'
    BY ONLY <1>0, <1>17 DEF WriteTypeOK, WriteLabel, CalibrateFails, writer, floppy
  <2>3. TriesLeft' /\ CommandOfRead' /\ CommandNames' /\ ResultIsOwn' /\ ReadGivesSector'
    BY <1>17 DEF CalibrateFails, floppy
  <2>4. OneCall' /\ CommandOfCall' /\ WriteIsGiven' /\ OnlyGivenOnFirstSide'
    BY <1>17 DEF CalibrateFails, floppy
  <2> QED BY <2>1, <2>2, <2>3, <2>4
<1>18. CASE WriteEnds
  <2>0. /\ chs \in 0..(256 * 36 - 1) /\ DMA_BUF = Given /\ command = "write"
        /\ command' = "result" /\ UNCHANGED <<driver, writer, chs, cylinder, DMA_BUF>>
    BY <1>18 DEF WriteEnds
  <2>1. faults' \in 0..MaxFaults /\ unseen' \in BOOLEAN
    <3>1. faults' = faults \/ (faults < MaxFaults /\ faults' = faults + 1)
      BY <1>18 DEF WriteEnds
    <3>2. faults' \in 0..MaxFaults
      BY ONLY <1>0, <3>1, FaultsCounted DEF FloppyTypeOK
    <3> QED BY <3>2, <1>18 DEF WriteEnds
  <2>2. FloppyTypeOK'
    BY ONLY <1>0, <2>1, <1>18
    DEF FloppyTypeOK, WriteEnds, driver, floppy_irq_handler
  <2>3. \/ wrote' = wrote /\ unseen'
        \/ wrote' = [sector |-> chs, bytes |-> Given] /\ HeadOf(chs) = 0
    <3>1. LbaAt(Cylinder(chs), HeadOf(chs), SectorOf(chs)) = chs
      BY <2>0, ChsNamesSector
    <3>2. HeadSelected(SelectWrite(chs)) = 0
      BY <2>0, WriteSelectsFirstSide
    <3> QED BY <1>18, <2>0, <3>1, <3>2 DEF WriteEnds, Finds
  <2>4. WriteTypeOK'
    <3>1. Given \in Int /\ chs \in Int
      BY <2>0 DEF Given
    <3>2. wrote' \in [sector : Int, bytes : Int]
      BY <2>3, <3>1, <1>0 DEF WriteTypeOK
    <3> QED BY <2>0, <3>2, <1>0 DEF WriteTypeOK
  <2>5. TriesLeft' /\ CommandOfRead' /\ CommandNames' /\ ResultIsOwn' /\ ReadGivesSector'
    BY <2>0
  <2>6. OneCall' /\ CommandOfCall'
    BY <2>0
  <2>7. OnlyGivenOnFirstSide'
    BY <2>3
  <2>8. WriteIsGiven'
    BY <2>0, <2>3
  <2> QED BY <2>2, <2>4, <2>5, <2>6, <2>7, <2>8
<1>19. CASE RecalibrateEnds
  <2>0. faults' \in 0..MaxFaults /\ cylinder' \in 0..255
    <3>1. faults' = faults \/ (faults < MaxFaults /\ faults' = faults + 1)
      BY <1>19 DEF RecalibrateEnds
    <3>2. cylinder' = 0 \/ cylinder' = cylinder
      BY <1>19 DEF RecalibrateEnds
    <3>3. faults' \in 0..MaxFaults
      BY ONLY <1>0, <3>1, FaultsCounted DEF FloppyTypeOK
    <3>4. cylinder' \in 0..255
      BY ONLY <1>0, <3>2 DEF FloppyTypeOK
    <3> QED BY <3>3, <3>4
  <2>1. FloppyTypeOK'
    BY ONLY <1>0, <2>0, <1>19
    DEF FloppyTypeOK, RecalibrateEnds, FloppyAssumption, driver, hardware, floppy_irq_handler
  <2>2. WriteTypeOK'
    BY ONLY <1>0, <1>19
    DEF WriteTypeOK, WriteLabel, RecalibrateEnds, writer, floppy_irq_handler
  <2>3. TriesLeft' /\ CommandOfRead' /\ CommandNames' /\ ResultIsOwn' /\ ReadGivesSector'
    BY <1>19 DEF RecalibrateEnds
  <2>4. OneCall' /\ CommandOfCall' /\ WriteIsGiven' /\ OnlyGivenOnFirstSide'
    BY <1>19 DEF RecalibrateEnds
  <2> QED BY <2>1, <2>2, <2>3, <2>4
<1>20. CASE UNCHANGED writeVars
  BY <1>20 DEF writeVars, floppy, FloppyTypeOK, WriteTypeOK
<1> QED
  BY <1>1, <1>2, <1>3, <1>4, <1>5, <1>6, <1>7, <1>8, <1>9, <1>10, <1>11, <1>12,
     <1>13, <1>14, <1>15, <1>16, <1>17, <1>18, <1>19, <1>20
  DEF WriteNext, WriteStep, CalibrateStep

\* It holds in every reachable state.
LEMMA WriteInvariant == WriteSpec => []WriteInv
<1>1. WriteInv /\ [WriteNext]_writeVars => WriteInv'
  BY WriteInvStep
<1> QED BY WriteInvInit, <1>1, PTL DEF WriteSpec

-----------------------------------------------------------------------------
(* Theorems.                                                                *)

\* floppy.c 229-267: a write that returns true has put the caller's bytes on the
\* sector it was asked for, or an error in the result bytes went unseen.
THEOREM WriteCorrect == WriteSpec => []WriteReachesSector
<1>1. WriteInv => WriteReachesSector
  BY DEF WriteInv, WriteIsGiven, WriteReachesSector
<1> QED BY WriteInvariant, <1>1, PTL

\* floppy.c 247: whatever is written, and whenever the drive does it, is given by
\* a caller and is on the first side.
THEOREM FirstSideOnly == WriteSpec => []OnlyGivenOnFirstSide
<1>1. WriteInv => OnlyGivenOnFirstSide
  BY DEF WriteInv
<1> QED BY WriteInvariant, <1>1, PTL

\* floppy.c 84-97, 150-267: reads stay correct among writes and calibrations,
\* whose late ends may meet a read's waits.
THEOREM ReadAmongWrites == WriteSpec => []ReadGivesSector
<1>1. WriteInv => ReadGivesSector
  BY DEF WriteInv, FloppyInv
<1> QED BY WriteInvariant, <1>1, PTL

-----------------------------------------------------------------------------
(* kernel_exec and the scheduler lock.                                      *)

\* Who holds the lock and where each task is, in step.
LockInv ==
  /\ epc \in [Proc -> EpcLabel]
  /\ owner \in Proc \cup {"boot", "init_fs", "none"}
  /\ LockedWhileWorking

\* The lock is init_fs's or nobody's when the programs are started.
LEMMA LockInvInit == ExecInit => LockInv
BY ExecAssumption
   DEF ExecAssumption, ExecInit, LockInv, LockedWhileWorking, EpcLabel, Working

\* A task that works goes on working, or stops in undefined behaviour, and the
\* lock stays with it.
LEMMA WorkingGoesOn ==
  ASSUME LockInv, NEW p \in Proc, NEW l \in Working, At(p, l),
         NEW m \in Working \cup {"wild"}, Goto(p, m), UNCHANGED owner
  PROVE  LockInv'
<1>1. owner = p
  BY DEF LockInv, LockedWhileWorking, At, Working
<1>2. epc' = [epc EXCEPT ![p] = m] /\ epc' \in [Proc -> EpcLabel]
  BY DEF LockInv, Goto, EpcLabel
<1>3. ASSUME NEW q \in Proc, epc'[q] # "wild" PROVE owner' = q <=> epc'[q] \in Working
  BY <1>1, <1>2, <1>3 DEF LockInv, LockedWhileWorking, Working
<1> QED BY <1>2, <1>3 DEF LockInv, LockedWhileWorking

\* A task that leaves kernel_exec gives the lock back.
LEMMA LeavingUnlocks ==
  ASSUME LockInv, NEW p \in Proc, NEW l \in Working, At(p, l),
         NEW m \in {"user", "failed", "wild"}, Goto(p, m), owner' = "none"
  PROVE  LockInv'
<1>1. owner = p
  BY DEF LockInv, LockedWhileWorking, At, Working
<1>2. epc' = [epc EXCEPT ![p] = m] /\ epc' \in [Proc -> EpcLabel]
  BY DEF LockInv, Goto, EpcLabel
<1>3. ASSUME NEW q \in Proc, epc'[q] # "wild" PROVE owner' = q <=> epc'[q] \in Working
  BY <1>1, <1>2, <1>3, ExecAssumption
  DEF ExecAssumption, LockInv, LockedWhileWorking, Working
<1> QED BY <1>2, <1>3 DEF LockInv, LockedWhileWorking

\* Steps of a task that has no lock leave it without one.
LEMMA OutsideStays ==
  ASSUME LockInv, NEW p \in Proc, owner = "none",
         NEW m \in EpcLabel \ Working, Goto(p, m), UNCHANGED owner
  PROVE  LockInv'
<1>1. epc' = [epc EXCEPT ![p] = m] /\ epc' \in [Proc -> EpcLabel]
  BY DEF LockInv, Goto, EpcLabel
<1>2. ASSUME NEW q \in Proc, epc'[q] # "wild" PROVE owner' = q <=> epc'[q] \in Working
  BY <1>1, <1>2, ExecAssumption
  DEF ExecAssumption, LockInv, LockedWhileWorking, Working
<1> QED BY <1>1, <1>2 DEF LockInv, LockedWhileWorking

\* init_fs and the boot code do not touch the tasks.
LEMMA TasksUnchanged ==
  ASSUME LockInv, UNCHANGED epc,
         \/ UNCHANGED owner
         \/ owner \notin Proc /\ owner' \in {"init_fs", "none"}
  PROVE  LockInv'
BY ExecAssumption DEF ExecAssumption, LockInv, LockedWhileWorking

\* One step of kernel_exec or load_elf.
LEMMA ExecStepKeepsLock ==
  ASSUME LockInv, NEW p \in Proc, ExecStep(p)
  PROVE  LockInv'
<1> USE DEF Working
<1>1. CASE Copy(p)
  BY <1>1, WorkingGoesOn DEF Copy
<1>2. CASE CopyFailed(p)
  BY <1>2, LeavingUnlocks DEF CopyFailed
<1>3. CASE SizeFails(p) \/ FileFails(p) \/ SegmentFails(p)
  BY <1>3, LeavingUnlocks DEF SizeFails, FileFails, SegmentFails, Returned, Fail
<1>4. CASE SizeKnown(p)
  BY <1>4, WorkingGoesOn DEF SizeKnown, Returned
<1>5. CASE ReadFile(p)
  BY <1>5, WorkingGoesOn DEF ReadFile
<1>6. CASE FileRead(p)
  BY <1>6, WorkingGoesOn DEF FileRead, Returned
<1>7. CASE AddSegment(p)
  BY <1>7, TasksUnchanged DEF AddSegment
<1>8. CASE AddStack(p)
  BY <1>8, WorkingGoesOn DEF AddStack
<1>9. CASE MapStack(p)
  BY <1>9, WorkingGoesOn, TasksUnchanged DEF MapStack
<1>10. CASE ToRing3(p)
  BY <1>10, LeavingUnlocks DEF ToRing3
<1> QED
  BY <1>1, <1>2, <1>3, <1>4, <1>5, <1>6, <1>7, <1>8, <1>9, <1>10 DEF ExecStep

\* Every step keeps the lock with the task that works under it.
LEMMA LockInvStep ==
  ASSUME LockInv, [ExecNext]_execVars
  PROVE  LockInv'
<1>1. ASSUME NEW p \in Proc, ExecCall(p) PROVE LockInv'
  <2>1. epc \in [Proc -> EpcLabel] /\ owner = "none"
    BY <1>1 DEF LockInv, ExecCall
  <2>2. CASE owner' = p /\ Goto(p, "mm")
    <3>1. epc' = [epc EXCEPT ![p] = "mm"] /\ epc' \in [Proc -> EpcLabel]
      BY <2>1, <2>2 DEF Goto, EpcLabel, Working
    <3>2. ASSUME NEW q \in Proc, epc'[q] # "wild" PROVE owner' = q <=> epc'[q] \in Working
      BY <2>1, <2>2, <3>1, <3>2, ExecAssumption
      DEF ExecAssumption, LockInv, LockedWhileWorking, Working
    <3> QED BY <2>2, <3>1, <3>2 DEF LockInv, LockedWhileWorking
  <2>3. CASE Goto(p, "failed") /\ UNCHANGED owner
    BY <2>1, <2>3, OutsideStays DEF EpcLabel, Working
  <2> QED BY <1>1, <2>2, <2>3 DEF ExecCall
<1>2. ASSUME NEW p \in Proc, ExecStep(p) PROVE LockInv'
  BY <1>2, ExecStepKeepsLock
<1>3. ASSUME NEW p \in Proc, PageFault(p) PROVE LockInv'
  BY <1>3, OutsideStays, TasksUnchanged DEF PageFault, EpcLabel, Working
<1>4. ASSUME NEW p \in Proc, Exit(p) \/ CleanTask(p) PROVE LockInv'
  BY <1>4, OutsideStays DEF Exit, CleanTask, EpcLabel, Working
<1>5. CASE InitFs
  BY <1>5, TasksUnchanged, ExecAssumption DEF ExecAssumption, InitFs
<1>6. CASE InitFsDone
  BY <1>6, TasksUnchanged, ExecAssumption DEF ExecAssumption, InitFsDone
<1>7. CASE DiskStep \/ UNCHANGED execVars
  BY <1>7, TasksUnchanged DEF DiskStep, execVars, tasks
<1> QED BY <1>1, <1>2, <1>3, <1>4, <1>5, <1>6, <1>7 DEF ExecNext

\* exec.c 9-67, elfloader.c 208-254: whatever fails, a task has the scheduler
\* lock exactly while it is between the first and the last statement of
\* kernel_exec.
THEOREM LockGivenBack == ExecSpec => []LockedWhileWorking
<1>1. LockInv /\ [ExecNext]_execVars => LockInv'
  BY LockInvStep
<1>2. LockInv => LockedWhileWorking
  BY DEF LockInv
<1> QED BY LockInvInit, <1>1, <1>2, PTL DEF ExecSpec

-----------------------------------------------------------------------------
(* Address spaces.                                                          *)

\* From the copy of the kernel's tables to the end of the address space, the
\* task has a PML4.
Rooting == {"size", "content", "file", "elf", "stack", "user", "dead"}
Rooted  == \A p \in Proc : epc[p] \in Rooting => << >> \in DOMAIN tree[p]

\* The inductive invariant of the address spaces.
FramesInv == DOMAIN tree = Proc /\ PrivateFrames /\ Rooted

\* The free frames are bounded and can be counted.
LEMMA PoolBounded ==
  /\ \E last \in Nat : Frame \ used \in SUBSET (0..last)
  /\ FreeCount \in Nat
<1>1. Frame \subseteq Nat /\ \E last \in Frame : \A f \in Frame : f <= last
  BY AddressSpaceAssumption DEF AddressSpaceAssumption
<1>2. PICK last \in Nat : \A f \in Frame : f \in Nat /\ f <= last
  BY <1>1
<1>3. Frame \ used \in SUBSET (0..last)
  BY <1>2
<1>4. FreeCount \in Nat
  BY <1>3, BelowFinite DEF FreeCount
<1> QED BY <1>3, <1>4

\* alloc_pages gives free frames of the pool as long as there are any, and a
\* different one each time.
LEMMA FreeFrameIs ==
  ASSUME NEW i \in 1..FreeCount
  PROVE  /\ FreeFrame(i) \in Frame \ used
         /\ Cardinality(Below(Frame \ used, FreeFrame(i))) = i - 1
<1> DEFINE S == Frame \ used
<1>1. PICK last \in Nat : S \in SUBSET (0..last)
  BY PoolBounded
<1>2. i \in 1..Cardinality(S)
  BY DEF FreeCount
<1>3. \E f \in S : Cardinality(Below(S, f)) = i - 1
  BY <1>1, <1>2, CountedUp
<1> QED BY <1>3 DEF FreeFrame, Below

\* No two of them are the same.
LEMMA FreeFramesDiffer ==
  ASSUME NEW i \in 1..FreeCount, NEW j \in 1..FreeCount, FreeFrame(i) = FreeFrame(j)
  PROVE  i = j
<1>1. Cardinality(Below(Frame \ used, FreeFrame(i))) = i - 1
  BY FreeFrameIs
<1>2. Cardinality(Below(Frame \ used, FreeFrame(j))) = j - 1
  BY FreeFrameIs
<1>3. i \in Int /\ j \in Int
  BY PoolBounded
<1> QED BY <1>1, <1>2, <1>3

\* Every path of the kernel's tree has a place in the order of the loops.
LEMMA PositionIs ==
  ASSUME NEW x \in KernelPaths
  PROVE  /\ Position(x) \in 1..Len(KernelTree) /\ KernelTree[Position(x)] = x
         /\ x # << >>
<1>1. PICK i \in 1..Len(KernelTree) : KernelTree[i] = x
  BY DEF KernelPaths
<1>2. KernelTree \in Seq(Seq(0..(ENTRY_NUM - 1)) \ {<< >>})
  BY AddressSpaceAssumption DEF AddressSpaceAssumption
<1>3. x # << >>
  BY <1>1, <1>2
<1> QED BY <1>1, <1>3 DEF Position

\* A task's tree that keeps what it has, and gets free frames, each once, leaves
\* all frames private.
LEMMA TreeGrows ==
  ASSUME FramesInv, NEW p \in Proc, NEW t, tree' = [tree EXCEPT ![p] = t],
         used \subseteq used',
         \A x \in DOMAIN t : /\ t[x] \in Frame /\ t[x] \in used'
                             /\ t[x] \notin used \/ (x \in DOMAIN tree[p] /\ t[x] = tree[p][x]),
         \A x, y \in DOMAIN t : t[x] = t[y] => x = y
  PROVE  DOMAIN tree' = Proc /\ PrivateFrames'
<1>1. DOMAIN tree' = Proc /\ tree'[p] = t /\ \A q \in Proc : q # p => tree'[q] = tree[q]
  BY DEF FramesInv
<1>2. \A q \in Proc : \A x \in DOMAIN tree[q] : tree[q][x] \in Frame /\ tree[q][x] \in used
  BY DEF FramesInv, PrivateFrames, FramesOf
<1>3. \A q \in Proc : FramesOf(tree'[q]) \subseteq Frame \cap used'
  BY <1>1, <1>2 DEF FramesOf
<1>4. ASSUME NEW q \in Proc, NEW r \in Proc, NEW x \in DOMAIN tree'[q], NEW y \in DOMAIN tree'[r],
             tree'[q][x] = tree'[r][y]
      PROVE  q = r /\ x = y
  <2>0. \A a, b \in Proc : \A u \in DOMAIN tree[a], v \in DOMAIN tree[b] :
          tree[a][u] = tree[b][v] => a = b /\ u = v
    BY DEF FramesInv, PrivateFrames
  <2>1. CASE q = p /\ r = p
    BY <1>1, <1>4, <2>1
  <2>2. CASE q # p /\ r # p
    BY <1>1, <1>4, <2>0, <2>2
  <2>3. CASE q = p /\ r # p
    BY <1>1, <1>2, <1>4, <2>0, <2>3
  <2>4. CASE q # p /\ r = p
    BY <1>1, <1>2, <1>4, <2>0, <2>4
  <2> QED BY <2>1, <2>2, <2>3, <2>4
<1> QED BY <1>1, <1>3, <1>4 DEF PrivateFrames

\* A task that gives back frames of its own tree, and forgets the tree, leaves
\* the frames of the others alone.
LEMMA TreeDropped ==
  ASSUME FramesInv, NEW p \in Proc, NEW given, given \subseteq FramesOf(tree[p]), Free(given), Forget(p)
  PROVE  DOMAIN tree' = Proc /\ PrivateFrames'
<1>1. DOMAIN tree' = Proc /\ DOMAIN tree'[p] = {} /\ \A q \in Proc : q # p => tree'[q] = tree[q]
  BY DEF FramesInv, Forget, NoMap
<1>2. \A q, r \in Proc : \A x \in DOMAIN tree[q], y \in DOMAIN tree[r] :
        tree[q][x] = tree[r][y] => q = r /\ x = y
  BY DEF FramesInv, PrivateFrames
<1>3. \A q \in Proc : FramesOf(tree[q]) \subseteq Frame \cap used
  BY DEF FramesInv, PrivateFrames
<1>4. \A q \in Proc : q # p => FramesOf(tree[q]) \cap given = {}
  BY <1>2 DEF FramesOf
<1>5. used' = used \ given
  BY DEF Free
<1>6. \A q \in Proc : FramesOf(tree'[q]) \subseteq Frame \cap used'
  <2>1. FramesOf(tree'[p]) = {}
    BY <1>1 DEF FramesOf
  <2>2. \A q \in Proc : q # p => FramesOf(tree'[q]) = FramesOf(tree[q])
    BY <1>1 DEF FramesOf
  <2> QED BY <1>3, <1>4, <1>5, <2>1, <2>2
<1>7. \A q, r \in Proc : \A x \in DOMAIN tree'[q], y \in DOMAIN tree'[r] :
        tree'[q][x] = tree'[r][y] => q = r /\ x = y
  BY <1>1, <1>2
<1> QED BY <1>1, <1>6, <1>7 DEF PrivateFrames

\* mm_dup_pgd gives each table and each page a frame of its own.
LEMMA CopyAllKeeps ==
  ASSUME FramesInv, NEW p \in Proc, CopyAll(p)
  PROVE  DOMAIN tree' = Proc /\ PrivateFrames' /\ << >> \in DOMAIN tree'[p]
<1> DEFINE paths == KernelPaths \cup {<< >>}
           index(x) == IF x = << >> THEN 1 ELSE Position(x) + 1
           t == [x \in paths |-> IF x = << >> THEN FreeFrame(1) ELSE Copied(x)]
<1>1. tree' = [tree EXCEPT ![p] = t]
  BY DEF CopyAll
<1>2. used' = used \cup {FreeFrame(i) : i \in 1..(Len(KernelTree) + 1)}
  BY DEF CopyAll
<1>3. Len(KernelTree) \in Nat /\ FreeCount \in Nat /\ FreeCount >= Len(KernelTree) + 1
  BY PoolBounded, AddressSpaceAssumption DEF AddressSpaceAssumption, CopyAll
<1>4. ASSUME NEW x \in paths
      PROVE  t[x] = FreeFrame(index(x)) /\ index(x) \in 1..(Len(KernelTree) + 1) /\ index(x) \in 1..FreeCount
  BY <1>3, PositionIs DEF Copied
<1>5. ASSUME NEW x \in paths, NEW y \in paths, index(x) = index(y)
      PROVE  x = y
  <2>1. CASE x = << >> /\ y = << >>
    BY <2>1
  <2>2. CASE x # << >> /\ y # << >>
    <3>1. x \in KernelPaths /\ y \in KernelPaths /\ Position(x) \in Nat /\ Position(y) \in Nat
      BY <2>2, PositionIs
    <3>2. Position(x) = Position(y)
      BY <1>5, <2>2, <3>1
    <3> QED BY <3>1, <3>2, PositionIs
  <2>3. CASE x = << >> /\ y # << >>
    BY <1>5, <2>3, PositionIs
  <2>4. CASE x # << >> /\ y = << >>
    BY <1>5, <2>4, PositionIs
  <2> QED BY <2>1, <2>2, <2>3, <2>4
<1>6. DOMAIN t = paths
  OBVIOUS
<1> HIDE DEF t, index, paths
<1>7. \A x \in DOMAIN t : t[x] \in Frame /\ t[x] \in used' /\ t[x] \notin used
  <2>1. ASSUME NEW x \in DOMAIN t PROVE t[x] \in Frame /\ t[x] \in used' /\ t[x] \notin used
    <3>1. FreeFrame(index(x)) \in Frame \ used
      BY <1>4, <1>6, FreeFrameIs
    <3> QED BY <1>2, <1>4, <1>6, <3>1
  <2> QED BY <2>1
<1>8. \A x, y \in DOMAIN t : t[x] = t[y] => x = y
  BY <1>4, <1>5, <1>6, FreeFramesDiffer
<1>9. DOMAIN tree' = Proc /\ PrivateFrames'
  BY <1>1, <1>2, <1>7, <1>8, TreeGrows
<1>10. tree'[p] = t
  BY <1>1 DEF FramesInv
<1> QED BY <1>6, <1>9, <1>10 DEF paths

\* do_mmap gives each table and the page that were missing a frame of its own.
LEMMA MapPageKeeps ==
  ASSUME FramesInv, NEW p \in Proc, NEW a, MapPage(p, a)
  PROVE  DOMAIN tree' = Proc /\ PrivateFrames' /\ DOMAIN tree[p] \subseteq DOMAIN tree'[p]
<1> DEFINE miss == Missing(p, a)
           new == {Path(a, n) : n \in miss}
           index(x) == Cardinality({n \in miss : n <= Len(x)})
           at(x) == FreeFrame(index(x))
           t == [x \in DOMAIN tree[p] \cup new |-> IF x \in new THEN at(x) ELSE tree[p][x]]
<1>1. tree' = [tree EXCEPT ![p] = t] /\ used' = used \cup {at(x) : x \in new}
  BY DEF MapPage
<1>2. Cardinality(miss) <= FreeCount
  BY DEF MapPage, HasFrames
<1>3. miss \subseteq 1..4 /\ miss \in SUBSET (0..4)
  BY DEF Missing
<1>4. ASSUME NEW n \in 1..4 PROVE Len(Path(a, n)) = n
  BY <1>4 DEF Path, virtaddr2page
<1>5. ASSUME NEW n \in miss
      PROVE  index(Path(a, n)) = Cardinality(Below(miss, n)) + 1
  <2>1. {m \in miss : m <= n} = Below(miss, n) \cup {n} /\ n \notin Below(miss, n)
    BY <1>3 DEF Below
  <2>2. IsFiniteSet(Below(miss, n)) /\ Cardinality(Below(miss, n)) \in Nat
    BY <1>3, BelowFinite
  <2>3. Len(Path(a, n)) = n
    BY <1>3, <1>4
  <2>4. index(Path(a, n)) = Cardinality(Below(miss, n) \cup {n})
    BY <2>1, <2>3
  <2>5. Cardinality(Below(miss, n) \cup {n}) = Cardinality(Below(miss, n)) + 1
    BY <2>1, <2>2, FS_AddElement
  <2> QED BY <2>4, <2>5
<1>6. IsFiniteSet(miss) /\ Cardinality(miss) \in Nat /\ \A n : Cardinality(Below(miss, n)) \in Nat
  BY <1>3, BelowFinite
<1> HIDE DEF t, index, miss
<1>7. ASSUME NEW n \in miss PROVE index(Path(a, n)) \in 1..FreeCount
  <2>1. Below(miss, n) \subseteq miss \ {n}
    BY <1>3 DEF Below
  <2>2. IsFiniteSet(miss \ {n}) /\ Cardinality(miss \ {n}) = Cardinality(miss) - 1
    BY <1>6, FS_RemoveElement
  <2>3. Cardinality(Below(miss, n)) <= Cardinality(miss) - 1
    BY <2>1, <2>2, FS_Subset
  <2> QED BY <1>2, <1>5, <1>6, <2>3, PoolBounded
<1>8. ASSUME NEW n \in miss, NEW m \in miss, index(Path(a, n)) = index(Path(a, m))
      PROVE  n = m
  <2>1. Cardinality(Below(miss, n)) = Cardinality(Below(miss, m))
    BY <1>5, <1>6, <1>8
  <2>2. n \in Int /\ m \in Int
    BY <1>3
  <2>3. ~(n < m) /\ ~(m < n)
    BY <1>3, <1>6, <2>1, BelowGrows
  <2> QED BY <2>2, <2>3
<1>9. DOMAIN t = DOMAIN tree[p] \cup new
      /\ \A x \in DOMAIN t : t[x] = IF x \in new THEN at(x) ELSE tree[p][x]
  BY DEF t
<1>10. \A x \in new : at(x) \in Frame /\ at(x) \notin used /\ at(x) \in used'
  <2>1. ASSUME NEW x \in new PROVE at(x) \in Frame /\ at(x) \notin used /\ at(x) \in used'
    <3>1. index(x) \in 1..FreeCount
      BY <1>7
    <3> QED BY <1>1, <3>1, FreeFrameIs
  <2> QED BY <2>1
<1>11. \A x, y \in new : at(x) = at(y) => x = y
  <2>1. ASSUME NEW n \in miss, NEW m \in miss, at(Path(a, n)) = at(Path(a, m))
        PROVE  n = m
    BY <1>7, <1>8, <2>1, FreeFramesDiffer
  <2> QED BY <2>1
<1> HIDE DEF new, at
<1>12. \A x \in DOMAIN tree[p] : tree[p][x] \in Frame /\ tree[p][x] \in used
  BY DEF FramesInv, PrivateFrames, FramesOf
<1>13. \A x, y \in DOMAIN tree[p] : tree[p][x] = tree[p][y] => x = y
  BY DEF FramesInv, PrivateFrames
<1>14. used \subseteq used'
  BY <1>1
<1>15. \A x \in DOMAIN t : /\ t[x] \in Frame /\ t[x] \in used'
                           /\ t[x] \notin used \/ (x \in DOMAIN tree[p] /\ t[x] = tree[p][x])
  BY <1>9, <1>10, <1>12, <1>14
<1>16. \A x, y \in DOMAIN t : t[x] = t[y] => x = y
  BY <1>9, <1>10, <1>11, <1>12, <1>13
<1>17. DOMAIN tree' = Proc /\ PrivateFrames'
  BY <1>1, <1>14, <1>15, <1>16, TreeGrows
<1>18. tree'[p] = t
  BY <1>1 DEF FramesInv
<1> QED BY <1>9, <1>17, <1>18

\* Frames that alloc_pages gives to nobody's tree do no harm.
LEMMA LostFrames ==
  ASSUME FramesInv, UNCHANGED tree, used \subseteq used'
  PROVE  DOMAIN tree' = Proc /\ PrivateFrames'
<1> QED BY DEF FramesInv, PrivateFrames, FramesOf

\* A task that goes on with the PML4 it has, or to where it needs none.
LEMMA StaysRooted ==
  ASSUME LockInv, Rooted, NEW p \in Proc, NEW m, Goto(p, m),
         m \in Rooting => << >> \in DOMAIN tree'[p],
         \A q \in Proc : q # p => tree'[q] = tree[q]
  PROVE  Rooted'
<1>1. epc' = [epc EXCEPT ![p] = m] /\ DOMAIN epc = Proc
  BY DEF LockInv, Goto
<1>2. epc'[p] = m /\ \A q \in Proc : q # p => epc'[q] = epc[q]
  BY <1>1
<1>3. ASSUME NEW q \in Proc, epc'[q] \in Rooting PROVE << >> \in DOMAIN tree'[q]
  <2>1. CASE q = p
    BY <1>2, <1>3, <2>1
  <2>2. CASE q # p
    BY <1>2, <1>3, <2>2 DEF Rooted, Rooting
  <2> QED BY <2>1, <2>2
<1> QED BY <1>3 DEF Rooted, Rooting

\* The steps that give nobody a frame and take none away.
LEMMA NoFrameMoves ==
  ASSUME FramesInv, LockInv, UNCHANGED <<used, tree>>, NEW p \in Proc, NEW m,
         UNCHANGED epc \/ (Goto(p, m) /\ (m \in Rooting => epc[p] \in Rooting))
  PROVE  FramesInv'
<1>1. DOMAIN tree' = Proc /\ PrivateFrames'
  BY LostFrames
<1>2. Rooted /\ tree' = tree
  BY DEF FramesInv
<1>3. CASE UNCHANGED epc
  BY <1>1, <1>2, <1>3 DEF FramesInv, Rooted
<1>4. CASE Goto(p, m) /\ (m \in Rooting => epc[p] \in Rooting)
  <2>1. m \in Rooting => << >> \in DOMAIN tree'[p]
    BY <1>2, <1>4 DEF Rooted, Rooting
  <2>2. Rooted'
    BY <1>2, <1>4, <2>1, StaysRooted
  <2> QED BY <1>1, <2>2 DEF FramesInv
<1> QED BY <1>3, <1>4

\* Frames go to p's tree alone, and p goes on or stays where it is.
LEMMA FramesMove ==
  ASSUME FramesInv, LockInv, NEW p \in Proc, NEW m,
         DOMAIN tree' = Proc /\ PrivateFrames',
         \A q \in Proc : q # p => tree'[q] = tree[q],
         \/ Goto(p, m) /\ (m \in Rooting => << >> \in DOMAIN tree'[p])
         \/ UNCHANGED epc /\ DOMAIN tree[p] \subseteq DOMAIN tree'[p]
  PROVE  FramesInv'
<1>1. CASE Goto(p, m) /\ (m \in Rooting => << >> \in DOMAIN tree'[p])
  <2>1. Rooted'
    BY <1>1, StaysRooted DEF FramesInv
  <2> QED BY <2>1 DEF FramesInv
<1>2. CASE UNCHANGED epc /\ DOMAIN tree[p] \subseteq DOMAIN tree'[p]
  <2>1. \A q \in Proc : DOMAIN tree[q] \subseteq DOMAIN tree'[q]
    BY <1>2
  <2>2. Rooted'
    BY <1>2, <2>1 DEF FramesInv, Rooted
  <2> QED BY <2>2 DEF FramesInv
<1> QED BY <1>1, <1>2

\* mm_clean_pgd and the error paths of kernel_exec: what is freed is p's own.
LEMMA FailKeepsFrames ==
  ASSUME FramesInv, LockInv, NEW p \in Proc, epc[p] \in Rooting, Fail(p)
  PROVE  FramesInv'
<1> DEFINE given == Cleaned(tree[p]) \cup {tree[p][<< >>]}
<1>1. << >> \in DOMAIN tree[p]
  BY DEF FramesInv, Rooted, Rooting
<1>2. given \subseteq FramesOf(tree[p])
  BY <1>1 DEF FramesOf, Cleaned
<1>3. Free(given) /\ Forget(p) /\ Goto(p, "failed")
  BY DEF Fail, DropFailed
<1>4. DOMAIN tree' = Proc /\ PrivateFrames'
  BY <1>2, <1>3, TreeDropped
<1>5. \A q \in Proc : q # p => tree'[q] = tree[q]
  BY <1>3 DEF FramesInv, Forget
<1>6. "failed" \notin Rooting
  BY DEF Rooting
<1> QED BY <1>3, <1>4, <1>5, <1>6, FramesMove

\* do_ummap_user and mm_clean.
LEMMA CleanKeepsFrames ==
  ASSUME FramesInv, LockInv, NEW p \in Proc, CleanTask(p)
  PROVE  FramesInv'
<1>1. Unmapped(tree[p]) \subseteq FramesOf(tree[p])
  BY DEF FramesOf, Unmapped
<1>2. Free(Unmapped(tree[p])) /\ Forget(p) /\ Goto(p, "none")
  BY DEF CleanTask, Unmap
<1>3. DOMAIN tree' = Proc /\ PrivateFrames'
  BY <1>1, <1>2, TreeDropped
<1>4. \A q \in Proc : q # p => tree'[q] = tree[q]
  BY <1>2 DEF FramesInv, Forget
<1>5. "none" \notin Rooting
  BY DEF Rooting
<1> QED BY <1>2, <1>3, <1>4, <1>5, FramesMove

\* do_mmap for the stack and from the page fault.
LEMMA MapKeepsFrames ==
  ASSUME FramesInv, LockInv, NEW p \in Proc, NEW a, MapPage(p, a), UNCHANGED epc
  PROVE  FramesInv'
<1>1. DOMAIN tree' = Proc /\ PrivateFrames' /\ DOMAIN tree[p] \subseteq DOMAIN tree'[p]
  BY MapPageKeeps
<1>2. \A q \in Proc : q # p => tree'[q] = tree[q]
  BY DEF MapPage, FramesInv
<1> QED BY <1>1, <1>2, FramesMove

\* mm_dup_pgd: the whole copy, or what is left of one that failed.
LEMMA CopyKeepsFrames ==
  ASSUME FramesInv, LockInv, NEW p \in Proc, Copy(p) \/ CopyFailed(p)
  PROVE  FramesInv'
<1>1. CASE Copy(p)
  <2>1. CopyAll(p) /\ Goto(p, "size")
    BY <1>1 DEF Copy
  <2>2. DOMAIN tree' = Proc /\ PrivateFrames' /\ << >> \in DOMAIN tree'[p]
    BY <2>1, CopyAllKeeps
  <2>3. \A q \in Proc : q # p => tree'[q] = tree[q]
    BY <2>1 DEF CopyAll, FramesInv
  <2> QED BY <2>1, <2>2, <2>3, FramesMove
<1>2. CASE CopyFailed(p)
  <2>1. UNCHANGED tree /\ used \subseteq used'
    BY <1>2 DEF CopyFailed, CopyFails
  <2>2. DOMAIN tree' = Proc /\ PrivateFrames'
    BY <2>1, LostFrames
  <2>3. PICK m \in {"wild", "failed"} : Goto(p, m)
    BY <1>2 DEF CopyFailed
  <2>4. m \notin Rooting
    BY DEF Rooting
  <2> QED BY <2>1, <2>2, <2>3, <2>4, FramesMove
<1> QED BY <1>1, <1>2

\* One step of kernel_exec or load_elf keeps the frames private.
LEMMA ExecStepKeepsFrames ==
  ASSUME FramesInv, LockInv, NEW p \in Proc, ExecStep(p)
  PROVE  FramesInv'
<1>1. CASE Copy(p) \/ CopyFailed(p)
  BY <1>1, CopyKeepsFrames
<1>2. CASE SizeFails(p) \/ FileFails(p) \/ SegmentFails(p)
  <2>1. epc[p] \in {"size", "file", "elf"} /\ Fail(p)
    BY <1>2 DEF SizeFails, FileFails, SegmentFails, Returned, At
  <2>2. epc[p] \in Rooting
    BY <2>1 DEF Rooting
  <2> QED BY <2>1, <2>2, FailKeepsFrames
<1>3. CASE SizeKnown(p)
  BY <1>3, NoFrameMoves DEF SizeKnown, Returned, At, mem, Rooting
<1>4. CASE ReadFile(p)
  BY <1>4, NoFrameMoves DEF ReadFile, At, mem, Rooting
<1>5. CASE FileRead(p)
  BY <1>5, NoFrameMoves DEF FileRead, Returned, At, mem, Rooting
<1>6. CASE AddSegment(p)
  BY <1>6, NoFrameMoves DEF AddSegment, AddArea
<1>7. CASE AddStack(p)
  BY <1>7, NoFrameMoves DEF AddStack, AddArea, At, mem, Rooting
<1>8. CASE MapStack(p)
  BY <1>8, NoFrameMoves, MapKeepsFrames DEF MapStack, mem, Rooting
<1>9. CASE ToRing3(p)
  BY <1>9, NoFrameMoves DEF ToRing3, At, Rooting
<1> QED
  BY <1>1, <1>2, <1>3, <1>4, <1>5, <1>6, <1>7, <1>8, <1>9 DEF ExecStep

\* Every step keeps the frames private.
LEMMA FramesInvStep ==
  ASSUME FramesInv, LockInv, [ExecNext]_execVars
  PROVE  FramesInv'
<1>1. ASSUME NEW p \in Proc, ExecCall(p) PROVE FramesInv'
  BY <1>1, NoFrameMoves DEF ExecCall, mem, Rooting
<1>2. ASSUME NEW p \in Proc, ExecStep(p) PROVE FramesInv'
  BY <1>2, ExecStepKeepsFrames
<1>3. ASSUME NEW p \in Proc, PageFault(p) PROVE FramesInv'
  BY <1>3, NoFrameMoves, MapKeepsFrames DEF PageFault, mem, Rooting
<1>4. ASSUME NEW p \in Proc, Exit(p) PROVE FramesInv'
  BY <1>4, NoFrameMoves DEF Exit, At, mem, Rooting
<1>5. ASSUME NEW p \in Proc, CleanTask(p) PROVE FramesInv'
  BY <1>5, CleanKeepsFrames
<1>6. CASE InitFs \/ InitFsDone \/ DiskStep \/ UNCHANGED execVars
  <2>1. UNCHANGED <<used, tree, epc>>
    BY <1>6 DEF InitFs, InitFsDone, DiskStep, mem, tasks, execVars
  <2> QED BY <2>1, LostFrames DEF FramesInv, Rooted
<1> QED BY <1>1, <1>2, <1>3, <1>4, <1>5, <1>6 DEF ExecNext

\* No task has a PML4 when the programs are started.
LEMMA FramesInvInit == ExecInit => FramesInv
BY DEF ExecInit, AddressSpaceInit, FramesInv, PrivateFrames, FramesOf, Rooted, Rooting, NoMap

\* mm.c 34-170, pagemanager.c 161-325: for every pool of frames and every tree of
\* the kernel, whatever fails and however often programs are started, a frame is
\* the table or the page of at most one path of one task, it is one of the pool,
\* and alloc_pages does not give it away while it is mapped.
THEOREM FramesPrivate == ExecSpec => []PrivateFrames
<1>1. LockInv /\ FramesInv /\ [ExecNext]_execVars => LockInv' /\ FramesInv'
  BY LockInvStep, FramesInvStep
<1>2. FramesInv => PrivateFrames
  BY DEF FramesInv
<1> QED BY LockInvInit, FramesInvInit, <1>1, <1>2, PTL DEF ExecSpec

-----------------------------------------------------------------------------
(* What the pages hold.                                                     *)

\* The pages of an address space are filled only from the stack's mapping on.
Mapping == {"stack", "user", "dead", "wild"}

IsStack(area) == area.vm_flags = 0 /\ area.vm_start = StackStart /\ area.vm_end = StackEnd

\* What a page holds, with the areas around it.
PageHolds(areas, v, bytes) ==
  \A i \in 1..Len(areas) :
    /\ areas[i].vm_flags = PT_LOAD
    /\ \A j \in 1..Len(areas) : Overlaps(areas[j], v) <=> j = i
    /\ areas[i].vm_start <= v * PAGE_SIZE
    => \A b \in 0..(PAGE_SIZE - 1) :
         bytes[b + 1] = IF v * PAGE_SIZE + b < areas[i].vm_end
                        THEN <<"content", areas[i].vm_pgoff + (v * PAGE_SIZE + b) - areas[i].vm_start>>
                        ELSE Zero

\* While a page is filled the task has the whole file, or the page is of the
\* stack; while segments are added nobody calls the file system.
ImageOK(p) ==
  /\ epc[p] \notin Mapping => DOMAIN loaded[p] = {}
  /\ IsFiniteSet(DOMAIN loaded[p])
  /\ epc[p] = "elf" => HasHeader /\ awaits = "none"
  /\ epc[p] = "stack" => \E i \in 1..Len(mm[p].mmap) : IsStack(mm[p].mmap[i])
  /\ epc[p] = "user" => mm[p].elf_content = "content"
  /\ \A v \in DOMAIN loaded[p] : PageHolds(mm[p].mmap, v, loaded[p][v])

\* The inductive invariant of what is mapped.
ImageInv ==
  /\ mm \in [Proc -> mm_struct] /\ DOMAIN loaded = Proc
  /\ \A p \in Proc : ImageOK(p)

\* The page of an address, and where it begins and ends.
LEMMA PageBounds ==
  ASSUME NEW a \in Nat
  PROVE  /\ Page(a) \in Nat /\ Page(a) * PAGE_SIZE \in Nat
         /\ Page(a) * PAGE_SIZE <= a /\ a < Page(a) * PAGE_SIZE + PAGE_SIZE
         /\ (Page(a) + 1) * PAGE_SIZE = Page(a) * PAGE_SIZE + PAGE_SIZE
<1>1. PAGE_SIZE \in Nat /\ PAGE_SIZE > 0
  BY AddressSpaceAssumption DEF AddressSpaceAssumption
<1>2. PICK q : q = a \div PAGE_SIZE
  OBVIOUS
<1>3. q \in Nat /\ a = q * PAGE_SIZE + (a % PAGE_SIZE) /\ a % PAGE_SIZE \in 0..(PAGE_SIZE - 1)
  BY <1>1, <1>2
<1>4. q * PAGE_SIZE \in Nat /\ (q + 1) * PAGE_SIZE = q * PAGE_SIZE + PAGE_SIZE
  BY <1>1, <1>3
<1> QED BY <1>1, <1>2, <1>3, <1>4 DEF Page

\* A byte lies in the page whose number it is made from.
LEMMA PageOfByte ==
  ASSUME NEW v \in Nat, NEW b \in 0..(PAGE_SIZE - 1)
  PROVE  v * PAGE_SIZE + b \in Nat /\ Page(v * PAGE_SIZE + b) = v
<1>1. PAGE_SIZE \in Nat /\ PAGE_SIZE > 0
  BY AddressSpaceAssumption DEF AddressSpaceAssumption
<1>2. v * PAGE_SIZE \in Nat
  BY <1>1
<1>3. v * PAGE_SIZE + b \in Nat
  BY <1>1, <1>2
<1>4. PICK q : q = Page(v * PAGE_SIZE + b)
  OBVIOUS
<1>5. /\ q \in Nat /\ q * PAGE_SIZE \in Nat
      /\ q * PAGE_SIZE <= v * PAGE_SIZE + b /\ v * PAGE_SIZE + b < q * PAGE_SIZE + PAGE_SIZE
  BY <1>3, <1>4, PageBounds
<1>6. ~(q < v)
  <2>1. SUFFICES ASSUME q + 1 <= v PROVE FALSE
    BY <1>5
  <2>2. PICK d \in Nat : v = q + 1 + d
    BY <1>5, <2>1
  <2>3. v * PAGE_SIZE = q * PAGE_SIZE + PAGE_SIZE + d * PAGE_SIZE /\ d * PAGE_SIZE \in Nat
    BY <1>1, <1>5, <2>2
  <2> QED BY <1>1, <1>5, <2>3
<1>7. ~(v < q)
  <2>1. SUFFICES ASSUME v + 1 <= q PROVE FALSE
    BY <1>5
  <2>2. PICK d \in Nat : q = v + 1 + d
    BY <1>5, <2>1
  <2>3. q * PAGE_SIZE = v * PAGE_SIZE + PAGE_SIZE + d * PAGE_SIZE /\ d * PAGE_SIZE \in Nat
    BY <1>1, <1>2, <2>2
  <2> QED BY <1>1, <1>2, <1>5, <2>3
<1> QED BY <1>3, <1>4, <1>5, <1>6, <1>7

\* The program headers of a file.
LEMMA ProgramHeaders ==
  ASSUME NEW hdr \in Elf64_Ehdr
  PROVE  hdr.e_phdr \in Seq(Elf64_Phdr)
BY DEF Elf64_Ehdr

\* The numbers of an area.
LEMMA AreaFields ==
  ASSUME NEW areas \in Seq(vm_area_struct), NEW j \in 1..Len(areas)
  PROVE  areas[j].vm_start \in Nat /\ areas[j].vm_end \in Nat /\ areas[j].vm_pgoff \in Nat
<1>1. areas[j] \in vm_area_struct
  OBVIOUS
<1> QED BY <1>1 DEF vm_area_struct

\* An area that holds an address lies on the page of it.
LEMMA HoldsOverlaps ==
  ASSUME NEW areas \in Seq(vm_area_struct), NEW j \in 1..Len(areas), NEW a \in Nat,
         areas[j].vm_start <= a, a < areas[j].vm_end
  PROVE  Overlaps(areas[j], Page(a))
<1>1. PICK start, end : start = areas[j].vm_start /\ end = areas[j].vm_end
  OBVIOUS
<1>2. start \in Nat /\ end \in Nat /\ start <= a /\ a < end
  BY <1>1, AreaFields
<1>3. PICK at : at = Page(a) * PAGE_SIZE
  OBVIOUS
<1>4. at \in Nat /\ at <= a /\ a < at + PAGE_SIZE /\ (Page(a) + 1) * PAGE_SIZE = at + PAGE_SIZE
  BY <1>3, PageBounds
<1>5. PAGE_SIZE \in Nat
  BY AddressSpaceAssumption DEF AddressSpaceAssumption
<1>6. start < at + PAGE_SIZE /\ at < end
  BY <1>2, <1>4, <1>5
<1> QED BY <1>1, <1>3, <1>4, <1>6 DEF Overlaps

\* do_mmap fills a page of a single segment with what the segment says.
LEMMA FillHolds ==
  ASSUME NEW p \in Proc, mm \in [Proc -> mm_struct], mm[p].elf_content = "content",
         NEW a \in Nat, AreasOf(p, a) # {}
  PROVE  PageHolds(mm[p].mmap, Page(a), Fill(p, a))
<1>1. PICK areas : areas = mm[p].mmap
  OBVIOUS
<1>2. areas \in Seq(vm_area_struct)
  BY <1>1 DEF mm_struct
<1>3. PAGE_SIZE \in Nat /\ PAGE_SIZE > 0
  BY AddressSpaceAssumption DEF AddressSpaceAssumption
<1>4. PICK v : v = Page(a)
  OBVIOUS
<1>5. PICK at : at = v * PAGE_SIZE
  OBVIOUS
<1>6. at \in Nat
  BY <1>4, <1>5, PageBounds
<1> SUFFICES ASSUME NEW i \in 1..Len(areas),
                    \A j \in 1..Len(areas) : Overlaps(areas[j], v) <=> j = i,
                    areas[i].vm_start <= at,
                    NEW b \in 0..(PAGE_SIZE - 1)
             PROVE  Fill(p, a)[b + 1]
                      = IF at + b < areas[i].vm_end
                        THEN <<"content", areas[i].vm_pgoff + (at + b) - areas[i].vm_start>>
                        ELSE Zero
  BY <1>1, <1>4, <1>5 DEF PageHolds
<1>7. PICK start, end, off : areas[i].vm_start = start /\ areas[i].vm_end = end /\ areas[i].vm_pgoff = off
  OBVIOUS
<1>8. start \in Nat /\ end \in Nat /\ off \in Nat /\ start <= at
  BY <1>2, <1>7, AreaFields
<1>9. \A j \in AreasOf(p, a) : j = i
  BY <1>1, <1>2, <1>4, HoldsOverlaps DEF AreasOf
<1>10. AreasOf(p, a) = {i}
  BY <1>9
<1>11. AreaOf(p, a) = areas[i]
  BY <1>1, <1>10 DEF AreaOf
<1>12. PageStart(a) = at
  BY <1>4, <1>5 DEF PageStart
<1>13. PICK len : len = FillLength(areas[i], a)
  OBVIOUS
<1>14. len = IF at + PAGE_SIZE > end THEN end - at ELSE PAGE_SIZE
  BY <1>7, <1>12, <1>13 DEF FillLength
<1>15. PICK src : src = off + (IF at > start THEN at - start ELSE 0)
  OBVIOUS
<1>16. src = off + at - start
  BY <1>6, <1>8, <1>15
<1>17. Fill(p, a) = memcpy(memset(Zero, PAGE_SIZE), From(p, src), len)
  BY <1>7, <1>11, <1>12, <1>13, <1>15 DEF Fill
<1>18. b + 1 \in 1..PAGE_SIZE
  BY <1>3
<1>19. Fill(p, a)[b + 1] = IF b + 1 <= len THEN <<"content", src + (b + 1) - 1>> ELSE Zero
  BY <1>17, <1>18 DEF memcpy, memset, From
<1>20. b + 1 <= len <=> at + b < end
  BY <1>3, <1>6, <1>8, <1>14
<1>21. src + (b + 1) - 1 = off + (at + b) - start
  BY <1>3, <1>6, <1>8, <1>16
<1> QED BY <1>7, <1>19, <1>20, <1>21

\* A page of the stack has the stack's area on it, so that no single segment
\* says what it holds.
LEMMA StackPageHolds ==
  ASSUME NEW areas \in Seq(vm_area_struct), NEW k \in 1..Len(areas), IsStack(areas[k]),
         NEW a \in Nat, StackStart <= a, a < StackEnd, NEW bytes
  PROVE  PageHolds(areas, Page(a), bytes)
<1>1. Overlaps(areas[k], Page(a))
  BY HoldsOverlaps DEF IsStack
<1>2. ASSUME NEW i \in 1..Len(areas), areas[i].vm_flags = PT_LOAD,
             \A j \in 1..Len(areas) : Overlaps(areas[j], Page(a)) <=> j = i
      PROVE  FALSE
  BY <1>1, <1>2 DEF IsStack, PT_LOAD
<1> QED BY <1>2 DEF PageHolds

\* A task that a step leaves alone.
LEMMA LeftAlone ==
  ASSUME NEW q \in Proc, ImageOK(q), epc'[q] = epc[q], mm'[q] = mm[q], loaded'[q] = loaded[q],
         epc[q] = "elf" => UNCHANGED <<awaits, out>>
  PROVE  ImageOK(q)'
<1>1. epc[q] = "elf" => HasHeader' = HasHeader
  BY DEF HasHeader
<1> QED BY <1>1 DEF ImageOK

\* A task that goes on while nothing is mapped and no area is added.
LEMMA ImageStays ==
  ASSUME ImageInv, LockInv, NEW p \in Proc, UNCHANGED <<mm, loaded>>,
         NEW m, Goto(p, m), m \notin {"stack", "user"},
         m \in Mapping \/ epc[p] \notin Mapping,
         m = "elf" => HasHeader /\ awaits = "none",
         \/ UNCHANGED <<awaits, out>>
         \/ m # "elf" /\ \A q \in Proc : epc[q] # "elf" \/ q = p
  PROVE  ImageInv'
<1>1. epc' = [epc EXCEPT ![p] = m] /\ DOMAIN epc = Proc
  BY DEF LockInv, Goto
<1>2. epc'[p] = m /\ \A q \in Proc : q # p => epc'[q] = epc[q]
  BY <1>1
<1>3. \A q \in Proc : q # p => ImageOK(q)'
  BY <1>2, LeftAlone DEF ImageInv
<1>4. ImageOK(p)'
  <2>1. m = "elf" => (HasHeader /\ awaits = "none")'
    BY DEF HasHeader
  <2> QED BY <1>2, <2>1 DEF ImageInv, ImageOK
<1>5. (mm \in [Proc -> mm_struct] /\ DOMAIN loaded = Proc)'
  BY DEF ImageInv
<1> QED BY <1>3, <1>4, <1>5 DEF ImageInv

\* Nobody adds segments while another task works or nobody does.
LEMMA OneAdds ==
  ASSUME LockInv, NEW p, (epc[p] \in Working /\ p \in Proc) \/ owner \notin Proc,
         \A q \in Proc : epc[q] # "wild"
  PROVE  \A q \in Proc : epc[q] = "elf" => q = p
BY DEF LockInv, LockedWhileWorking, Working

\* The end of an address space.
LEMMA ForgetKeepsImage ==
  ASSUME ImageInv, LockInv, NEW p \in Proc, Forget(p), NEW m \in {"none", "failed"}, Goto(p, m),
         UNCHANGED <<awaits, out>>
  PROVE  ImageInv'
<1>1. epc' = [epc EXCEPT ![p] = m] /\ DOMAIN epc = Proc
  BY DEF LockInv, Goto
<1>2. epc'[p] = m /\ \A q \in Proc : q # p => epc'[q] = epc[q]
  BY <1>1
<1>3. mm' = [mm EXCEPT ![p] = ZeroedMm] /\ loaded' = [loaded EXCEPT ![p] = NoMap]
  BY DEF Forget
<1>4. ZeroedMm \in mm_struct
  BY DEF ZeroedMm, mm_struct
<1>5. (mm \in [Proc -> mm_struct] /\ DOMAIN loaded = Proc)'
  BY <1>3, <1>4 DEF ImageInv
<1>6. \A q \in Proc : q # p => ImageOK(q)'
  BY <1>2, <1>3, LeftAlone DEF ImageInv
<1>7. DOMAIN loaded'[p] = {}
  BY <1>3 DEF ImageInv, NoMap
<1>8. ImageOK(p)'
  BY <1>2, <1>7, FS_EmptySet DEF ImageOK
<1> QED BY <1>5, <1>6, <1>8 DEF ImageInv

\* A new area, before anything is mapped.
LEMMA AreaKeepsImage ==
  ASSUME ImageInv, LockInv, NEW p \in Proc, epc[p] = "elf",
         NEW start \in Nat, NEW end \in Nat, NEW flags \in Nat, NEW off \in Nat,
         AddArea(p, start, end, flags, off), UNCHANGED <<awaits, out>>,
         \/ UNCHANGED epc
         \/ Goto(p, "stack") /\ flags = 0 /\ start = StackStart /\ end = StackEnd
  PROVE  ImageInv'
<1> DEFINE area == [vm_start |-> start, vm_end |-> end, vm_flags |-> flags, vm_pgoff |-> off]
<1>1. mm' = [mm EXCEPT ![p].mmap = Append(@, area)] /\ loaded' = loaded
  BY DEF AddArea
<1>2. area \in vm_area_struct
  BY DEF vm_area_struct
<1>3. mm[p] \in mm_struct
  BY DEF ImageInv
<1>4. mm'[p] = [mm[p] EXCEPT !.mmap = Append(@, area)] /\ \A q \in Proc : q # p => mm'[q] = mm[q]
  BY <1>1 DEF ImageInv
<1>5. mm'[p].mmap = Append(mm[p].mmap, area) /\ mm[p].mmap \in Seq(vm_area_struct)
  BY <1>3, <1>4 DEF mm_struct
<1> HIDE DEF area
<1>6. Append(mm[p].mmap, area) \in Seq(vm_area_struct)
  BY <1>2, <1>5
<1>7. mm'[p] \in mm_struct
  BY <1>3, <1>4, <1>6 DEF mm_struct
<1>8. (mm \in [Proc -> mm_struct] /\ DOMAIN loaded = Proc)'
  BY <1>1, <1>4, <1>7 DEF ImageInv
<1>9. \A q \in Proc : q # p => epc'[q] = epc[q]
  <2>1. DOMAIN epc = Proc
    BY DEF LockInv
  <2> QED BY <2>1 DEF Goto
<1>10. \A q \in Proc : q # p => ImageOK(q)'
  BY <1>1, <1>4, <1>9, LeftAlone DEF ImageInv
<1>11. DOMAIN loaded'[p] = {}
  BY <1>1 DEF ImageInv, ImageOK, Mapping
<1>12. ImageOK(p)'
  <2>1. IsFiniteSet(DOMAIN loaded'[p])
    BY <1>11, FS_EmptySet
  <2>2. CASE UNCHANGED epc
    <3>1. (HasHeader /\ awaits = "none")'
      BY DEF ImageInv, ImageOK, HasHeader
    <3> QED BY <1>11, <2>1, <2>2, <3>1 DEF ImageOK
  <2>3. CASE Goto(p, "stack") /\ flags = 0 /\ start = StackStart /\ end = StackEnd
    <3>1. epc'[p] = "stack"
      BY <2>3 DEF LockInv, Goto
    <3>2. IsStack(area)
      BY <2>3 DEF IsStack, area
    <3>3. Len(mm[p].mmap) + 1 \in 1..Len(mm'[p].mmap) /\ mm'[p].mmap[Len(mm[p].mmap) + 1] = area
      BY <1>2, <1>5
    <3> QED BY <1>11, <2>1, <3>1, <3>2, <3>3 DEF ImageOK
  <2> QED BY <2>2, <2>3
<1> QED BY <1>8, <1>10, <1>12 DEF ImageInv

\* do_mmap for the stack and from the page fault.
LEMMA MapKeepsImage ==
  ASSUME ImageInv, LockInv, NEW p \in Proc, NEW a \in Nat, MapPage(p, a),
         epc[p] = "user" \/ (epc[p] = "stack" /\ StackStart <= a /\ a < StackEnd),
         UNCHANGED <<epc, awaits, out>>
  PROVE  ImageInv'
<1>1. mm' = mm /\ mm \in [Proc -> mm_struct] /\ AreasOf(p, a) # {}
  BY DEF ImageInv, MapPage
<1>2. DOMAIN loaded' = Proc /\ \A q \in Proc : q # p => loaded'[q] = loaded[q]
  BY DEF ImageInv, MapPage
<1>3. \A q \in Proc : q # p => ImageOK(q)'
  BY <1>1, <1>2, LeftAlone DEF ImageInv
<1>4. PageHolds(mm[p].mmap, Page(a), Fill(p, a))
  <2>1. CASE epc[p] = "user"
    BY <1>1, <2>1, FillHolds DEF ImageInv, ImageOK
  <2>2. CASE epc[p] = "stack" /\ StackStart <= a /\ a < StackEnd
    <3>1. PICK i \in 1..Len(mm[p].mmap) : IsStack(mm[p].mmap[i])
      BY <2>2 DEF ImageInv, ImageOK
    <3>2. mm[p].mmap \in Seq(vm_area_struct)
      BY <1>1 DEF mm_struct
    <3> QED BY <2>2, <3>1, <3>2, StackPageHolds
  <2> QED BY <2>1, <2>2
<1>5. \/ loaded'[p] = loaded[p]
      \/ /\ DOMAIN loaded'[p] = DOMAIN loaded[p] \cup {Page(a)}
         /\ \A v \in DOMAIN loaded'[p] :
              loaded'[p][v] = IF v = Page(a) THEN Fill(p, a) ELSE loaded[p][v]
  BY DEF ImageInv, MapPage
<1>7. ImageOK(p)'
  <2>1. CASE loaded'[p] = loaded[p]
    BY <1>1, <2>1, LeftAlone DEF ImageInv
  <2>2. CASE /\ DOMAIN loaded'[p] = DOMAIN loaded[p] \cup {Page(a)}
             /\ \A v \in DOMAIN loaded'[p] :
                  loaded'[p][v] = IF v = Page(a) THEN Fill(p, a) ELSE loaded[p][v]
    <3>1. IsFiniteSet(DOMAIN loaded'[p])
      <4>1. IsFiniteSet(DOMAIN loaded[p])
        BY DEF ImageInv, ImageOK
      <4>2. IsFiniteSet(DOMAIN loaded[p] \cup {Page(a)})
        BY <4>1, FS_AddElement
      <4> QED BY <2>2, <4>2
    <3>2. \A v \in DOMAIN loaded'[p] : PageHolds(mm[p].mmap, v, loaded'[p][v])
      BY <1>4, <2>2 DEF ImageInv, ImageOK
    <3> QED BY <1>1, <3>1, <3>2 DEF ImageInv, ImageOK, Mapping
  <2> QED BY <1>5, <2>1, <2>2
<1> QED BY <1>1, <1>2, <1>3, <1>7 DEF ImageInv

\* load_elf goes to ring 3 with what it has read.
LEMMA Ring3KeepsImage ==
  ASSUME ImageInv, LockInv, NEW p \in Proc, ToRing3(p)
  PROVE  ImageInv'
<1>1. epc' = [epc EXCEPT ![p] = "user"] /\ DOMAIN epc = Proc /\ epc[p] = "stack"
  BY DEF LockInv, ToRing3, Goto, At
<1>2. loaded' = loaded /\ UNCHANGED <<awaits, out>>
  BY DEF ToRing3, fatVars, chain
<1>3. mm' = [mm EXCEPT ![p].rsp = StackEnd, ![p].elf_content = "content"]
  BY DEF ToRing3
<1>4. StackEnd \in Nat
  BY ExecAssumption, AddressSpaceAssumption DEF ExecAssumption, AddressSpaceAssumption, StackEnd
<1>5. mm[p] \in mm_struct
  BY DEF ImageInv
<1>6. mm'[p] = [mm[p] EXCEPT !.rsp = StackEnd, !.elf_content = "content"]
      /\ \A q \in Proc : q # p => mm'[q] = mm[q]
  BY <1>3 DEF ImageInv
<1>7. mm'[p] \in mm_struct /\ mm'[p].mmap = mm[p].mmap /\ mm'[p].elf_content = "content"
  BY <1>4, <1>5, <1>6 DEF mm_struct
<1>8. (mm \in [Proc -> mm_struct] /\ DOMAIN loaded = Proc)'
  BY <1>2, <1>3, <1>6, <1>7 DEF ImageInv
<1>9. \A q \in Proc : q # p => ImageOK(q)'
  BY <1>1, <1>2, <1>6, LeftAlone DEF ImageInv
<1>10. ImageOK(p)'
  BY <1>1, <1>2, <1>7 DEF ImageInv, ImageOK, Mapping
<1> QED BY <1>8, <1>9, <1>10 DEF ImageInv

\* The file system's steps when nobody has called it.
LEMMA NoJobNoStep ==
  ASSUME DiskStep, awaits = "none"
  PROVE  UNCHANGED <<awaits, out>>
<1>1. ~FatStep
  BY DEF FatStep, BootRead, DirAstray, DirNext, DirFails, DirFound, ReadFails, DataRead,
    FatRead, FatAstray, Arrived
<1> QED BY <1>1 DEF DiskStep, fatVars, chain

\* One step of kernel_exec or load_elf.
LEMMA ExecStepKeepsImage ==
  ASSUME ImageInv, LockInv, NEW p \in Proc, ExecStep(p)
  PROVE  ImageInv'
<1>0. /\ \A q \in Proc : epc[q] # "wild"
      /\ epc[p] \in Working
  BY DEF ExecStep, Copy, CopyFailed, SizeFails, SizeKnown, ReadFile, FileFails, FileRead,
    AddSegment, SegmentFails, AddStack, MapStack, ToRing3, Returned, At, Working
<1>00. \A q \in Proc : epc[q] = "elf" => q = p
  BY <1>0, OneAdds
<1> USE DEF Mapping
<1>1. CASE Copy(p)
  <2>1. epc[p] = "mm" /\ Goto(p, "size") /\ UNCHANGED <<mm, loaded>>
    BY <1>1 DEF Copy, At, CopyAll
  <2> QED BY <1>00, <2>1, ImageStays
<1>2. CASE CopyFailed(p)
  <2>1. epc[p] = "mm" /\ UNCHANGED <<mm, loaded, awaits, out>>
    BY <1>2 DEF CopyFailed, At, CopyFails, fatVars, chain
  <2>2. PICK m \in {"wild", "failed"} : Goto(p, m)
    BY <1>2 DEF CopyFailed
  <2> QED BY <2>1, <2>2, ImageStays
<1>3. CASE SizeFails(p) \/ FileFails(p) \/ SegmentFails(p)
  <2>1. UNCHANGED <<awaits, out>>
    BY <1>3 DEF SizeFails, FileFails, SegmentFails, Returned, Return, fatVars, chain
  <2>2. Forget(p) /\ Goto(p, "failed")
    BY <1>3 DEF SizeFails, FileFails, SegmentFails, Fail, DropFailed
  <2> QED BY <2>1, <2>2, ForgetKeepsImage
<1>4. CASE SizeKnown(p)
  <2>1. epc[p] = "size" /\ Goto(p, "content") /\ UNCHANGED <<mm, loaded>>
    BY <1>4 DEF SizeKnown, Returned, At, mem
  <2> QED BY <1>00, <2>1, ImageStays
<1>5. CASE ReadFile(p)
  <2>1. epc[p] = "content" /\ Goto(p, "file") /\ UNCHANGED <<mm, loaded>>
    BY <1>5 DEF ReadFile, At, mem
  <2> QED BY <1>00, <2>1, ImageStays
<1>6. CASE FileRead(p)
  <2>1. epc[p] = "file" /\ Goto(p, "elf") /\ UNCHANGED <<mm, loaded>>
    BY <1>6 DEF FileRead, Returned, At, mem
  <2>2. HasHeader /\ awaits = "none" /\ UNCHANGED <<awaits, out>>
    BY <1>6 DEF FileRead, IsExecutable, Returned, Return, chain
  <2> QED BY <2>1, <2>2, ImageStays
<1>7. CASE AddSegment(p)
  <2>1. epc[p] = "elf" /\ UNCHANGED <<awaits, out, epc>>
    BY <1>7 DEF AddSegment, At, fatVars, chain
  <2>2. HasHeader
    BY <2>1 DEF ImageInv, ImageOK
  <2>3. PICK i \in Segments :
          AddArea(p, elf_hdr.e_phdr[i].p_vaddr,
                  elf_hdr.e_phdr[i].p_vaddr + elf_hdr.e_phdr[i].p_memsz,
                  elf_hdr.e_phdr[i].p_type, elf_hdr.e_phdr[i].p_offset)
    BY <1>7 DEF AddSegment
  <2>4. elf_hdr \in Elf64_Ehdr
    BY <2>2, ExecAssumption DEF ExecAssumption, HasHeader, elf_hdr
  <2>5. elf_hdr.e_phdr \in Seq(Elf64_Phdr) /\ i \in DOMAIN elf_hdr.e_phdr
    <3>1. elf_hdr.e_phdr \in Seq(Elf64_Phdr)
      BY <2>4, ProgramHeaders
    <3>2. i \in DOMAIN elf_hdr.e_phdr
      BY DEF Segments
    <3> QED BY <3>1, <3>2
  <2>6. PICK s : s = elf_hdr.e_phdr[i]
    OBVIOUS
  <2>7. s \in Elf64_Phdr
    BY <2>5, <2>6
  <2>8. /\ s.p_vaddr \in Nat /\ s.p_vaddr + s.p_memsz \in Nat
        /\ s.p_type \in Nat /\ s.p_offset \in Nat
    BY <2>7 DEF Elf64_Phdr
  <2>9. AddArea(p, s.p_vaddr, s.p_vaddr + s.p_memsz, s.p_type, s.p_offset)
    BY <2>3, <2>6
  <2> QED BY <2>1, <2>8, <2>9, AreaKeepsImage
<1>8. CASE AddStack(p)
  <2>1. epc[p] = "elf" /\ UNCHANGED <<awaits, out>>
    BY <1>8 DEF AddStack, At, fatVars, chain
  <2>2. CASE AddArea(p, StackStart, StackEnd, 0, StackPages * PAGE_SIZE) /\ Goto(p, "stack")
    <3>1. StackStart \in Nat /\ StackEnd \in Nat /\ StackPages * PAGE_SIZE \in Nat
      BY ExecAssumption, AddressSpaceAssumption
      DEF ExecAssumption, AddressSpaceAssumption, StackEnd
    <3> QED BY <2>1, <2>2, <3>1, AreaKeepsImage
  <2>3. CASE Goto(p, "wild") /\ UNCHANGED mem
    BY <2>1, <2>3, ImageStays DEF mem
  <2> QED BY <1>8, <2>2, <2>3 DEF AddStack
<1>9. CASE MapStack(p)
  <2>1. epc[p] = "stack" /\ UNCHANGED <<awaits, out>>
    BY <1>9 DEF MapStack, At, fatVars, chain
  <2>2. CASE Goto(p, "wild") /\ UNCHANGED mem
    BY <2>1, <2>2, ImageStays DEF mem
  <2>3. CASE MapPage(p, NextStackPage(p)) /\ UNCHANGED epc
    <3> DEFINE mapped == {v \in DOMAIN loaded[p] : v >= Page(StackStart)}
    <3>1. IsFiniteSet(mapped)
      BY FS_Subset DEF ImageInv, ImageOK
    <3>2. Cardinality(mapped) \in Nat
      BY <3>1, FS_CardinalityType
    <3>3. StackStart \in Nat /\ PAGE_SIZE \in Nat
      BY ExecAssumption, AddressSpaceAssumption DEF ExecAssumption, AddressSpaceAssumption
    <3>4. NextStackPage(p) = StackStart + PAGE_SIZE * Cardinality(mapped)
      BY DEF NextStackPage
    <3> HIDE DEF mapped
    <3>5. NextStackPage(p) \in Nat /\ StackStart <= NextStackPage(p)
      BY <3>2, <3>3, <3>4
    <3>6. NextStackPage(p) < StackEnd
      BY <1>9 DEF MapStack
    <3> QED BY <2>1, <2>3, <3>5, <3>6, MapKeepsImage
  <2> QED BY <1>9, <2>2, <2>3 DEF MapStack
<1>10. CASE ToRing3(p)
  BY <1>10, Ring3KeepsImage
<1> QED
  BY <1>1, <1>2, <1>3, <1>4, <1>5, <1>6, <1>7, <1>8, <1>9, <1>10 DEF ExecStep

\* page_fault_handler.
LEMMA FaultKeepsImage ==
  ASSUME ImageInv, LockInv, NEW p \in Proc, PageFault(p)
  PROVE  ImageInv'
<1>1. epc[p] = "user" /\ UNCHANGED <<awaits, out>>
  BY DEF PageFault, At, fatVars, chain
<1>2. PICK v \in Touched, b \in 0..(PAGE_SIZE - 1) :
        \/ MapPage(p, v * PAGE_SIZE + b) /\ UNCHANGED epc
        \/ Goto(p, "wild") /\ UNCHANGED mem
  BY DEF PageFault
<1>3. v * PAGE_SIZE + b \in Nat
  BY PageOfByte, ExecAssumption DEF ExecAssumption
<1>4. CASE MapPage(p, v * PAGE_SIZE + b) /\ UNCHANGED epc
  BY <1>1, <1>3, <1>4, MapKeepsImage
<1>5. CASE Goto(p, "wild") /\ UNCHANGED mem
  BY <1>1, <1>5, ImageStays DEF mem, Mapping
<1> QED BY <1>2, <1>4, <1>5

\* Every step.
LEMMA ImageInvStep ==
  ASSUME ImageInv, LockInv, [ExecNext]_execVars
  PROVE  ImageInv'
<1>1. ASSUME NEW p \in Proc, ExecCall(p) PROVE ImageInv'
  <2>1. epc[p] = "none" /\ UNCHANGED <<mm, loaded, awaits, out>>
    BY <1>1 DEF ExecCall, At, mem, fatVars, chain
  <2>2. PICK m \in {"mm", "failed"} : Goto(p, m)
    BY <1>1 DEF ExecCall
  <2> QED BY <2>1, <2>2, ImageStays DEF Mapping
<1>2. ASSUME NEW p \in Proc, ExecStep(p) PROVE ImageInv'
  BY <1>2, ExecStepKeepsImage
<1>3. ASSUME NEW p \in Proc, PageFault(p) PROVE ImageInv'
  BY <1>3, FaultKeepsImage
<1>4. ASSUME NEW p \in Proc, Exit(p) PROVE ImageInv'
  <2>1. Goto(p, "dead") /\ UNCHANGED <<mm, loaded, awaits, out>>
    BY <1>4 DEF Exit, mem, fatVars, chain
  <2> QED BY <2>1, ImageStays DEF Mapping
<1>5. ASSUME NEW p \in Proc, CleanTask(p) PROVE ImageInv'
  <2>1. Forget(p) /\ Goto(p, "none") /\ UNCHANGED <<awaits, out>>
    BY <1>5 DEF CleanTask, Unmap, fatVars, chain
  <2> QED BY <2>1, ForgetKeepsImage
<1>6. CASE InitFs \/ InitFsDone \/ DiskStep \/ UNCHANGED execVars
  <2>1. UNCHANGED <<mm, loaded, epc>>
    BY <1>6 DEF InitFs, InitFsDone, DiskStep, mem, tasks, execVars
  <2>2. ASSUME NEW q \in Proc, epc[q] = "elf" PROVE UNCHANGED <<awaits, out>>
    <3>1. awaits = "none" /\ owner = q
      BY <2>2 DEF ImageInv, ImageOK, LockInv, LockedWhileWorking, Working
    <3>2. ~InitFs /\ ~InitFsDone
      BY <3>1, ExecAssumption DEF ExecAssumption, InitFs, InitFsDone
    <3> QED BY <1>6, <3>1, <3>2, NoJobNoStep DEF execVars, fatVars, chain
  <2>3. \A q \in Proc : ImageOK(q)'
    BY <2>1, <2>2, LeftAlone DEF ImageInv
  <2> QED BY <2>1, <2>3 DEF ImageInv
<1> QED BY <1>1, <1>2, <1>3, <1>4, <1>5, <1>6 DEF ExecNext

\* Nothing is mapped when the programs are started.
LEMMA ImageInvInit == ExecInit => ImageInv
<1> SUFFICES ASSUME ExecInit PROVE ImageInv
  OBVIOUS
<1>1. ZeroedMm \in mm_struct
  BY DEF ZeroedMm, mm_struct
<1>2. mm = [p \in Proc |-> ZeroedMm] /\ loaded = [p \in Proc |-> NoMap] /\ epc = [p \in Proc |-> "none"]
  BY DEF ExecInit, AddressSpaceInit
<1>3. DOMAIN NoMap = {}
  BY DEF NoMap
<1>4. ASSUME NEW p \in Proc PROVE ImageOK(p)
  BY <1>2, <1>3, FS_EmptySet DEF ImageOK
<1> QED BY <1>1, <1>2, <1>4 DEF ImageInv

\* elfloader.c 150-205, pagemanager.c 206-258: for every file, every page size and
\* every place of the stack, a page that one segment of the file covers holds the
\* segment's bytes of the file, and zeros behind the segment's end.
THEOREM SegmentsMapped == ExecSpec => []PagesHoldSegments
<1>1. LockInv /\ ImageInv /\ [ExecNext]_execVars => LockInv' /\ ImageInv'
  BY LockInvStep, ImageInvStep
<1>2. ImageInv => PagesHoldSegments
  BY DEF ImageInv, ImageOK, PageHolds, PagesHoldSegments
<1> QED BY LockInvInit, ImageInvInit, <1>1, <1>2, PTL DEF ExecSpec

-----------------------------------------------------------------------------
(* Names.                                                                   *)

\* The least member of a set of numbers.
LEMMA MinIsLeast ==
  ASSUME NEW S \in SUBSET Nat, S # {}
  PROVE  Min(S) \in S /\ Min(S) \in Nat /\ \A y \in S : Min(S) <= y
<1>1. \E x \in S : \A y \in S : x <= y
  BY LeastExists
<1>2. Min(S) \in S /\ \A y \in S : Min(S) <= y
  BY <1>1 DEF Min
<1> QED BY <1>2

\* The greatest member of a bounded set of numbers.
LEMMA MaxIsGreatest ==
  ASSUME NEW bound \in Nat, NEW S \in SUBSET (0..bound), S # {}
  PROVE  Max(S) \in S /\ Max(S) \in 0..bound /\ \A y \in S : y <= Max(S)
<1>1. PICK x \in S : \A y \in S : y <= x
  BY GreatestExists
<1>2. \A y \in S : x >= y
  BY <1>1
<1>3. Max(S) \in S /\ \A y \in S : Max(S) >= y
  BY <1>2 DEF Max
<1> QED BY <1>3

\* strlen stops at the first zero.
LEMMA StrlenIs ==
  ASSUME NEW str \in Seq(Byte), \E i \in 1..Len(str) : str[i] = 0
  PROVE  /\ strlen(str) \in Nat /\ strlen(str) + 1 \in 1..Len(str)
         /\ str[strlen(str) + 1] = 0
         /\ \A i \in 1..strlen(str) : i \in 1..Len(str) /\ str[i] \in Byte /\ str[i] # 0
<1> DEFINE Zeros == {i \in 1..Len(str) : str[i] = 0}
<1>1. Zeros \in SUBSET Nat /\ Zeros # {} /\ Len(str) \in Nat
  OBVIOUS
<1>2. Min(Zeros) \in Zeros /\ \A y \in Zeros : Min(Zeros) <= y
  BY <1>1, MinIsLeast
<1>3. strlen(str) = Min(Zeros) - 1
  BY DEF strlen
<1> HIDE DEF Zeros
<1>4. Min(Zeros) \in 1..Len(str) /\ str[Min(Zeros)] = 0
  BY <1>2 DEF Zeros
<1>5. strlen(str) \in Nat /\ strlen(str) + 1 = Min(Zeros)
  BY <1>1, <1>3, <1>4
<1>6. ASSUME NEW i \in 1..strlen(str) PROVE i \in 1..Len(str) /\ str[i] # 0
  <2>1. i \in 1..Len(str) /\ ~ (Min(Zeros) <= i)
    BY <1>1, <1>4, <1>5
  <2> QED BY <1>2, <2>1 DEF Zeros
<1>7. \A i \in 1..Len(str) : str[i] \in Byte
  OBVIOUS
<1> QED BY <1>4, <1>5, <1>6, <1>7

\* Capitals keep dots and blanks.
LEMMA UpperIs ==
  ASSUME NEW c \in Byte
  PROVE  /\ Upper(c) \in Byte
         /\ Upper(c) = Dot <=> c = Dot
         /\ Upper(c) = Blank <=> c = Blank
BY DEF Byte, Upper, Dot, Blank

\* The characters in capitals, and blanks behind them.
LEMMA PaddedIs ==
  ASSUME NEW chars \in Seq(Byte), NEW k \in Nat
  PROVE  /\ Padded(chars, k) \in Seq(Byte) /\ Len(Padded(chars, k)) = k
         /\ \A i \in 1..k :
              Padded(chars, k)[i] = IF i <= Len(chars) THEN Upper(chars[i]) ELSE Blank
<1> DEFINE up == [i \in 1..Len(chars) |-> Upper(chars[i])]
           blanks == [i \in 1..k |-> Blank]
           all == up \o blanks
<1>1. up \in Seq(Byte) /\ Len(up) = Len(chars) /\ \A i \in 1..Len(chars) : up[i] = Upper(chars[i])
  <2>1. \A i \in 1..Len(chars) : Upper(chars[i]) \in Byte
    BY UpperIs
  <2>2. Len(chars) \in Nat
    OBVIOUS
  <2> QED BY <2>1, <2>2, IsASeq
<1>2. blanks \in Seq(Byte) /\ Len(blanks) = k /\ \A i \in 1..k : blanks[i] = Blank
  <2>1. Blank \in Byte
    BY DEF Blank, Byte
  <2> QED BY <2>1, IsASeq
<1> HIDE DEF up, blanks
<1>3. /\ all \in Seq(Byte) /\ Len(all) = Len(chars) + k
      /\ \A i \in 1..(Len(chars) + k) :
           all[i] = IF i <= Len(chars) THEN up[i] ELSE blanks[i - Len(chars)]
  <2>1. /\ up \o blanks \in Seq(Byte) /\ Len(up \o blanks) = Len(up) + Len(blanks)
        /\ \A i \in 1..(Len(up) + Len(blanks)) :
             (up \o blanks)[i] = IF i <= Len(up) THEN up[i] ELSE blanks[i - Len(up)]
    BY <1>1, <1>2, ConcatProperties
  <2> QED BY <1>1, <1>2, <2>1
<1>4. Padded(chars, k) = SubSeq(all, 1, k)
  BY DEF Padded, up, blanks
<1> HIDE DEF all
<1>5. \A i \in 1..k : all[i] \in Byte
  <2>1. Len(chars) \in Nat
    OBVIOUS
  <2>2. \A i \in 1..k : i \in 1..Len(all)
    BY <1>3, <2>1
  <2> QED BY <1>3, <2>2
<1>6. /\ SubSeq(all, 1, k) \in Seq(Byte)
      /\ Len(SubSeq(all, 1, k)) = IF 1 <= k THEN k - 1 + 1 ELSE 0
      /\ \A i \in 1..(k - 1 + 1) : SubSeq(all, 1, k)[i] = all[1 + i - 1]
  BY <1>5, SubSeqProperties
<1>7. ASSUME NEW i \in 1..k
      PROVE  Padded(chars, k)[i] = IF i <= Len(chars) THEN Upper(chars[i]) ELSE Blank
  <2>1. Len(chars) \in Nat /\ i \in 1..(Len(chars) + k) /\ i \in 1..(k - 1 + 1) /\ 1 + i - 1 = i
    OBVIOUS
  <2>2. Padded(chars, k)[i] = all[i]
    BY <1>4, <1>6, <2>1
  <2>3. CASE i <= Len(chars)
    BY <1>1, <1>3, <2>1, <2>2, <2>3
  <2>4. CASE ~ (i <= Len(chars))
    <3>1. i - Len(chars) \in 1..k
      BY <2>1, <2>4
    <3> QED BY <1>2, <1>3, <2>1, <2>2, <2>4, <3>1
  <2> QED BY <2>3, <2>4
<1> QED BY <1>4, <1>6, <1>7

\* Where upper_padding stops in the first part of a name.
BaseEnd(n) == Min({9, strlen(n) + 1} \cup {j \in 1..strlen(n) : n[j] = Dot})

\* A name that is looked up.
IsName(n) == n \in Seq(Byte) /\ \E i \in 1..Len(n) : n[i] = 0

\* It stops at the first dot, at the end, or after eight characters.
LEMMA BaseEndIs ==
  ASSUME NEW n, IsName(n)
  PROVE  /\ BaseEnd(n) \in 1..9 /\ BaseEnd(n) <= strlen(n) + 1
         /\ \A j \in 1..(BaseEnd(n) - 1) : n[j] # Dot
         /\ \/ BaseEnd(n) = 9 \/ BaseEnd(n) = strlen(n) + 1
            \/ n[BaseEnd(n)] = Dot /\ BaseEnd(n) <= strlen(n)
<1> DEFINE L == strlen(n)
           Ends == {9, L + 1} \cup {j \in 1..L : n[j] = Dot}
<1>1. L \in Nat
  BY StrlenIs DEF IsName
<1> HIDE DEF L
<1>2. Ends \in SUBSET Nat /\ Ends # {}
  BY <1>1
<1>3. BaseEnd(n) = Min(Ends)
  BY DEF BaseEnd, L
<1>4. BaseEnd(n) \in Ends /\ BaseEnd(n) \in Nat /\ \A y \in Ends : BaseEnd(n) <= y
  BY <1>2, <1>3, MinIsLeast
<1>5. BaseEnd(n) <= 9 /\ BaseEnd(n) <= L + 1 /\ BaseEnd(n) >= 1
  BY <1>1, <1>4
<1>6. ASSUME NEW j \in 1..(BaseEnd(n) - 1) PROVE n[j] # Dot
  <2>1. j \in 1..L /\ ~ (BaseEnd(n) <= j)
    BY <1>1, <1>4, <1>5
  <2> QED BY <1>4, <2>1
<1> QED BY <1>1, <1>4, <1>5, <1>6 DEF L

\* fat.c 133-160: eight characters and three, in capitals, with blanks behind.
LEMMA UpperPaddingIs ==
  ASSUME NEW n, IsName(n)
  PROVE  LET i == BaseEnd(n)
         IN  /\ upper_padding(n).name8 \in [1..8 -> Byte]
             /\ upper_padding(n).ext3 \in [1..3 -> Byte]
             /\ \A x \in 1..8 :
                  upper_padding(n).name8[x] = IF x < i THEN Upper(n[x]) ELSE Blank
             /\ \A x \in 1..3 :
                  upper_padding(n).ext3[x] =
                    IF n[i] = Dot /\ i + x <= strlen(n) THEN Upper(n[i + x]) ELSE Blank
<1> DEFINE L == strlen(n)
           i == BaseEnd(n)
           base == SubSeq(n, 1, i - 1)
           last == Min({i + 3, L})
           ext == SubSeq(n, i + 1, last)
<1>1. L \in Nat /\ L + 1 \in 1..Len(n) /\ n[L + 1] = 0 /\ n \in Seq(Byte)
      /\ \A x \in 1..L : n[x] \in Byte
  BY StrlenIs DEF IsName
<1>2. i \in 1..9 /\ i <= L + 1
  BY BaseEndIs
<1>3. /\ upper_padding(n).name8 = Padded(base, 8)
      /\ upper_padding(n).ext3 = IF n[i] # Dot THEN Padded(<< >>, 3) ELSE Padded(ext, 3)
  BY DEF upper_padding, BaseEnd
<1> HIDE DEF L, i
<1>4. base \in Seq(Byte) /\ Len(base) = i - 1 /\ \A x \in 1..(i - 1) : base[x] = n[x]
  <2>1. \A x \in 1..(i - 1) : n[x] \in Byte
    BY <1>1, <1>2
  <2>2. 1 \in Int /\ i - 1 \in Int
    BY <1>2
  <2>3. /\ base \in Seq(Byte) /\ Len(base) = IF 1 <= i - 1 THEN i - 1 - 1 + 1 ELSE 0
        /\ \A x \in 1..(i - 1 - 1 + 1) : base[x] = n[1 + x - 1]
    BY <2>1, <2>2, SubSeqProperties
  <2> QED BY <1>2, <2>3
<1>5. /\ Padded(base, 8) \in Seq(Byte) /\ Len(Padded(base, 8)) = 8
      /\ \A x \in 1..8 : Padded(base, 8)[x] = IF x <= Len(base) THEN Upper(base[x]) ELSE Blank
  BY <1>4, PaddedIs
<1>6. \A x \in 1..8 : Padded(base, 8)[x] = IF x < i THEN Upper(n[x]) ELSE Blank
  BY <1>2, <1>4, <1>5
<1>7. CASE n[i] # Dot
  <2>1. << >> \in Seq(Byte) /\ Len(<< >>) = 0
    OBVIOUS
  <2>2. /\ Padded(<< >>, 3) \in Seq(Byte) /\ Len(Padded(<< >>, 3)) = 3
        /\ \A x \in 1..3 : Padded(<< >>, 3)[x] = IF x <= Len(<< >>) THEN Upper(<< >>[x]) ELSE Blank
    BY <2>1, PaddedIs
  <2>3. \A x \in 1..3 : Padded(<< >>, 3)[x] = Blank
    BY <2>1, <2>2
  <2> QED BY <1>3, <1>5, <1>6, <1>7, <2>2, <2>3 DEF i, L
<1>8. CASE n[i] = Dot
  <2>1. 0 # Dot
    BY DEF Dot
  <2>2. i \in 1..L
    BY <1>1, <1>2, <1>8, <2>1
  <2>3. {i + 3, L} \in SUBSET Nat /\ {i + 3, L} # {}
    BY <1>1, <1>2
  <2>4. last \in Nat /\ (last = i + 3 \/ last = L) /\ last <= i + 3 /\ last <= L
    BY <2>3, MinIsLeast
  <2> HIDE DEF last
  <2>5. \A x \in (i + 1)..last : n[x] \in Byte
    BY <1>1, <1>2, <2>4
  <2>6. i + 1 \in Int /\ last \in Int /\ last >= i
    BY <1>1, <1>2, <2>2, <2>4
  <2>7. /\ ext \in Seq(Byte) /\ Len(ext) = IF i + 1 <= last THEN last - (i + 1) + 1 ELSE 0
        /\ \A x \in 1..(last - (i + 1) + 1) : ext[x] = n[(i + 1) + x - 1]
    BY <2>5, <2>6, SubSeqProperties
  <2> HIDE DEF ext
  <2>8. /\ Padded(ext, 3) \in Seq(Byte) /\ Len(Padded(ext, 3)) = 3
        /\ \A x \in 1..3 : Padded(ext, 3)[x] = IF x <= Len(ext) THEN Upper(ext[x]) ELSE Blank
    BY <2>7, PaddedIs
  <2>9. Len(ext) = last - i /\ \A x \in 1..Len(ext) : ext[x] = n[i + x]
    <3>1. Len(ext) = last - i
      BY <1>2, <2>6, <2>7
    <3>2. ASSUME NEW x \in 1..Len(ext) PROVE ext[x] = n[i + x]
      <4>1. x \in 1..(last - (i + 1) + 1) /\ (i + 1) + x - 1 = i + x
        BY <1>2, <2>6, <3>1
      <4> QED BY <2>7, <4>1
    <3> QED BY <3>1, <3>2
  <2>10. ASSUME NEW x \in 1..3
         PROVE  Padded(ext, 3)[x] = IF i + x <= L THEN Upper(n[i + x]) ELSE Blank
    <3>1. x <= Len(ext) <=> i + x <= L
      BY <1>1, <1>2, <2>4, <2>9
    <3>2. CASE i + x <= L
      <4>1. x \in 1..Len(ext)
        BY <1>2, <2>4, <2>9, <3>1, <3>2
      <4>2. ext[x] = n[i + x]
        BY <2>9, <4>1
      <4> QED BY <2>8, <3>1, <3>2, <4>2
    <3> QED BY <2>8, <3>1, <3>2
  <2> QED BY <1>3, <1>5, <1>6, <1>8, <2>8, <2>10 DEF i, L
<1> QED BY <1>7, <1>8

\* memcmp gives zero for arrays that are the same.
LEMMA MemcmpIsZero ==
  ASSUME NEW a, NEW b, NEW k \in Nat
  PROVE  memcmp(a, b, k) = 0 <=> \A i \in 1..k : a[i] = b[i]
BY DEF memcmp

\* The blanks at the end are left out.
LEMMA TrimmedIs ==
  ASSUME NEW k \in Nat, NEW chars \in [1..k -> Byte]
  PROVE  /\ Trimmed(chars) \in Seq(Byte) /\ Len(Trimmed(chars)) \in 0..k
         /\ \A x \in 1..Len(Trimmed(chars)) : Trimmed(chars)[x] = chars[x]
         /\ \A x \in 1..k : x > Len(Trimmed(chars)) => chars[x] = Blank
         /\ Len(Trimmed(chars)) > 0 => chars[Len(Trimmed(chars))] # Blank
<1> DEFINE Ends == {0} \cup {i \in DOMAIN chars : chars[i] # Blank}
           m == Max(Ends)
<1>1. Ends \in SUBSET (0..k) /\ Ends # {} /\ DOMAIN chars = 1..k
  OBVIOUS
<1>2. m \in Ends /\ m \in 0..k /\ \A y \in Ends : y <= m
  BY <1>1, MaxIsGreatest
<1>3. Trimmed(chars) = SubSeq(chars, 1, m)
  BY DEF Trimmed
<1> HIDE DEF m
<1>4. \A x \in 1..m : chars[x] \in Byte
  BY <1>2
<1>5. 1 \in Int /\ m \in Int
  BY <1>2
<1>6. /\ Trimmed(chars) \in Seq(Byte) /\ Len(Trimmed(chars)) = IF 1 <= m THEN m - 1 + 1 ELSE 0
      /\ \A x \in 1..(m - 1 + 1) : Trimmed(chars)[x] = chars[1 + x - 1]
  BY <1>3, <1>4, <1>5, SubSeqProperties
<1>7. Len(Trimmed(chars)) = m
  BY <1>2, <1>6
<1>8. ASSUME NEW x \in 1..m PROVE Trimmed(chars)[x] = chars[x]
  <2>1. x \in 1..(m - 1 + 1) /\ 1 + x - 1 = x
    BY <1>2
  <2> QED BY <1>6, <2>1
<1>9. ASSUME NEW x \in 1..k, x > m PROVE chars[x] = Blank
  <2>1. x \notin Ends
    BY <1>2, <1>9
  <2> QED BY <1>1, <2>1
<1>10. m > 0 => chars[m] # Blank
  BY <1>2
<1> QED BY <1>2, <1>6, <1>7, <1>8, <1>9, <1>10

\* The name and, when there is one, a dot and the extension.
LEMMA WrittenIs ==
  ASSUME NEW e, e.name \in [1..8 -> Byte], e.ext \in [1..3 -> Byte]
  PROVE  LET a == Len(Trimmed(e.name))
             b == Len(Trimmed(e.ext))
         IN  /\ Written(e) \in Seq(Byte)
             /\ Len(Written(e)) = a + (IF b = 0 THEN 0 ELSE b + 1)
             /\ \A x \in 1..a : Written(e)[x] = e.name[x]
             /\ b > 0 => /\ Written(e)[a + 1] = Dot
                         /\ \A x \in 1..b : Written(e)[a + 1 + x] = e.ext[x]
<1> DEFINE base == Trimmed(e.name)
           ext == Trimmed(e.ext)
           tail == IF ext = << >> THEN << >> ELSE <<Dot>> \o ext
<1>1. base \in Seq(Byte) /\ Len(base) \in Nat /\ \A x \in 1..Len(base) : base[x] = e.name[x]
  <2>1. /\ base \in Seq(Byte) /\ Len(base) \in 0..8
        /\ \A x \in 1..Len(base) : base[x] = e.name[x]
    BY TrimmedIs
  <2> QED BY <2>1
<1>2. ext \in Seq(Byte) /\ Len(ext) \in Nat /\ \A x \in 1..Len(ext) : ext[x] = e.ext[x]
  <2>1. /\ ext \in Seq(Byte) /\ Len(ext) \in 0..3
        /\ \A x \in 1..Len(ext) : ext[x] = e.ext[x]
    BY TrimmedIs
  <2> QED BY <2>1
<1>3. Written(e) = base \o tail
  BY DEF Written
<1> HIDE DEF base, ext
<1>4. ext = << >> <=> Len(ext) = 0
  BY <1>2, EmptySeq
<1>5. CASE ext = << >>
  <2>1. Written(e) = base
    BY <1>1, <1>3, <1>5, ConcatEmptySeq
  <2> QED BY <1>1, <1>4, <1>5, <2>1 DEF base, ext
<1>6. CASE ext # << >>
  <2>1. <<Dot>> \in Seq(Byte) /\ Len(<<Dot>>) = 1 /\ <<Dot>>[1] = Dot
    BY DEF Dot, Byte
  <2>2. /\ tail \in Seq(Byte) /\ Len(tail) = 1 + Len(ext)
        /\ \A x \in 1..(1 + Len(ext)) : tail[x] = IF x <= 1 THEN <<Dot>>[x] ELSE ext[x - 1]
    <3>1. tail = <<Dot>> \o ext
      BY <1>6
    <3> QED BY <1>2, <2>1, <3>1, ConcatProperties
  <2> HIDE DEF tail
  <2>3. /\ Written(e) \in Seq(Byte) /\ Len(Written(e)) = Len(base) + Len(tail)
        /\ \A x \in 1..(Len(base) + Len(tail)) :
             Written(e)[x] = IF x <= Len(base) THEN base[x] ELSE tail[x - Len(base)]
    <3>1. /\ base \o tail \in Seq(Byte) /\ Len(base \o tail) = Len(base) + Len(tail)
          /\ \A x \in 1..(Len(base) + Len(tail)) :
               (base \o tail)[x] = IF x <= Len(base) THEN base[x] ELSE tail[x - Len(base)]
      BY <1>1, <2>2, ConcatProperties
    <3> QED BY <1>3, <3>1
  <2>4. ASSUME NEW x \in 1..Len(base) PROVE Written(e)[x] = e.name[x]
    <3>1. x \in 1..(Len(base) + Len(tail)) /\ x <= Len(base)
      BY <1>1, <1>2, <2>2
    <3> QED BY <1>1, <2>3, <3>1
  <2>5. Written(e)[Len(base) + 1] = Dot
    <3>1. Len(base) + 1 \in 1..(Len(base) + Len(tail)) /\ Len(base) + 1 - Len(base) = 1
          /\ ~ (Len(base) + 1 <= Len(base)) /\ 1 \in 1..(1 + Len(ext))
      BY <1>1, <1>2, <2>2
    <3> QED BY <2>1, <2>2, <2>3, <3>1
  <2>6. ASSUME NEW x \in 1..Len(ext) PROVE Written(e)[Len(base) + 1 + x] = e.ext[x]
    <3>1. /\ Len(base) + 1 + x \in 1..(Len(base) + Len(tail))
          /\ Len(base) + 1 + x - Len(base) = 1 + x /\ 1 + x \in 1..(1 + Len(ext))
          /\ ~ (Len(base) + 1 + x <= Len(base)) /\ ~ (1 + x <= 1) /\ 1 + x - 1 = x
      BY <1>1, <1>2, <2>2
    <3>2. Written(e)[Len(base) + 1 + x] = tail[1 + x]
      BY <2>3, <3>1
    <3>3. tail[1 + x] = ext[x]
      BY <2>2, <3>1
    <3> QED BY <1>2, <3>2, <3>3
  <2>7. Len(ext) # 0 /\ Len(base) + Len(tail) = Len(base) + (Len(ext) + 1)
    BY <1>1, <1>2, <1>4, <1>6, <2>2
  <2> QED BY <2>3, <2>4, <2>5, <2>6, <2>7 DEF base, ext
<1> QED BY <1>5, <1>6

\* The same for the capitals of a name.
LEMMA CapitalsAre ==
  ASSUME NEW n, IsName(n), NEW e, e.name \in [1..8 -> Byte], e.ext \in [1..3 -> Byte]
  PROVE  LET W == Written(e)
         IN  W = [x \in 1..strlen(n) |-> Upper(n[x])]
               <=> Len(W) = strlen(n) /\ \A x \in 1..strlen(n) : W[x] = Upper(n[x])
<1> DEFINE W == Written(e)
           L == strlen(n)
           up == [x \in 1..L |-> Upper(n[x])]
<1>1. L \in Nat /\ \A x \in 1..L : n[x] \in Byte
  BY StrlenIs DEF IsName
<1>2. W \in Seq(Byte)
  BY WrittenIs
<1> HIDE DEF L, W
<1>3. up \in Seq(Byte) /\ Len(up) = L /\ \A x \in 1..L : up[x] = Upper(n[x])
  <2>1. \A x \in 1..L : Upper(n[x]) \in Byte
    BY <1>1, UpperIs
  <2> QED BY <1>1, <2>1, IsASeq
<1> HIDE DEF up
<1>4. Len(W) = L /\ (\A x \in 1..L : W[x] = Upper(n[x])) => W = up
  BY <1>2, <1>3, SeqEqual
<1>5. W = up => Len(W) = L /\ \A x \in 1..L : W[x] = Upper(n[x])
  BY <1>3
<1> QED BY <1>4, <1>5 DEF L, W, up

\* The search finds the short entry whose name is written like the one searched.
LEMMA ShortNameMatches ==
  ASSUME NEW n, IsName(n), NEW e, e.name \in [1..8 -> Byte], e.ext \in [1..3 -> Byte],
         \A x \in 1..8 : e.name[x] # Dot,
         Written(e) = [x \in 1..strlen(n) |-> Upper(n[x])]
  PROVE  /\ \A x \in 1..8 : e.name[x] = upper_padding(n).name8[x]
         /\ \A x \in 1..3 : e.ext[x] = upper_padding(n).ext3[x]
<1> DEFINE W == Written(e)
           L == strlen(n)
           a == Len(Trimmed(e.name))
           b == Len(Trimmed(e.ext))
           i == BaseEnd(n)
<1>1. /\ L \in Nat /\ n[L + 1] = 0
      /\ \A x \in 1..L : n[x] \in Byte
  BY StrlenIs DEF IsName
<1>2. a \in 0..8 /\ \A x \in 1..8 : x > a => e.name[x] = Blank
  BY TrimmedIs
<1>3. b \in 0..3 /\ \A x \in 1..3 : x > b => e.ext[x] = Blank
  BY TrimmedIs
<1>4. /\ Len(W) = a + (IF b = 0 THEN 0 ELSE b + 1)
      /\ \A x \in 1..a : W[x] = e.name[x]
      /\ b > 0 => W[a + 1] = Dot /\ \A x \in 1..b : W[a + 1 + x] = e.ext[x]
  BY WrittenIs
<1>5. Len(W) = L /\ \A x \in 1..L : W[x] = Upper(n[x])
  BY CapitalsAre
<1>6. /\ i \in 1..9 /\ i <= L + 1
      /\ \A j \in 1..(i - 1) : n[j] # Dot
      /\ i = 9 \/ i = L + 1 \/ (n[i] = Dot /\ i <= L)
  BY BaseEndIs
<1>7. /\ \A x \in 1..8 : upper_padding(n).name8[x] = IF x < i THEN Upper(n[x]) ELSE Blank
      /\ \A x \in 1..3 :
           upper_padding(n).ext3[x] =
             IF n[i] = Dot /\ i + x <= L THEN Upper(n[i + x]) ELSE Blank
  BY UpperPaddingIs
<1> HIDE DEF W, L, a, b, i
<1>8. ASSUME NEW x \in 1..a PROVE x \in 1..L /\ Upper(n[x]) = e.name[x] /\ n[x] # Dot
  <2>1. x \in 1..L /\ x \in 1..8
    BY <1>1, <1>2, <1>3, <1>4, <1>5
  <2>2. Upper(n[x]) = e.name[x] /\ e.name[x] # Dot
    BY <1>4, <1>5, <2>1
  <2> QED BY <1>1, <2>1, <2>2, UpperIs
<1>9. i = a + 1
  <2>1. CASE b = 0
    BY <1>1, <1>2, <1>4, <1>5, <1>6, <1>8, <2>1
  <2>2. CASE b > 0
    <3>1. L = a + 1 + b /\ a + 1 \in 1..L
      BY <1>2, <1>3, <1>4, <1>5, <2>2
    <3>2. n[a + 1] = Dot
      BY <1>1, <1>4, <1>5, <2>2, <3>1, UpperIs
    <3>3. ~ (a + 1 \in 1..(i - 1))
      BY <1>6, <3>2
    <3>4. i <= a => FALSE
      <4>1. SUFFICES ASSUME i <= a PROVE FALSE
        OBVIOUS
      <4>2. i \in 1..a
        BY <1>2, <1>6, <4>1
      <4>3. n[i] # Dot /\ i # 9 /\ i # L + 1
        BY <1>1, <1>2, <1>8, <3>1, <4>2
      <4> QED BY <1>6, <4>3
    <3> QED BY <1>2, <1>6, <3>3, <3>4
  <2> QED BY <1>3, <2>1, <2>2
<1>10. ASSUME NEW x \in 1..8 PROVE e.name[x] = upper_padding(n).name8[x]
  <2>1. CASE x <= a
    <3>1. x \in 1..a /\ x < i
      BY <1>2, <1>9, <2>1
    <3> QED BY <1>7, <1>8, <3>1
  <2>2. CASE x > a
    <3>1. ~ (x < i)
      BY <1>2, <1>9, <2>2
    <3> QED BY <1>2, <1>7, <2>2, <3>1
  <2> QED BY <1>2, <2>1, <2>2
<1>11. ASSUME NEW x \in 1..3 PROVE e.ext[x] = upper_padding(n).ext3[x]
  <2>1. CASE b = 0
    <3>1. i = L + 1 /\ x > b
      BY <1>1, <1>2, <1>4, <1>5, <1>9, <2>1
    <3>2. n[i] # Dot
      BY <1>1, <3>1 DEF Dot
    <3> QED BY <1>3, <1>7, <3>1, <3>2
  <2>2. CASE b > 0
    <3>1. L = i + b /\ i \in 1..L
      BY <1>2, <1>3, <1>4, <1>5, <1>9, <2>2
    <3>2. n[i] = Dot
      BY <1>1, <1>4, <1>5, <1>9, <2>2, <3>1, UpperIs
    <3>3. CASE x <= b
      <4>1. i + x <= L /\ i + x \in 1..L /\ x \in 1..b
        BY <1>1, <1>3, <3>1, <3>3
      <4>2. W[i + x] = e.ext[x]
        BY <1>4, <1>9, <2>2, <4>1
      <4> QED BY <1>5, <1>7, <3>2, <4>1, <4>2
    <3>4. CASE x > b
      <4>1. ~ (i + x <= L)
        BY <1>1, <1>3, <1>6, <3>1, <3>4
      <4> QED BY <1>3, <1>7, <3>4, <4>1
    <3> QED BY <1>3, <3>3, <3>4
  <2> QED BY <1>3, <2>1, <2>2
<1> QED BY <1>10, <1>11

\* And one that it finds is written so, when the name searched is a short one.
LEMMA MatchIsShortName ==
  ASSUME NEW n, IsName(n), IsShortName(n),
         NEW e, e.name \in [1..8 -> Byte], e.ext \in [1..3 -> Byte],
         \A x \in 1..8 : e.name[x] = upper_padding(n).name8[x],
         \A x \in 1..3 : e.ext[x] = upper_padding(n).ext3[x]
  PROVE  Written(e) = [x \in 1..strlen(n) |-> Upper(n[x])]
<1> DEFINE W == Written(e)
           L == strlen(n)
           a == Len(Trimmed(e.name))
           b == Len(Trimmed(e.ext))
           i == BaseEnd(n)
<1>1. /\ L \in Nat /\ n[L + 1] = 0
      /\ \A x \in 1..L : n[x] \in Byte
  BY StrlenIs DEF IsName
<1>2. /\ a \in 0..8 /\ \A x \in 1..8 : x > a => e.name[x] = Blank
      /\ a > 0 => e.name[a] # Blank
  <2>0. \A chars \in [1..8 -> Byte] :
          /\ Len(Trimmed(chars)) \in 0..8
          /\ Len(Trimmed(chars)) > 0 => chars[Len(Trimmed(chars))] # Blank
    BY TrimmedIs
  <2>1. a \in 0..8 /\ (a > 0 => e.name[a] # Blank)
    BY <2>0
  <2>2. \A x \in 1..8 : x > a => e.name[x] = Blank
    BY TrimmedIs
  <2> QED BY <2>1, <2>2
<1>3. /\ b \in 0..3 /\ \A x \in 1..3 : x > b => e.ext[x] = Blank
      /\ b > 0 => e.ext[b] # Blank
  BY TrimmedIs
<1>4. /\ Len(W) = a + (IF b = 0 THEN 0 ELSE b + 1)
      /\ \A x \in 1..a : W[x] = e.name[x]
      /\ b > 0 => W[a + 1] = Dot /\ \A x \in 1..b : W[a + 1 + x] = e.ext[x]
  BY WrittenIs
<1>6. /\ i \in 1..9 /\ i <= L + 1
      /\ \A j \in 1..(i - 1) : n[j] # Dot
      /\ i = 9 \/ i = L + 1 \/ (n[i] = Dot /\ i <= L)
  BY BaseEndIs
<1>7. /\ \A x \in 1..8 : e.name[x] = IF x < i THEN Upper(n[x]) ELSE Blank
      /\ \A x \in 1..3 :
           e.ext[x] = IF n[i] = Dot /\ i + x <= L THEN Upper(n[i + x]) ELSE Blank
  BY UpperPaddingIs
<1>8. PICK d \in 1..9 :
        /\ \A j \in 1..(d - 1) : n[j] # Dot
        /\ d > 1 => n[d - 1] # Blank
        /\ \/ L = d - 1
           \/ n[d] = Dot /\ L \in (d + 1)..(d + 3) /\ n[L] # Blank
  BY DEF IsShortName
<1> HIDE DEF W, L, a, b, i
<1>9. i = d
  <2>1. CASE i < d
    <3>1. i \in 1..(d - 1) /\ i # 9 /\ i # L + 1
      BY <1>1, <1>6, <1>8, <2>1
    <3> QED BY <1>6, <1>8, <3>1
  <2>2. CASE i > d
    <3>1. d \in 1..(i - 1) /\ L # d - 1
      BY <1>1, <1>6, <1>8, <2>2
    <3> QED BY <1>6, <1>8, <3>1
  <2> QED BY <1>6, <2>1, <2>2
<1>10. a = i - 1
  <2>1. CASE a < i - 1
    <3>1. i - 1 \in 1..8 /\ i - 1 > a /\ i - 1 < i /\ i - 1 \in 1..L
      BY <1>1, <1>2, <1>6, <2>1
    <3>2. Upper(n[i - 1]) = Blank
      BY <1>2, <1>7, <3>1
    <3>3. n[i - 1] # Blank
      BY <1>8, <1>9, <1>6, <3>1
    <3> QED BY <1>1, <3>1, <3>2, <3>3, UpperIs
  <2>2. CASE a > i - 1
    <3>1. a \in 1..8 /\ ~ (a < i) /\ a > 0
      BY <1>2, <1>6, <2>2
    <3> QED BY <1>2, <1>7, <3>1
  <2> QED BY <1>2, <1>6, <2>1, <2>2
<1>11. ASSUME NEW x \in 1..a PROVE W[x] = Upper(n[x])
  <2>1. x \in 1..8 /\ x < i
    BY <1>2, <1>6, <1>10
  <2> QED BY <1>4, <1>7, <2>1
<1>12. CASE L = i - 1
  <2>1. n[i] # Dot
    BY <1>1, <1>6, <1>12 DEF Dot
  <2>2. b = 0
    <3>1. SUFFICES ASSUME b > 0 PROVE FALSE
      BY <1>3
    <3>2. b \in 1..3 /\ e.ext[b] # Blank
      BY <1>3, <3>1
    <3> QED BY <1>7, <2>1, <3>2
  <2>3. Len(W) = L
    BY <1>1, <1>2, <1>4, <1>10, <1>12, <2>2
  <2> QED BY <1>10, <1>11, <1>12, <2>3, CapitalsAre DEF W, L
<1>13. CASE n[i] = Dot /\ L \in (i + 1)..(i + 3) /\ n[L] # Blank
  <2> DEFINE k == L - i
  <2>1. k \in 1..3 /\ L = i + k /\ L \in 1..L
    BY <1>1, <1>6, <1>13
  <2> HIDE DEF k
  <2>2. b = k
    <3>1. CASE b < k
      <4>1. e.ext[k] = Blank
        BY <1>3, <2>1, <3>1
      <4>2. e.ext[k] = Upper(n[L])
        BY <1>7, <1>13, <2>1
      <4> QED BY <1>1, <1>13, <2>1, <4>1, <4>2, UpperIs
    <3>2. CASE b > k
      <4>1. b \in 1..3 /\ ~ (i + b <= L) /\ b > 0
        BY <1>3, <1>6, <2>1, <3>2
      <4> QED BY <1>3, <1>7, <4>1
    <3> QED BY <1>3, <2>1, <3>1, <3>2
  <2>3. Len(W) = L
    BY <1>1, <1>2, <1>4, <1>6, <1>10, <2>1, <2>2
  <2>4. ASSUME NEW x \in 1..L PROVE W[x] = Upper(n[x])
    <3>1. CASE x <= a
      <4>1. x \in 1..a
        BY <1>1, <1>2, <3>1
      <4> QED BY <1>11, <4>1
    <3>2. CASE x = a + 1
      <4>1. x = i /\ b > 0
        BY <1>6, <1>10, <2>1, <2>2, <3>2
      <4> QED BY <1>1, <1>4, <1>13, <3>2, <4>1, UpperIs
    <3>3. CASE x > a + 1
      <4> DEFINE y == x - (a + 1)
      <4>1. y \in 1..b /\ y \in 1..3 /\ x = a + 1 + y /\ x = i + y /\ i + y <= L /\ b > 0
        BY <1>1, <1>2, <1>3, <1>6, <1>10, <2>1, <2>2, <3>3
      <4> HIDE DEF y
      <4>2. W[x] = e.ext[y]
        BY <1>4, <4>1
      <4> QED BY <1>7, <1>13, <4>1, <4>2
    <3> QED BY <1>1, <1>2, <3>1, <3>2, <3>3
  <2> QED BY <2>3, <2>4, CapitalsAre DEF W, L
<1> QED BY <1>8, <1>9, <1>12, <1>13

-----------------------------------------------------------------------------
(* Long names.                                                              *)

\* The recursion of FlattenSeq has a function.
LEMMA FlattenExists ==
  ASSUME NEW seqs, NEW n \in Nat
  PROVE  \E f : f = [i \in 1..n |-> IF i = 1 THEN seqs[i] ELSE f[i - 1] \o seqs[i]]
<1> DEFINE Good(m, f) == f = [i \in 1..m |-> IF i = 1 THEN seqs[i] ELSE f[i - 1] \o seqs[i]]
           Bad == {m \in Nat : \A f : ~ Good(m, f)}
<1>1. SUFFICES ASSUME n \in Bad PROVE FALSE
  OBVIOUS
<1>2. PICK m \in Bad : \A k \in Bad : m <= k
  <2>1. Bad \in SUBSET Nat
    OBVIOUS
  <2> HIDE DEF Bad
  <2> QED BY <1>1, <2>1, LeastExists
<1>3. m \in Nat /\ \A f : ~ Good(m, f)
  OBVIOUS
<1>4. CASE m = 0
  <2> DEFINE f == [i \in 1..0 |-> 0]
  <2>1. Good(0, f)
    OBVIOUS
  <2> QED BY <1>3, <1>4, <2>1
<1>5. CASE m > 0
  <2>1. m - 1 \in Nat /\ m - 1 \notin Bad
    <3> HIDE DEF Bad
    <3>1. m - 1 \in Nat /\ ~ (m <= m - 1)
      BY <1>3, <1>5
    <3> QED BY <1>2, <3>1
  <2>2. PICK f : Good(m - 1, f)
    BY <2>1 DEF Bad
  <2> DEFINE g == [i \in 1..m |-> IF i < m THEN f[i]
                                  ELSE IF i = 1 THEN seqs[i] ELSE f[i - 1] \o seqs[i]]
  <2>3. ASSUME NEW i \in 1..m PROVE g[i] = IF i = 1 THEN seqs[i] ELSE g[i - 1] \o seqs[i]
    <3>1. CASE i < m
      <4>1. i \in 1..(m - 1) /\ (i # 1 => i - 1 \in 1..m /\ i - 1 < m)
        BY <1>3, <3>1
      <4>2. f[i] = IF i = 1 THEN seqs[i] ELSE f[i - 1] \o seqs[i]
        BY <2>2, <4>1
      <4> QED BY <3>1, <4>1, <4>2
    <3>2. CASE i = m
      <4>1. i # 1 => i - 1 \in 1..m /\ i - 1 < m
        BY <1>3, <3>2
      <4> QED BY <1>3, <3>2, <4>1
    <3> QED BY <1>3, <3>1, <3>2
  <2>4. Good(m, g)
    <3>1. g = [i \in 1..m |-> g[i]]
      OBVIOUS
    <3> HIDE DEF g
    <3> QED BY <2>3, <3>1
  <2> QED BY <1>3, <2>4
<1> QED BY <1>3, <1>4, <1>5

\* The character x of a row of parts of 13 characters.
CharOf(seqs, x) == seqs[((x - 1) \div 13) + 1][((x - 1) % 13) + 1]

\* Quotient and rest by thirteen.
LEMMA DivThirteen ==
  ASSUME NEW i \in Nat, NEW y \in 0..12
  PROVE  (13 * i + y) \div 13 = i /\ (13 * i + y) % 13 = y
OBVIOUS

\* A part more, behind those that were joined.
LEMMA PartJoined ==
  ASSUME NEW seqs, NEW i \in Nat, NEW front \in Seq(Byte), Len(front) = 13 * i,
         \A x \in 1..(13 * i) : front[x] = CharOf(seqs, x),
         seqs[i + 1] \in [1..13 -> Byte]
  PROVE  LET all == front \o seqs[i + 1]
         IN  /\ all \in Seq(Byte) /\ Len(all) = 13 * (i + 1)
             /\ \A x \in 1..(13 * (i + 1)) : all[x] = CharOf(seqs, x)
<1> DEFINE part == seqs[i + 1]
           all == front \o part
<1>1. part \in Seq(Byte) /\ Len(part) = 13
  <2>1. 13 \in Nat /\ part = [x \in 1..13 |-> part[x]] /\ \A x \in 1..13 : part[x] \in Byte
    OBVIOUS
  <2> HIDE DEF part
  <2>2. [x \in 1..13 |-> part[x]] \in Seq(Byte) /\ Len([x \in 1..13 |-> part[x]]) = 13
    BY <2>1, IsASeq
  <2> QED BY <2>1, <2>2
<1>2. /\ all \in Seq(Byte) /\ Len(all) = Len(front) + Len(part)
      /\ \A x \in 1..(Len(front) + Len(part)) :
           all[x] = IF x <= Len(front) THEN front[x] ELSE part[x - Len(front)]
  <2> HIDE DEF part
  <2> QED BY <1>1, ConcatProperties
<1> HIDE DEF all, part
<1>3. Len(all) = 13 * (i + 1)
  BY <1>1, <1>2
<1>4. ASSUME NEW x \in 1..(13 * (i + 1)) PROVE all[x] = CharOf(seqs, x)
  <2>1. CASE x <= 13 * i
    <3>1. x \in 1..(13 * i) /\ x \in 1..(Len(front) + Len(part)) /\ x <= Len(front)
      BY <1>1, <2>1
    <3> QED BY <1>2, <3>1
  <2>2. CASE x > 13 * i
    <3>1. (x - 1) \div 13 = i /\ (x - 1) % 13 = x - 1 - 13 * i
      <4>1. PICK y \in 0..12 : x - 1 = 13 * i + y
        <5>1. x - 1 - 13 * i \in 0..12 /\ x - 1 = 13 * i + (x - 1 - 13 * i)
          BY <2>2
        <5> QED BY <5>1
      <4>2. (13 * i + y) \div 13 = i /\ (13 * i + y) % 13 = y
        BY DivThirteen
      <4> QED BY <4>1, <4>2
    <3>2. x \in 1..(Len(front) + Len(part)) /\ ~ (x <= Len(front)) /\ x - Len(front) = x - 13 * i
      BY <1>1, <2>2
    <3>3. all[x] = part[x - 13 * i]
      BY <1>2, <3>2
    <3>4. ((x - 1) % 13) + 1 = x - 13 * i
      BY <3>1
    <3> QED BY <3>1, <3>3, <3>4 DEF CharOf, part
  <2> QED BY <2>1, <2>2
<1> QED BY <1>2, <1>3, <1>4 DEF all, part

\* The parts of a name, joined.
LEMMA FlattenIs ==
  ASSUME NEW seqs \in Seq([1..13 -> Byte]), Len(seqs) > 0
  PROVE  LET all == FlattenSeq(seqs)
         IN  /\ all \in Seq(Byte) /\ Len(all) = 13 * Len(seqs)
             /\ \A x \in 1..(13 * Len(seqs)) : all[x] = CharOf(seqs, x)
<1> DEFINE n == Len(seqs)
           Good(f) == f = [i \in 1..n |-> IF i = 1 THEN seqs[i] ELSE f[i - 1] \o seqs[i]]
           f == CHOOSE f : Good(f)
           Joined(i) == /\ f[i] \in Seq(Byte) /\ Len(f[i]) = 13 * i
                        /\ \A x \in 1..(13 * i) : f[i][x] = CharOf(seqs, x)
           Bad == {i \in 1..n : ~ Joined(i)}
<1>1. n \in Nat /\ n > 0
  OBVIOUS
<1>2. FlattenSeq(seqs) = f[n]
  BY <1>1 DEF FlattenSeq
<1> HIDE DEF n
<1>3. \E h : Good(h)
  BY <1>1, FlattenExists
<1>4. Good(f)
  BY <1>3
<1> HIDE DEF f
<1>5. \A i \in 1..n : f[i] = IF i = 1 THEN seqs[i] ELSE f[i - 1] \o seqs[i]
  BY <1>4
<1> HIDE DEF Good
<1>6. \A i \in 1..n : seqs[i] \in [1..13 -> Byte]
  BY DEF n
<1>7. \A i \in 1..n : Joined(i)
  <2>1. SUFFICES ASSUME Bad # {} PROVE FALSE
    <3> HIDE DEF Joined
    <3> QED OBVIOUS
  <2>2. Bad \in SUBSET Nat
    OBVIOUS
  <2>3. PICK i \in Bad : \A k \in Bad : i <= k
    <3> HIDE DEF Bad
    <3> QED BY <2>1, <2>2, LeastExists
  <2>4. i \in 1..n /\ ~ Joined(i) /\ i \in Nat
    BY <1>1
  <2>5. CASE i = 1
    <3>1. seqs[0 + 1] \in [1..13 -> Byte] /\ f[1] = seqs[1] /\ 0 + 1 = 1
      BY <1>5, <1>6, <2>4, <2>5
    <3>2. << >> \in Seq(Byte) /\ Len(<< >>) = 0 /\ 13 * 0 = 0 /\ 1..0 = {} /\ 0 \in Nat
      OBVIOUS
    <3>3. /\ << >> \o seqs[1] \in Seq(Byte) /\ Len(<< >> \o seqs[1]) = 13
          /\ \A x \in 1..13 : (<< >> \o seqs[1])[x] = CharOf(seqs, x)
      <4>1. PICK z \in Nat : z = 0
        OBVIOUS
      <4>2. /\ 13 * z = 0 /\ z + 1 = 1 /\ 13 * (z + 1) = 13
            /\ << >> \in Seq(Byte) /\ Len(<< >>) = 13 * z /\ seqs[z + 1] \in [1..13 -> Byte]
            /\ \A x \in 1..(13 * z) : << >>[x] = CharOf(seqs, x)
        BY <3>1, <3>2, <4>1
      <4>3. LET all == << >> \o seqs[z + 1]
            IN  /\ all \in Seq(Byte) /\ Len(all) = 13 * (z + 1)
                /\ \A x \in 1..(13 * (z + 1)) : all[x] = CharOf(seqs, x)
        BY <4>2, PartJoined
      <4> QED BY <4>2, <4>3
    <3>4. seqs[1] \in Seq(Byte)
      <4>1. 13 \in Nat /\ seqs[1] = [x \in 1..13 |-> seqs[1][x]]
            /\ \A x \in 1..13 : seqs[1][x] \in Byte
        BY <3>1
      <4>2. [x \in 1..13 |-> seqs[1][x]] \in Seq(Byte)
        BY <4>1, IsASeq
      <4> QED BY <4>1, <4>2
    <3>5. << >> \o seqs[1] = seqs[1]
      BY <3>4, ConcatEmptySeq
    <3>6. Joined(1)
      BY <3>1, <3>3, <3>5
    <3> QED BY <2>4, <2>5, <3>6
  <2>6. CASE i > 1
    <3>1. i - 1 \in Nat /\ i - 1 \in 1..n /\ i - 1 \notin Bad /\ (i - 1) + 1 = i
      BY <1>1, <2>3, <2>4, <2>6
    <3>2. Joined(i - 1)
      BY <3>1
    <3>3. LET all == f[i - 1] \o seqs[(i - 1) + 1]
          IN  /\ all \in Seq(Byte) /\ Len(all) = 13 * ((i - 1) + 1)
              /\ \A x \in 1..(13 * ((i - 1) + 1)) : all[x] = CharOf(seqs, x)
      <4>1. seqs[(i - 1) + 1] \in [1..13 -> Byte]
        BY <1>6, <2>4, <3>1
      <4> QED BY <3>1, <3>2, <4>1, PartJoined
    <3>4. f[i] = f[i - 1] \o seqs[i]
      <4>1. i \in 1..n /\ i # 1
        BY <2>4, <2>6
      <4> QED BY ONLY <1>5, <4>1
    <3>5. Joined(i)
      BY <3>1, <3>3, <3>4
    <3> QED BY <2>4, <3>5
  <2> QED BY <2>4, <2>5, <2>6
<1>8. Joined(n)
  BY <1>1, <1>7
<1> QED BY <1>2, <1>8 DEF n

\* The slots of the directory.
LEMMA SlotIs ==
  ASSUME NEW e \in Slot
  PROVE  /\ e.kind = "short" =>
              /\ e.name \in [1..8 -> Byte] /\ e.ext \in [1..3 -> Byte]
              /\ e.first_cluster_number_low \in Nat /\ e.size \in Nat
         /\ e.kind = "long" => e.chars \in [1..13 -> Byte] /\ e.order \in Byte
         /\ IsLastPart(e) => e.kind = "long"
<1>1. CASE e \in dirent_t
  <2>1. \A n \in uint16_t : n \in Nat
    BY DEF uint16_t
  <2> QED BY <1>1, <2>1 DEF dirent_t, IsLastPart
<1>2. CASE e \in long_file_name_ent_t
  BY <1>2 DEF long_file_name_ent_t
<1>3. CASE e \in [kind : {"end", "unused"}]
  BY <1>3 DEF IsLastPart
<1> QED BY <1>1, <1>2, <1>3 DEF Slot

\* The characters of the parts before slot s, in the order of the name.
PartsBefore(s, k) ==
  [x \in 1..(13 * k) |-> RootDir[s - 1 - ((x - 1) \div 13)].chars[((x - 1) % 13) + 1]]

\* Behind the last part of a long name are its other parts and the short entry.
LEMMA LongNameParts ==
  ASSUME NEW t \in 1..Len(RootDir), IsLastPart(RootDir[t])
  PROVE  LET k == Parts(RootDir[t])
         IN  /\ k \in Nat /\ k >= 1 /\ t + k \in 1..Len(RootDir)
             /\ RootDir[t].order = LAST_LONG_ENTRY + k
             /\ \A x \in 0..(k - 1) : /\ t + x \in 1..Len(RootDir) /\ RootDir[t + x].kind = "long"
                                      /\ RootDir[t + x].chars \in [1..13 -> Byte]
             /\ RootDir[t + k].kind = "short"
<1> DEFINE k == Parts(RootDir[t])
<1>0. RootDir \in Seq(Slot) /\ Len(RootDir) \in Nat /\ t \in Nat
  BY DiskAssumption DEF DiskAssumption, DirectoryIsWhole
<1>1. RootDir[t].kind = "long"
  BY DEF IsLastPart
<1>2. /\ RootDir[t].order \in 1..20 \cup (LAST_LONG_ENTRY + 1)..(LAST_LONG_ENTRY + 20)
      /\ t + Parts(RootDir[t]) <= Len(RootDir)
      /\ RootDir[t + Parts(RootDir[t])].kind = "short"
  BY <1>1, DiskAssumption DEF DiskAssumption, DirectoryIsWhole
<1>3. RootDir[t].order \in 65..84
  <2>1. (RootDir[t].order \div 64) % 2 = 1
    BY DEF IsLastPart, LAST_LONG_ENTRY
  <2>2. RootDir[t].order \in 1..20 => (RootDir[t].order \div 64) % 2 = 0
    OBVIOUS
  <2>3. RootDir[t].order \in 1..20 \/ RootDir[t].order \in 65..84
    BY ONLY <1>2 DEF LAST_LONG_ENTRY
  <2> QED BY <2>1, <2>2, <2>3
<1>4. k \in Nat /\ k >= 1 /\ RootDir[t].order = LAST_LONG_ENTRY + k
  <2>1. PICK o \in 65..84 : o = RootDir[t].order
    BY <1>3
  <2>2. o - 64 \in Nat /\ o - 64 >= 1 /\ o = 64 + (o - 64)
    OBVIOUS
  <2> QED BY <2>1, <2>2 DEF Parts, LAST_LONG_ENTRY
<1>5. \A i \in 1..(k - 1) : RootDir[t + i].kind = "long"
  BY FatAssumption DEF FatAssumption
<1> HIDE DEF k
<1>6. ASSUME NEW x \in 0..(k - 1)
      PROVE  /\ t + x \in 1..Len(RootDir) /\ RootDir[t + x].kind = "long"
             /\ RootDir[t + x].chars \in [1..13 -> Byte]
  <2>1. t + x \in 1..Len(RootDir)
    BY <1>0, <1>2, <1>4 DEF k
  <2>2. RootDir[t + x].kind = "long"
    <3>1. CASE x = 0
      BY <1>0, <1>1, <3>1
    <3>2. CASE x # 0
      <4>1. x \in 1..(k - 1)
        BY <1>4, <3>2
      <4> QED BY <1>5, <4>1
    <3> QED BY <3>1, <3>2
  <2>3. RootDir[t + x] \in Slot
    BY <1>0, <2>1
  <2> QED BY <2>1, <2>2, <2>3, SlotIs
<1> QED BY <1>0, <1>2, <1>4, <1>6 DEF k

\* The buffer that check_long_file_name fills before it looks for the end.
LEMMA BufferIs ==
  ASSUME NEW t \in 1..Len(RootDir), IsLastPart(RootDir[t])
  PROVE  LET k == Parts(RootDir[t])
             buffer == FlattenSeq(Reverse([x \in 1..k |-> RootDir[t + x - 1].chars]))
         IN  buffer \in Seq(Byte) /\ buffer = PartsBefore(t + k, k)
<1> DEFINE k == Parts(RootDir[t])
           parts == [x \in 1..k |-> RootDir[t + x - 1].chars]
           rev == Reverse(parts)
           buffer == FlattenSeq(rev)
           all == PartsBefore(t + k, k)
<1>1. /\ k \in Nat /\ k >= 1 /\ t \in Nat /\ t + k \in 1..Len(RootDir)
      /\ \A x \in 0..(k - 1) : RootDir[t + x].chars \in [1..13 -> Byte]
  <2>1. t \in Nat
    OBVIOUS
  <2> QED BY <2>1, LongNameParts
<1> HIDE DEF k
<1>2. parts \in Seq([1..13 -> Byte]) /\ Len(parts) = k
  <2>1. \A x \in 1..k : RootDir[t + x - 1].chars \in [1..13 -> Byte]
    <3>1. ASSUME NEW x \in 1..k PROVE RootDir[t + x - 1].chars \in [1..13 -> Byte]
      <4>1. x - 1 \in 0..(k - 1) /\ t + (x - 1) = t + x - 1
        BY <1>1
      <4> QED BY <1>1, <4>1
    <3> QED BY <3>1
  <2> QED BY <1>1, <2>1, IsASeq
<1>3. /\ rev \in Seq([1..13 -> Byte]) /\ Len(rev) = k
      /\ \A i \in 1..k : rev[i] = RootDir[t + k - i].chars
  <2>1. \A i \in 1..k : (k - i) + 1 \in 1..k /\ t + ((k - i) + 1) - 1 = t + k - i
    BY <1>1
  <2>2. rev = [i \in 1..k |-> parts[(k - i) + 1]]
    <3> HIDE DEF parts
    <3> QED BY <1>2 DEF Reverse
  <2>3. \A i \in 1..k : parts[(k - i) + 1] \in [1..13 -> Byte]
    <3> HIDE DEF parts
    <3> QED BY <1>2, <2>1
  <2>4. rev \in Seq([1..13 -> Byte]) /\ Len(rev) = k
    <3> HIDE DEF parts, rev
    <3> QED BY <1>1, <2>2, <2>3, IsASeq
  <2>5. \A i \in 1..k : rev[i] = parts[(k - i) + 1]
    <3> HIDE DEF parts, rev
    <3> QED BY <2>2
  <2> HIDE DEF rev
  <2>6. \A i \in 1..k : rev[i] = RootDir[t + ((k - i) + 1) - 1].chars
    BY <2>1, <2>5
  <2> QED BY <2>1, <2>4, <2>6
<1> HIDE DEF rev
<1>4. /\ buffer \in Seq(Byte) /\ Len(buffer) = 13 * k
      /\ \A x \in 1..(13 * k) : buffer[x] = CharOf(rev, x)
  <2>1. Len(rev) > 0
    BY <1>1, <1>3
  <2>2. /\ buffer \in Seq(Byte) /\ Len(buffer) = 13 * Len(rev)
        /\ \A x \in 1..(13 * Len(rev)) : buffer[x] = CharOf(rev, x)
    BY <1>3, <2>1, FlattenIs
  <2> QED BY <1>3, <2>2
<1> HIDE DEF buffer
<1>5. ASSUME NEW x \in 1..(13 * k)
      PROVE  buffer[x] = RootDir[(t + k) - 1 - ((x - 1) \div 13)].chars[((x - 1) % 13) + 1]
  <2>1. (x - 1) \div 13 \in Nat /\ (x - 1) \div 13 < k
    <3>1. x - 1 \in Nat /\ x - 1 < 13 * k
      BY <1>1
    <3> QED BY ONLY <1>1, <3>1
  <2> DEFINE q == (x - 1) \div 13
  <2>2. q + 1 \in 1..k /\ t + k - (q + 1) = (t + k) - 1 - q
    BY <1>1, <2>1
  <2> QED BY <1>3, <1>4, <2>2 DEF CharOf
<1>6. all = [x \in 1..(13 * k) |->
               RootDir[(t + k) - 1 - ((x - 1) \div 13)].chars[((x - 1) % 13) + 1]]
  BY DEF PartsBefore
<1>7. \A x \in 1..(13 * k) : all[x] = buffer[x]
  <2> HIDE DEF all
  <2> QED BY <1>5, <1>6
<1>8. all = [x \in 1..(13 * k) |-> buffer[x]] /\ buffer = [x \in 1..(13 * k) |-> buffer[x]]
  <2> HIDE DEF all
  <2> QED BY <1>4, <1>6, <1>7
<1> QED BY <1>4, <1>8 DEF k, buffer, rev, parts

\* What check_long_file_name compares the name with.
LEMMA LongNameIsChars ==
  ASSUME NEW t \in 1..Len(RootDir), IsLastPart(RootDir[t])
  PROVE  LET k == Parts(RootDir[t])
         IN  LongName[t] = Chars(Append(PartsBefore(t + k, k), 0))
<1> DEFINE k == Parts(RootDir[t])
           buffer == FlattenSeq(Reverse([x \in 1..k |-> RootDir[t + x - 1].chars]))
           str == Append(buffer, 0)
           L == strlen(str)
<1>1. buffer \in Seq(Byte) /\ buffer = PartsBefore(t + k, k)
  BY BufferIs
<1>2. LongName[t] = SubSeq(buffer, 1, strlen(buffer \o <<0>>))
  BY DEF LongName
<1> HIDE DEF buffer
<1>3. buffer \o <<0>> = str
  <2>1. 0 \in Byte
    BY DEF Byte
  <2> QED BY <1>1, <2>1, AppendIsConcat
<1>4. /\ str \in Seq(Byte) /\ Len(str) = Len(buffer) + 1 /\ str[Len(str)] = 0 /\ Len(str) \in 1..Len(str)
      /\ \A i \in 1..Len(buffer) : str[i] = buffer[i]
  <2>1. 0 \in Byte
    BY DEF Byte
  <2> QED BY <1>1, <2>1
<1> HIDE DEF str
<1>5. L \in Nat /\ L <= Len(buffer)
  <2>1. \E i \in 1..Len(str) : str[i] = 0
    BY <1>4
  <2>2. strlen(str) \in Nat /\ strlen(str) + 1 \in 1..Len(str)
    BY <1>4, <2>1, StrlenIs
  <2> QED BY <1>1, <1>4, <2>2
<1> HIDE DEF L
<1>6. SubSeq(buffer, 1, L) = SubSeq(str, 1, L)
  <2>1. \A i \in 1..L : i \in 1..Len(buffer) /\ str[i] = buffer[i]
    BY <1>1, <1>4, <1>5
  <2>2. /\ SubSeq(buffer, 1, L) = [i \in 1..L |-> buffer[i]]
        /\ SubSeq(str, 1, L) = [i \in 1..L |-> str[i]]
    BY <1>1, <1>4, <1>5
  <2> QED BY <2>1, <2>2
<1>7. LongName[t] = SubSeq(str, 1, L)
  BY <1>2, <1>3, <1>6 DEF L
<1> QED BY <1>1, <1>7 DEF Chars, L, str, k

\* The layout is made of numbers.
LEMMA BootNumbers ==
  /\ root_dir_sectors \in Nat /\ root_start_lba \in Nat /\ data_start_lba \in Nat
  /\ fat_start_sector \in Nat
<1>1. BootSector \in fat_BS_t
  BY FatAssumption DEF FatAssumption
<1>2. uint16_t \subseteq Nat /\ Byte \subseteq Nat
  BY DEF uint16_t, Byte
<1>3. /\ BootSector.reserved_sector_count \in Nat /\ BootSector.table_count \in Nat
      /\ BootSector.table_size_16 \in Nat /\ BootSector.root_entry_count \in Nat
  BY <1>1, <1>2 DEF fat_BS_t
<1>4. BootSector.table_count * BootSector.table_size_16 \in Nat
  BY <1>3
<1>5. root_dir_sectors \in Nat
  BY <1>3 DEF root_dir_sectors, BYTES_PER_SECTOR
<1> QED BY <1>3, <1>4, <1>5 DEF root_start_lba, data_start_lba, fat_start_sector

\* The directory that is searched fills its sectors.
LEMMA SlotInRoot ==
  ASSUME NEW i \in 0..(root_dir_sectors - 1), NEW j \in 0..(PER_SECTOR - 1)
  PROVE  /\ i * PER_SECTOR + j + 1 \in 1..Len(RootDir)
         /\ RootDir[i * PER_SECTOR + j + 1] \in Slot
         /\ Entry(i, j) = RootDir[i * PER_SECTOR + j + 1]
<1>1. RootDir \in Seq(Slot) /\ Len(RootDir) = root_dir_sectors * PER_SECTOR /\ PER_SECTOR = 16
  BY DiskAssumption DEF DiskAssumption, DirectoryIsWhole, PER_SECTOR, BYTES_PER_SECTOR
<1>2. Len(RootDir) \in Nat /\ root_dir_sectors \in Int
  BY <1>1, BootNumbers
<1>3. i * 16 + j + 1 \in 1..Len(RootDir)
  BY <1>1, <1>2
<1>4. i * PER_SECTOR + j + 1 \in 1..Len(RootDir)
  BY <1>1, <1>3
<1> QED BY <1>1, <1>4 DEF Entry

-----------------------------------------------------------------------------
(* The search of the directory.                                             *)

\* find_by_name has made the capitals of the name it looks for.
Searching == name \in Names /\ n83 = upper_padding(name)

\* What FoundAt and Match say, slot by slot of the directory.
LEMMA ShortMatch ==
  ASSUME Searching, NEW e \in Slot, e.kind = "short"
  PROVE  memcmp(e.name, n83.name8, 8) = 0 /\ memcmp(e.ext, n83.ext3, 3) = 0
           <=> e.name = upper_padding(name).name8 /\ e.ext = upper_padding(name).ext3
<1>1. IsName(name) /\ n83 = upper_padding(name)
  BY FatAssumption DEF FatAssumption, Searching, IsName
<1>2. e.name \in [1..8 -> Byte] /\ e.ext \in [1..3 -> Byte]
  BY SlotIs
<1>3. upper_padding(name).name8 \in [1..8 -> Byte] /\ upper_padding(name).ext3 \in [1..3 -> Byte]
  BY <1>1, UpperPaddingIs
<1>4. 8 \in Nat /\ 3 \in Nat
  OBVIOUS
<1>5. memcmp(e.name, n83.name8, 8) = 0 <=> \A x \in 1..8 : e.name[x] = n83.name8[x]
  BY <1>4, MemcmpIsZero
<1>6. memcmp(e.ext, n83.ext3, 3) = 0 <=> \A x \in 1..3 : e.ext[x] = n83.ext3[x]
  BY <1>4, MemcmpIsZero
<1>7. (\A x \in 1..8 : e.name[x] = n83.name8[x]) <=> e.name = n83.name8
  BY <1>1, <1>2, <1>3
<1>8. (\A x \in 1..3 : e.ext[x] = n83.ext3[x]) <=> e.ext = n83.ext3
  BY <1>1, <1>2, <1>3
<1> QED BY <1>1, <1>5, <1>6, <1>7, <1>8

\* A short entry of the directory that upper_padding's capitals name is called so.
LEMMA ShortFound ==
  ASSUME Searching, NEW s \in 1..Len(RootDir), RootDir[s].kind = "short",
         memcmp(RootDir[s].name, n83.name8, 8) = 0, memcmp(RootDir[s].ext, n83.ext3, 3) = 0
  PROVE  s \in Called(name)
<1> DEFINE e == RootDir[s]
<1>1. IsName(name) /\ name \in Names
  BY FatAssumption DEF FatAssumption, Searching, IsName
<1>2. e \in Slot
  BY DiskAssumption DEF DiskAssumption, DirectoryIsWhole
<1>3. e.name = upper_padding(name).name8 /\ e.ext = upper_padding(name).ext3
  BY <1>2, ShortMatch
<1>4. IsShortName(name)
  BY <1>1, <1>3, DiskAssumption DEF DiskAssumption, NothingCut
<1>5. e.name \in [1..8 -> Byte] /\ e.ext \in [1..3 -> Byte]
  BY <1>2, SlotIs
<1>6. Written(e) = [x \in 1..strlen(name) |-> Upper(name[x])]
  <2>1. /\ \A x \in 1..8 : e.name[x] = upper_padding(name).name8[x]
        /\ \A x \in 1..3 : e.ext[x] = upper_padding(name).ext3[x]
    BY <1>3
  <2> QED BY <1>1, <1>4, <1>5, <2>1, MatchIsShortName
<1> QED BY <1>6 DEF Called, HasShortName

\* The short entry behind the parts of a long name that is the one looked for.
LEMMA LongFound ==
  ASSUME NEW t \in 1..Len(RootDir), IsLastPart(RootDir[t]),
         LongName[t] = SubSeq(name, 1, strlen(name))
  PROVE  t + Parts(RootDir[t]) \in Called(name)
<1> DEFINE k == Parts(RootDir[t])
           s == t + k
<1>1. /\ k \in Nat /\ k >= 1 /\ s \in 1..Len(RootDir) /\ RootDir[t].order = LAST_LONG_ENTRY + k
      /\ RootDir[s].kind = "short"
  BY LongNameParts
<1>2. LongName[t] = Chars(Append(PartsBefore(s, k), 0))
  BY LongNameIsChars
<1>3. RootDir[t].kind = "long" /\ t \in Nat
  BY DEF IsLastPart
<1> HIDE DEF k
<1>4. k \in 1..(s - 1) /\ s - k = t
  BY <1>1, <1>3
<1>5. Chars(Append(PartsBefore(s, k), 0)) = Chars(name)
  BY <1>2 DEF Chars
<1> HIDE DEF s
<1>6. HasLongName(s, name)
  BY <1>1, <1>3, <1>4, <1>5 DEF HasLongName, PartsBefore
<1>7. s \in Called(name)
  BY <1>1, <1>6 DEF Called
<1> QED BY <1>7 DEF s, k

\* A slot that is called so has a match: itself, or the parts before it.
LEMMA CalledMatches ==
  ASSUME Searching, NEW s \in Called(name)
  PROVE  \E t \in 1..Len(RootDir) :
           \/ /\ t = s /\ RootDir[t].kind = "short"
              /\ memcmp(RootDir[t].name, n83.name8, 8) = 0
              /\ memcmp(RootDir[t].ext, n83.ext3, 3) = 0
           \/ /\ IsLastPart(RootDir[t]) /\ s = t + Parts(RootDir[t])
              /\ LongName[t] = SubSeq(name, 1, strlen(name))
<1>1. s \in 1..Len(RootDir) /\ s \in Nat /\ RootDir[s].kind = "short" /\ RootDir[s] \in Slot
  BY DiskAssumption DEF Called, DiskAssumption, DirectoryIsWhole
<1>2. CASE HasShortName(s, name)
  <2> DEFINE e == RootDir[s]
  <2>1. IsName(name)
    BY FatAssumption DEF FatAssumption, Searching, IsName
  <2>2. e.name \in [1..8 -> Byte] /\ e.ext \in [1..3 -> Byte]
    BY <1>1, SlotIs
  <2>3. \A x \in 1..8 : e.name[x] # Dot
    BY <1>1, DiskAssumption DEF DiskAssumption, DirectoryIsWhole
  <2>4. Written(e) = [x \in 1..strlen(name) |-> Upper(name[x])]
    BY <1>2 DEF HasShortName
  <2>5. /\ \A x \in 1..8 : e.name[x] = upper_padding(name).name8[x]
        /\ \A x \in 1..3 : e.ext[x] = upper_padding(name).ext3[x]
    <3> HIDE DEF e
    <3> QED BY <2>1, <2>2, <2>3, <2>4, ShortNameMatches
  <2>6. 8 \in Nat /\ 3 \in Nat /\ n83 = upper_padding(name)
    BY DEF Searching
  <2>7. memcmp(e.name, n83.name8, 8) = 0 /\ memcmp(e.ext, n83.ext3, 3) = 0
    BY <2>5, <2>6, MemcmpIsZero
  <2> QED BY <1>1, <2>7
<1>3. CASE HasLongName(s, name)
  <2>1. PICK k \in 1..(s - 1) :
          /\ RootDir[s - k].kind = "long" /\ RootDir[s - k].order = LAST_LONG_ENTRY + k
          /\ Chars(Append(PartsBefore(s, k), 0)) = Chars(name)
    BY <1>3 DEF HasLongName, PartsBefore
  <2> DEFINE t == s - k
  <2>2. t \in 1..Len(RootDir) /\ t + k = s /\ k \in Nat /\ k >= 1
    BY <1>1
  <2> HIDE DEF t
  <2>3. RootDir[t].kind = "long" /\ RootDir[t].order = 64 + k
    BY <2>1 DEF t, LAST_LONG_ENTRY
  <2>4. RootDir[t].order \in 1..20 \cup (LAST_LONG_ENTRY + 1)..(LAST_LONG_ENTRY + 20)
    BY <2>2, <2>3, DiskAssumption DEF DiskAssumption, DirectoryIsWhole
  <2>5. ((64 + k) \div 64) % 2 = 1 /\ (64 + k) - 64 = k
    <3>1. k <= 20
      BY <2>2, <2>3, <2>4 DEF LAST_LONG_ENTRY
    <3>2. (64 + k) \div 64 = 1
      BY <2>2, <3>1
    <3> QED BY <2>2, <3>2
  <2>6. IsLastPart(RootDir[t]) /\ Parts(RootDir[t]) = k
    BY <2>3, <2>5 DEF IsLastPart, Parts, LAST_LONG_ENTRY
  <2>7. LongName[t] = Chars(Append(PartsBefore(t + k, k), 0))
    BY <2>2, <2>6, LongNameIsChars
  <2>8. LongName[t] = SubSeq(name, 1, strlen(name))
    BY <2>1, <2>2, <2>7 DEF Chars
  <2> QED BY <2>2, <2>6, <2>8
<1> QED BY <1>2, <1>3 DEF Called

\* A slot where the search stops with a match leads to a slot called so.
LEMMA MatchCalled ==
  ASSUME Searching, NEW i \in 0..(root_dir_sectors - 1), NEW j \in 0..(PER_SECTOR - 1),
         Match(i, j), FoundAt(i, j) < PER_SECTOR
  PROVE  i * PER_SECTOR + FoundAt(i, j) + 1 \in Called(name)
<1> DEFINE t == i * PER_SECTOR + j + 1
           e == RootDir[t]
<1>1. t \in 1..Len(RootDir) /\ e \in Slot /\ Entry(i, j) = e /\ PER_SECTOR = 16 /\ i \in Nat /\ j \in Nat
  <2>1. root_dir_sectors \in Nat /\ PER_SECTOR = 16
    BY BootNumbers DEF PER_SECTOR, BYTES_PER_SECTOR
  <2>2. i \in Nat /\ j \in Nat
    BY <2>1
  <2>3. t \in 1..Len(RootDir) /\ e \in Slot /\ Entry(i, j) = e
    BY SlotInRoot
  <2> QED BY <2>1, <2>2, <2>3
<1> HIDE DEF t
<1>2. CASE /\ e.kind = "short" /\ memcmp(e.name, n83.name8, 8) = 0
           /\ memcmp(e.ext, n83.ext3, 3) = 0
  <2>1. FoundAt(i, j) = j
    BY <1>1, <1>2 DEF FoundAt
  <2>2. t \in Called(name)
    BY <1>1, <1>2, ShortFound
  <2> QED BY <2>1, <2>2 DEF t
<1>3. CASE /\ IsLastPart(e)
           /\ j + Parts(e) > PER_SECTOR \/ LongNameIs(i, j, name)
  <2>1. e.kind = "long" /\ FoundAt(i, j) = j + Parts(e)
    BY <1>1, <1>3 DEF FoundAt, IsLastPart
  <2>2. Parts(e) \in Nat
    BY <1>1, <1>3, LongNameParts
  <2>3. LongNameIs(i, j, name)
    BY <1>1, <1>3, <2>1, <2>2
  <2>4. t + Parts(e) \in Called(name)
    BY <1>1, <1>3, <2>3, LongFound DEF LongNameIs, t
  <2>5. i * 16 + (j + Parts(e)) + 1 = (i * 16 + j + 1) + Parts(e)
    BY <1>1, <2>2
  <2> QED BY <1>1, <2>1, <2>4, <2>5 DEF t
<1> QED BY <1>1, <1>2, <1>3 DEF Match

\* Each slot lies in a sector.
LEMMA SectorOfSlot ==
  ASSUME NEW t \in 1..Len(RootDir)
  PROVE  \E i \in 0..(root_dir_sectors - 1), j \in 0..(PER_SECTOR - 1) :
           t = i * PER_SECTOR + j + 1
<1>1. root_dir_sectors \in Nat /\ PER_SECTOR = 16 /\ Len(RootDir) = root_dir_sectors * 16
  BY BootNumbers, DiskAssumption
  DEF DiskAssumption, DirectoryIsWhole, PER_SECTOR, BYTES_PER_SECTOR
<1> DEFINE i == (t - 1) \div 16
           j == (t - 1) % 16
<1>2. t - 1 \in Nat /\ t - 1 < root_dir_sectors * 16
  BY <1>1
<1>3. i \in 0..(root_dir_sectors - 1) /\ j \in 0..15 /\ t - 1 = i * 16 + j
  BY <1>1, <1>2
<1> HIDE DEF i, j
<1>4. t = i * 16 + j + 1
  BY <1>3
<1> QED BY <1>1, <1>3, <1>4

\* The search stops at each match, so at the first one: that of the file.
LEMMA FoundIsFirst ==
  ASSUME Searching, NEW i \in 0..(root_dir_sectors - 1), Stops(i) # {},
         \A h \in 0..(i - 1) : Stops(h) = {},
         Entry(i, Min(Stops(i))).kind # "end", FoundAt(i, Min(Stops(i))) < PER_SECTOR
  PROVE  /\ Called(name) # {}
         /\ Entry(i, FoundAt(i, Min(Stops(i)))) = FileOf(name)
<1> DEFINE j == Min(Stops(i))
           t == i * PER_SECTOR + j + 1
           f == i * PER_SECTOR + FoundAt(i, j) + 1
<1>0. PER_SECTOR = 16 /\ root_dir_sectors \in Nat /\ i \in Nat
  BY BootNumbers DEF PER_SECTOR, BYTES_PER_SECTOR
<1>1. j \in Stops(i) /\ j \in Nat /\ \A y \in Stops(i) : j <= y
  <2>1. Stops(i) \in SUBSET Nat
    BY <1>0 DEF Stops
  <2> QED BY <2>1, MinIsLeast
<1> HIDE DEF j
<1>2. j \in 0..(PER_SECTOR - 1) /\ Match(i, j)
  BY <1>1 DEF Stops, j
<1>3. t \in 1..Len(RootDir) /\ RootDir[t] \in Slot /\ Entry(i, j) = RootDir[t]
  BY <1>2, SlotInRoot
<1>4. f \in Called(name)
  BY <1>2, MatchCalled DEF j
<1>5. /\ t \in Nat /\ f \in Nat
      /\ \/ f = t
         \/ /\ IsLastPart(RootDir[t]) /\ f = t + Parts(RootDir[t])
            /\ \A x \in 0..(Parts(RootDir[t]) - 1) : RootDir[t + x].kind = "long"
  <2>1. t \in Nat /\ f \in Nat
    BY <1>3, <1>4 DEF Called
  <2>2. CASE RootDir[t].kind = "short"
    BY <1>3, <2>1, <2>2 DEF FoundAt
  <2>3. CASE IsLastPart(RootDir[t])
    <3>1. Parts(RootDir[t]) \in Nat /\ \A x \in 0..(Parts(RootDir[t]) - 1) : RootDir[t + x].kind = "long"
      BY <1>3, <2>3, LongNameParts
    <3>2. FoundAt(i, j) = j + Parts(RootDir[t])
      BY <1>3, <2>3 DEF FoundAt, IsLastPart
    <3>3. i * 16 + (j + Parts(RootDir[t])) + 1 = (i * 16 + j + 1) + Parts(RootDir[t])
      BY <1>0, <1>1, <3>1
    <3> QED BY <1>0, <2>1, <2>3, <3>1, <3>2, <3>3
  <2> QED BY <1>2, <1>3, <2>2, <2>3 DEF Match
<1> HIDE DEF t, f
<1>6. ASSUME NEW s \in Called(name) PROVE f <= s
  <2>1. s \in Nat /\ RootDir[s].kind = "short"
    BY DEF Called
  <2>2. PICK u \in 1..Len(RootDir) :
           \/ /\ u = s /\ RootDir[u].kind = "short"
              /\ memcmp(RootDir[u].name, n83.name8, 8) = 0
              /\ memcmp(RootDir[u].ext, n83.ext3, 3) = 0
           \/ /\ IsLastPart(RootDir[u]) /\ s = u + Parts(RootDir[u])
              /\ LongName[u] = SubSeq(name, 1, strlen(name))
    BY CalledMatches
  <2>3. PICK h \in 0..(root_dir_sectors - 1), y \in 0..(PER_SECTOR - 1) :
           u = h * PER_SECTOR + y + 1
    BY SectorOfSlot
  <2>4. Entry(h, y) = RootDir[u]
    BY <2>3 DEF Entry
  <2>5. Match(h, y)
    BY <2>2, <2>3, <2>4 DEF Match, LongNameIs
  <2>6. y \in Stops(h)
    BY <2>5 DEF Stops
  <2>7. h \in Nat /\ y \in 0..15 /\ h >= i
    BY <1>0, <2>6
  <2>8. t <= u
    <3>1. CASE h = i
      <4>1. j <= y
        BY <1>1, <2>6, <3>1
      <4> QED BY <1>0, <1>1, <2>3, <2>7, <3>1, <4>1 DEF t
    <3>2. CASE h > i
      <4>1. j \in 0..15
        BY <1>0, <1>2
      <4>2. i * 16 + j + 1 <= h * 16 + y + 1
        BY <1>0, <2>7, <3>2, <4>1
      <4> QED BY <1>0, <2>3, <4>2 DEF t
    <3> QED BY <1>0, <2>7, <3>1, <3>2
  <2>9. u \in Nat /\ u <= s
    <3>1. CASE u = s
      BY <2>1, <3>1
    <3>2. CASE IsLastPart(RootDir[u]) /\ s = u + Parts(RootDir[u])
      <4>1. Parts(RootDir[u]) \in Nat /\ u \in Nat
        BY <3>2, LongNameParts
      <4> QED BY <3>2, <4>1
    <3> QED BY <2>2, <3>1, <3>2
  <2>10. t <= s
    BY <1>5, <2>1, <2>8, <2>9
  <2>11. CASE f = t
    BY <2>10, <2>11
  <2>12. CASE /\ IsLastPart(RootDir[t]) /\ f = t + Parts(RootDir[t])
              /\ \A x \in 0..(Parts(RootDir[t]) - 1) : RootDir[t + x].kind = "long"
    <3>1. Parts(RootDir[t]) \in Nat
      BY <1>3, <2>12, LongNameParts DEF t
    <3>2. SUFFICES ASSUME s < f PROVE FALSE
      BY <1>5, <2>1
    <3> DEFINE x == s - t
    <3>3. x \in 0..(Parts(RootDir[t]) - 1) /\ t + x = s
      BY <1>5, <2>1, <2>10, <2>12, <3>1, <3>2
    <3> HIDE DEF x
    <3>4. RootDir[s].kind = "long"
      BY <2>12, <3>3
    <3> QED BY <2>1, <3>4
  <2> QED BY <1>5, <2>11, <2>12
<1>7. Min(Called(name)) = f
  <2>1. Called(name) \in SUBSET Nat
    BY DEF Called
  <2>2. Min(Called(name)) \in Called(name) /\ Min(Called(name)) \in Nat /\ Min(Called(name)) <= f
    BY <1>4, <2>1, MinIsLeast
  <2>3. f <= Min(Called(name))
    BY <1>6, <2>2
  <2> QED BY <1>5, <2>2, <2>3
<1>8. Entry(i, FoundAt(i, j)) = RootDir[f]
  BY DEF Entry, f
<1> QED BY <1>4, <1>7, <1>8 DEF FileOf, j

-----------------------------------------------------------------------------
(* The file allocation table.                                               *)

\* The numbers of twelve bits and of four.
Bits12 == 0..4095
Bits4  == 0..15

\* An even cluster's value takes a byte and the low half of the next one, the
\* odd one's the other half and the byte behind.
LEMMA EvenPicked ==
  ASSUME NEW a \in Bits12, NEW x \in Bits4
  PROVE  ((a % 256) + 256 * ((a \div 256) + 16 * x)) % 4096 = a
<1>1. (a % 256) + 256 * ((a \div 256) + 16 * x) = a + 4096 * x
  BY DEF Bits12, Bits4
<1>2. (a + 4096 * x) % 4096 = a
  BY DEF Bits12, Bits4
<1> QED BY <1>1, <1>2

LEMMA OddPicked ==
  ASSUME NEW a \in Bits12, NEW x \in Bits4
  PROVE  ((x + 16 * (a % 16)) + 256 * (a \div 16)) \div 16 = a
<1>1. (x + 16 * (a % 16)) + 256 * (a \div 16) = 16 * a + x
  BY DEF Bits12, Bits4
<1>2. (16 * a + x) \div 16 = a
  BY DEF Bits12, Bits4
<1> QED BY <1>1, <1>2

\* read_fat_entry gives the cluster's value unless the two bytes lie in two sectors.
LEMMA EntryRead ==
  ASSUME NEW c \in DOMAIN Fat, ~ Straddles(c)
  PROVE  FatEntry(c) = {Fat[c]}
<1> DEFINE o == FatOffset(c)
           v == Pick(c, FatByte(o), FatByte(o + 1))
<1>1. c \in Nat /\ \A d \in DOMAIN Fat : Fat[d] \in Bits12
  <2>1. DOMAIN Fat = 0..(Cardinality(DOMAIN Fat) - 1)
    BY FatAssumption DEF FatAssumption
  <2>2. \A d \in DOMAIN Fat : Fat[d] \in Bits12
    BY FatAssumption DEF FatAssumption, Bits12
  <2>3. c \in Nat
    <3> DEFINE D == DOMAIN Fat
               X == Cardinality(DOMAIN Fat)
    <3>1. D = 0..(X - 1) /\ c \in D
      BY <2>1
    <3> HIDE DEF D, X
    <3> QED BY ONLY <3>1
  <2> QED BY <2>2, <2>3
<1>2. FatEntry(c) = {v}
  BY DEF FatEntry
<1>3. CASE c % 2 = 0
  <2>1. PICK m \in Nat : c = 2 * m
    <3>1. c \div 2 \in Nat /\ c = 2 * (c \div 2)
      BY <1>1, <1>3
    <3> QED BY <3>1
  <2>2. c + 1 \in DOMAIN Fat
    BY <1>3, DiskAssumption DEF DiskAssumption, ChainsAreWhole
  <2>3. Fat[c] \in Bits12 /\ Fat[c + 1] % 16 \in Bits4
    <3>1. Fat[c + 1] \in Bits12 /\ Fat[c] \in Bits12
      BY <1>1, <2>2
    <3>2. \A z \in Bits12 : z % 16 \in Bits4
      BY ONLY DEF Bits12, Bits4
    <3> QED BY <3>1, <3>2
  <2>4. /\ o = 3 * m /\ o % 3 = 0 /\ (o + 1) % 3 = 1
        /\ 2 * (o \div 3) = c /\ 2 * ((o + 1) \div 3) = c
    BY <2>1 DEF FatOffset
  <2> HIDE DEF o
  <2>5. FatByte(o) = Fat[c] % 256
    BY <2>4 DEF FatByte
  <2>6. FatByte(o + 1) = (Fat[c] \div 256) + 16 * (Fat[c + 1] % 16)
    BY <2>4 DEF FatByte
  <2>7. v = ((Fat[c] % 256) + 256 * ((Fat[c] \div 256) + 16 * (Fat[c + 1] % 16))) % 4096
    BY <1>3, <2>5, <2>6 DEF Pick
  <2>8. v = Fat[c]
    <3>1. PICK a \in Bits12, x \in Bits4 : a = Fat[c] /\ x = Fat[c + 1] % 16
      BY <2>3
    <3>2. ((a % 256) + 256 * ((a \div 256) + 16 * x)) % 4096 = a
      BY <3>1, EvenPicked
    <3> HIDE DEF v
    <3> QED BY ONLY <2>7, <3>1, <3>2
  <2> QED BY <1>2, <2>8 DEF o
<1>4. CASE c % 2 = 1
  <2>1. PICK m \in Nat : c = 2 * m + 1
    <3>1. c \div 2 \in Nat /\ c = 2 * (c \div 2) + 1
      BY <1>1, <1>4
    <3> QED BY <3>1
  <2>2. c - 1 \in DOMAIN Fat
    BY <1>4, DiskAssumption DEF DiskAssumption, ChainsAreWhole
  <2>3. Fat[c] \in Bits12 /\ Fat[c - 1] \div 256 \in Bits4
    <3>1. Fat[c - 1] \in Bits12 /\ Fat[c] \in Bits12
      BY <1>1, <2>2
    <3>2. \A z \in Bits12 : z \div 256 \in Bits4
      BY ONLY DEF Bits12, Bits4
    <3> QED BY <3>1, <3>2
  <2>4. /\ o = 3 * m + 1 /\ o % 3 = 1 /\ (o + 1) % 3 = 2
        /\ 2 * (o \div 3) = c - 1 /\ 2 * ((o + 1) \div 3) = c - 1 /\ (c - 1) + 1 = c
    BY <2>1 DEF FatOffset
  <2> HIDE DEF o
  <2>5. FatByte(o) = (Fat[c - 1] \div 256) + 16 * (Fat[c] % 16)
    BY <2>4 DEF FatByte
  <2>6. FatByte(o + 1) = Fat[c] \div 16
    BY <2>4 DEF FatByte
  <2>7. v = (((Fat[c - 1] \div 256) + 16 * (Fat[c] % 16)) + 256 * (Fat[c] \div 16)) \div 16
    BY <1>4, <2>5, <2>6 DEF Pick
  <2>8. v = Fat[c]
    <3>1. PICK a \in Bits12, x \in Bits4 : a = Fat[c] /\ x = Fat[c - 1] \div 256
      BY <2>3
    <3>2. ((x + 16 * (a % 16)) + 256 * (a \div 16)) \div 16 = a
      BY <3>1, OddPicked
    <3> HIDE DEF v
    <3> QED BY ONLY <2>7, <3>1, <3>2
  <2> QED BY <1>2, <2>8 DEF o
<1>5. c % 2 \in {0, 1}
  BY <1>1
<1> QED BY <1>3, <1>4, <1>5

\* The recursion along a chain has a function.
LEMMA ChainExists ==
  ASSUME NEW first, NEW n \in Nat
  PROVE  \E f : f = [k \in 1..n |-> IF k = 1 THEN first ELSE Fat[f[k - 1]]]
<1> DEFINE Good(m, f) == f = [k \in 1..m |-> IF k = 1 THEN first ELSE Fat[f[k - 1]]]
           Bad == {m \in Nat : \A f : ~ Good(m, f)}
<1>1. SUFFICES ASSUME n \in Bad PROVE FALSE
  OBVIOUS
<1>2. PICK m \in Bad : \A k \in Bad : m <= k
  <2>1. Bad \in SUBSET Nat
    OBVIOUS
  <2> HIDE DEF Bad
  <2> QED BY <1>1, <2>1, LeastExists
<1>3. m \in Nat /\ \A f : ~ Good(m, f)
  OBVIOUS
<1>4. CASE m = 0
  <2> DEFINE f == [k \in 1..0 |-> 0]
  <2>1. Good(0, f)
    OBVIOUS
  <2> QED BY <1>3, <1>4, <2>1
<1>5. CASE m > 0
  <2>1. m - 1 \in Nat /\ m - 1 \notin Bad
    <3> HIDE DEF Bad
    <3>1. m - 1 \in Nat /\ ~ (m <= m - 1)
      BY <1>3, <1>5
    <3> QED BY <1>2, <3>1
  <2>2. PICK f : Good(m - 1, f)
    BY <2>1 DEF Bad
  <2> DEFINE g == [k \in 1..m |-> IF k < m THEN f[k]
                                  ELSE IF k = 1 THEN first ELSE Fat[f[k - 1]]]
  <2>3. ASSUME NEW k \in 1..m PROVE g[k] = IF k = 1 THEN first ELSE Fat[g[k - 1]]
    <3>1. CASE k < m
      <4>1. k \in 1..(m - 1) /\ (k # 1 => k - 1 \in 1..m /\ k - 1 < m)
        BY <1>3, <3>1
      <4>2. f[k] = IF k = 1 THEN first ELSE Fat[f[k - 1]]
        BY <2>2, <4>1
      <4> QED BY <3>1, <4>1, <4>2
    <3>2. CASE k = m
      <4>1. k # 1 => k - 1 \in 1..m /\ k - 1 < m
        BY <1>3, <3>2
      <4> QED BY <1>3, <3>2, <4>1
    <3> QED BY <1>3, <3>1, <3>2
  <2>4. Good(m, g)
    <3>1. g = [k \in 1..m |-> g[k]]
      OBVIOUS
    <3> HIDE DEF g
    <3> QED BY <2>3, <3>1
  <2> QED BY <1>3, <2>4
<1> QED BY <1>3, <1>4, <1>5

\* The chain of a file, cluster by cluster.
LEMMA ClusterOfIs ==
  ASSUME NEW n
  PROVE  /\ ClusterOf(n, 1) = FileOf(n).first_cluster_number_low
         /\ \A i \in Nat : i >= 1 => ClusterOf(n, i + 1) = Fat[ClusterOf(n, i)]
<1> DEFINE first == FileOf(n).first_cluster_number_low
           Good(m, f) == f = [k \in 1..m |-> IF k = 1 THEN first ELSE Fat[f[k - 1]]]
           F(m) == CHOOSE f : Good(m, f)
<1>1. \A m : ClusterOf(n, m) = F(m)[m]
  BY DEF ClusterOf
<1> HIDE DEF first
<1>2. \A m \in Nat : Good(m, F(m))
  <2>1. ASSUME NEW m \in Nat PROVE Good(m, F(m))
    <3>1. \A k \in Nat : \E f : Good(k, f)
      BY ChainExists
    <3> HIDE DEF Good
    <3> QED BY <3>1
  <2> QED BY <2>1
<1> HIDE DEF F
<1>3. \A m \in Nat : \A k \in 1..m : F(m)[k] = IF k = 1 THEN first ELSE Fat[F(m)[k - 1]]
  <2>1. ASSUME NEW m \in Nat, NEW k \in 1..m
        PROVE  F(m)[k] = IF k = 1 THEN first ELSE Fat[F(m)[k - 1]]
    <3>1. Good(m, F(m))
      BY <1>2
    <3> DEFINE f == F(m)
    <3>2. Good(m, f)
      BY <3>1
    <3> HIDE DEF f
    <3>3. f[k] = IF k = 1 THEN first ELSE Fat[f[k - 1]]
      BY <3>2
    <3> QED BY <3>3 DEF f
  <2> QED BY <2>1
<1>4. F(1)[1] = first
  BY <1>3
<1>5. ASSUME NEW i \in Nat, i >= 1 PROVE F(i + 1)[i + 1] = Fat[F(i)[i]]
  <2>1. i + 1 \in Nat /\ i + 1 \in 1..(i + 1) /\ i + 1 # 1 /\ (i + 1) - 1 = i /\ i \in 1..i
        /\ i <= i + 1
    BY <1>5
  <2>2. F(i + 1)[i + 1] = Fat[F(i + 1)[i]]
    BY <1>3, <2>1
  <2>3. F(i)[i] = F(i + 1)[i]
    <3> DEFINE f == F(i)
               g == F(i + 1)
    <3>1. /\ \A k \in 1..i : f[k] = IF k = 1 THEN first ELSE Fat[f[k - 1]]
          /\ \A k \in 1..(i + 1) : g[k] = IF k = 1 THEN first ELSE Fat[g[k - 1]]
      BY <1>3, <2>1
    <3> HIDE DEF f, g
    <3> DEFINE Bad == {k \in 1..i : f[k] # g[k]}
    <3>2. SUFFICES ASSUME Bad # {} PROVE FALSE
      BY <2>1 DEF f, g
    <3>3. Bad \in SUBSET Nat
      OBVIOUS
    <3>4. PICK k \in Bad : \A x \in Bad : k <= x
      <4> HIDE DEF Bad
      <4> QED BY <3>2, <3>3, LeastExists
    <3>5. k \in 1..i /\ k \in 1..(i + 1) /\ f[k] # g[k]
      BY <2>1
    <3>6. k # 1
      BY <3>1, <3>5
    <3>7. k - 1 \in 1..i /\ ~ (k <= k - 1)
      BY <2>1, <3>5, <3>6
    <3>8. f[k - 1] = g[k - 1]
      BY <3>4, <3>7
    <3> QED BY <3>1, <3>5, <3>6, <3>8
  <2> QED BY <2>2, <2>3
<1> QED BY <1>1, <1>4, <1>5 DEF first

-----------------------------------------------------------------------------
(* The file that is read.                                                   *)

\* The size that the directory gives for the name, and filesize is it.
SizeFound == Called(name) # {} /\ filesize = FileOf(name).size

\* The sectors that were read are the first ones of the file.
FirstSectors ==
  /\ out \in Seq(Int \X Int)
  /\ \A i \in 1..Len(out) :
       out[i] = <<data_start_lba + ClusterOf(name, i) - 2,
                  Min({BYTES_PER_SECTOR, FileOf(name).size - (i - 1) * BYTES_PER_SECTOR})>>
  /\ Len(out) > 0 => (Len(out) - 1) * BYTES_PER_SECTOR < FileOf(name).size
  /\ pos = Min({Len(out) * BYTES_PER_SECTOR, FileOf(name).size})
  /\ remaining \in Nat /\ pos + remaining = FileOf(name).size

\* Which function runs, and what it waits for.
CallsInStep ==
  /\ job = "none" => awaits = "none"
  /\ awaits = "boot" => job = "mount"
  /\ awaits = "dir" => job \in {"size", "file"}
  /\ awaits \in {"data", "fat"} => job = "file"
  /\ awaits \in {"dir", "data", "fat"} => fs = fat12_t
  /\ awaits = "dir" =>
       /\ dir \in 0..(root_dir_sectors - 1) /\ pos = 0 /\ out = << >>
       /\ \A h \in 0..(dir - 1) : Stops(h) = {}

\* What is known of the file at each place.
WalkInStep ==
  /\ job = "file" \/ (job = "size" /\ awaits = "none" /\ result) => SizeFound
  /\ awaits = "data" =>
       /\ FirstSectors /\ remaining > 0
       /\ cl = ClusterOf(name, Len(out) + 1) /\ want = data_start_lba + cl - 2
  /\ awaits = "fat" =>
       FirstSectors /\ Len(out) > 0 /\ cl = ClusterOf(name, Len(out))
  /\ job = "file" /\ awaits = "none" /\ result => FirstSectors /\ remaining = 0

\* The inductive invariant of the file system: as long as only bytes that are
\* what they are taken for were used, the walk is the one of the file.
FileInv ==
  /\ Searching
  /\ fs = fat12_t \/ fs.root_dir_sectors = 0
  /\ CallsInStep
  /\ sound => WalkInStep

\* Who waits for which function; between the two calls the size is known.
CallersInStep ==
  \A p \in Proc :
    /\ epc[p] = "size" => job = "size"
    /\ epc[p] = "content" => job = "none" /\ (sound => SizeFound)
    /\ epc[p] = "file" => job = "file"

\* The lesser of two numbers.
LEMMA LeastOfTwo ==
  ASSUME NEW a \in Nat, NEW b \in Nat
  PROVE  Min({a, b}) = IF a <= b THEN a ELSE b
<1>1. {a, b} \in SUBSET Nat /\ {a, b} # {}
  OBVIOUS
<1>2. Min({a, b}) \in {a, b} /\ \A y \in {a, b} : Min({a, b}) <= y
  BY <1>1, MinIsLeast
<1> DEFINE m == Min({a, b})
<1>3. (m = a \/ m = b) /\ m <= a /\ m <= b
  BY <1>2
<1> HIDE DEF m
<1>4. m = IF a <= b THEN a ELSE b
  BY <1>3
<1> QED BY <1>4 DEF m

\* The file's entry is one of the directory.
LEMMA FileOfIs ==
  ASSUME Called(name) # {}
  PROVE  FileOf(name).size \in Nat /\ FileOf(name).first_cluster_number_low \in Nat
<1>1. Called(name) \in SUBSET Nat
  BY DEF Called
<1>2. Min(Called(name)) \in Called(name)
  BY <1>1, MinIsLeast
<1> DEFINE s == Min(Called(name))
<1>3. s \in 1..Len(RootDir) /\ RootDir[s].kind = "short"
  <2> HIDE DEF s
  <2>1. s \in Called(name)
    BY <1>2 DEF s
  <2> QED BY <2>1 DEF Called
<1> HIDE DEF s
<1>4. RootDir \in Seq(Slot)
  BY DiskAssumption DEF DiskAssumption, DirectoryIsWhole
<1>5. RootDir[s] \in Slot
  BY <1>3, <1>4
<1>6. FileOf(name) = RootDir[s]
  BY DEF FileOf, s
<1> QED BY <1>3, <1>5, <1>6, SlotIs

\* The numbers of clusters that a file may have.
Cluster == 2..4087

LEMMA ClusterIsNat == \A c \in Cluster : c \in Nat
BY DEF Cluster

\* A file that goes on has a cluster there.
LEMMA GoesOn ==
  ASSUME Searching, Called(name) # {}, NEW l \in Nat, l * BYTES_PER_SECTOR < FileOf(name).size
  PROVE  ClusterOf(name, l + 1) \in DOMAIN Fat /\ ClusterOf(name, l + 1) \in Cluster
<1> DEFINE size == FileOf(name).size
<1>1. size \in Nat
  BY FileOfIs
<1> HIDE DEF size
<1>2. l + 1 \in 1..Sectors(size)
  <2>1. l * 512 < size
    BY DEF size, BYTES_PER_SECTOR
  <2>2. (size + 512 - 1) \div 512 \in Nat /\ l + 1 <= (size + 512 - 1) \div 512
    BY <1>1, <2>1
  <2> QED BY <2>2 DEF Sectors, BYTES_PER_SECTOR
<1>3. \A i \in 1..Sectors(size) : ClusterOf(name, i) \in DOMAIN Fat \cap 2..4087
  <2>1. \A n \in Names : Called(n) # {} =>
          \A i \in 1..Sectors(FileOf(n).size) : ClusterOf(n, i) \in DOMAIN Fat \cap 2..4087
    BY DiskAssumption DEF DiskAssumption, ChainsAreWhole
  <2> DEFINE Clusters == DOMAIN Fat \cap 2..4087
  <2>2. \A n \in Names : Called(n) # {} =>
          \A i \in 1..Sectors(FileOf(n).size) : ClusterOf(n, i) \in Clusters
    BY <2>1
  <2>3. name \in Names /\ size = FileOf(name).size
    BY DEF Searching, size
  <2> HIDE DEF Clusters
  <2>4. \A i \in 1..Sectors(size) : ClusterOf(name, i) \in Clusters
    BY <2>2, <2>3
  <2> QED BY <2>4 DEF Clusters
<1> DEFINE c == ClusterOf(name, l + 1)
           Used == 2..4087
<1>4. c \in DOMAIN Fat \cap Used
  BY <1>2, <1>3
<1> HIDE DEF c, Used
<1>5. c \in DOMAIN Fat /\ c \in Used
  BY <1>4
<1> QED BY <1>5 DEF c, Used, Cluster

\* Nothing that the walk is about changes.
LEMMA FileStays ==
  ASSUME FileInv, UNCHANGED fatVars, want' = want \/ awaits # "data"
  PROVE  FileInv'
<1> USE DEF fatVars, chain, search
<1>1. Searching'
  BY DEF FileInv, Searching
<1>2. CallsInStep'
  <2>1. \A h : Stops(h)' = Stops(h)
    BY DEF Stops, Match, LongNameIs
  <2> QED BY <2>1 DEF FileInv, CallsInStep
<1>3. (SizeFound => SizeFound') /\ (FirstSectors => FirstSectors')
  BY DEF SizeFound, FirstSectors
<1>4. sound' => WalkInStep'
  BY <1>3 DEF FileInv, WalkInStep
<1> QED BY <1>1, <1>2, <1>4 DEF FileInv

\* A function that ends without success, or astray.
LEMMA EndsBadly ==
  ASSUME FileInv, UNCHANGED <<fs, job, search, chain, filesize>>, job # "none",
         awaits' = "none", sound' = FALSE \/ (sound' = sound /\ result' = FALSE)
  PROVE  FileInv'
<1> USE DEF chain, search
<1>1. Searching' /\ (fs' = fat12_t \/ fs'.root_dir_sectors = 0)
  BY DEF FileInv, Searching
<1>2. CallsInStep'
  BY DEF FileInv, CallsInStep
<1>3. SizeFound => SizeFound'
  BY DEF SizeFound
<1>4. sound' => WalkInStep'
  BY <1>3 DEF FileInv, WalkInStep
<1> QED BY <1>1, <1>2, <1>4 DEF FileInv

\* Who waits for a sector has called a function.
LEMMA WaitsInCall ==
  ASSUME FileInv, awaits # "none"
  PROVE  job # "none"
BY DEF FileInv, CallsInStep

\* fat12_mount.
LEMMA BootKeeps ==
  ASSUME FileInv, BootRead
  PROVE  FileInv'
<1>1. job = "mount" /\ job' = "mount" /\ awaits' = "none" /\ sound' = sound
      /\ UNCHANGED <<search, chain, filesize>> /\ fs' \in {fs, fat12_t}
  BY DEF BootRead, Arrived, FileInv, CallsInStep, Finish
<1>2. Searching' /\ (fs' = fat12_t \/ fs'.root_dir_sectors = 0)
  BY <1>1 DEF FileInv, Searching, search
<1>3. CallsInStep' /\ WalkInStep'
  BY <1>1 DEF CallsInStep, WalkInStep
<1> QED BY <1>2, <1>3 DEF FileInv

LEMMA MountKeeps ==
  ASSUME FileInv, MountCall
  PROVE  FileInv'
<1>1. job' = "mount" /\ awaits' = "boot" /\ UNCHANGED <<fs, search, chain, filesize>>
  BY DEF MountCall, AskFor
<1>2. Searching' /\ (fs' = fat12_t \/ fs'.root_dir_sectors = 0)
  BY <1>1 DEF FileInv, Searching, search
<1>3. CallsInStep' /\ WalkInStep'
  BY <1>1 DEF CallsInStep, WalkInStep
<1> QED BY <1>2, <1>3 DEF FileInv

\* find_by_name: the first sector of the directory.
LEMMA FindKeeps ==
  ASSUME FileInv, NEW j \in {"size", "file"}, NEW n \in Names, FindCall(j, n),
         j = "file" /\ sound => SizeFound /\ n = name
  PROVE  FileInv'
<1>1. /\ job' = j /\ name' = n /\ n83' = upper_padding(n) /\ dir' = 0 /\ pos' = 0
      /\ out' = << >> /\ UNCHANGED <<fs, filesize>> /\ sound' = (j = "size" \/ sound)
      /\ \/ fs.root_dir_sectors > 0 /\ awaits' = "dir"
         \/ awaits' = "none" /\ result' = FALSE
  BY DEF FindCall, AskFor, Finish
<1>2. Searching' /\ (fs' = fat12_t \/ fs'.root_dir_sectors = 0)
  BY <1>1 DEF FileInv, Searching
<1>3. CallsInStep'
  <2>1. awaits' = "dir" => fs' = fat12_t /\ dir' \in 0..(root_dir_sectors - 1)
    <3>1. fs.root_dir_sectors > 0 => fs = fat12_t
      BY DEF FileInv
    <3>2. fat12_t.root_dir_sectors = root_dir_sectors
      BY DEF fat12_t
    <3>3. root_dir_sectors \in Nat
      BY BootNumbers
    <3>4. root_dir_sectors > 0 => 0 \in 0..(root_dir_sectors - 1)
      BY <3>3
    <3> QED BY <1>1, <3>1, <3>2, <3>4
  <2>2. 0..(dir' - 1) = {}
    BY <1>1
  <2> QED BY <1>1, <2>1, <2>2 DEF CallsInStep
<1>4. sound' => WalkInStep'
  <2>1. j = "file" /\ sound => SizeFound'
    BY <1>1 DEF SizeFound
  <2> QED BY <1>1, <2>1 DEF WalkInStep
<1> QED BY <1>2, <1>3, <1>4 DEF FileInv

LEMMA ReturnKeeps ==
  ASSUME FileInv, Return
  PROVE  FileInv'
<1> USE DEF Return, chain, search
<1>1. Searching' /\ (fs' = fat12_t \/ fs'.root_dir_sectors = 0)
  BY DEF FileInv, Searching
<1>2. CallsInStep' /\ WalkInStep'
  BY DEF CallsInStep, WalkInStep
<1> QED BY <1>1, <1>2 DEF FileInv

LEMMA DirNextKeeps ==
  ASSUME FileInv, DirNext
  PROVE  FileInv'
<1>1. /\ awaits = "dir" /\ awaits' = "dir" /\ dir' = dir + 1 /\ dir + 1 < fs.root_dir_sectors
      /\ Stops(dir) = {} /\ UNCHANGED <<fs, job, name, n83, chain, filesize, result, sound>>
  BY DEF DirNext, Arrived, AskFor
<1>2. Searching' /\ (fs' = fat12_t \/ fs'.root_dir_sectors = 0)
  BY <1>1 DEF FileInv, Searching
<1>3. CallsInStep'
  <2>1. \A h : Stops(h)' = Stops(h)
    BY <1>1 DEF Stops, Match, LongNameIs
  <2>2. /\ job \in {"size", "file"} /\ fs = fat12_t
        /\ dir \in 0..(root_dir_sectors - 1) /\ pos = 0 /\ out = << >>
        /\ \A h \in 0..(dir - 1) : Stops(h) = {}
    BY <1>1 DEF FileInv, CallsInStep
  <2>3. dir + 1 \in 0..(root_dir_sectors - 1) /\ \A h \in 0..(dir + 1 - 1) : Stops(h) = {}
    <3>1. fat12_t.root_dir_sectors = root_dir_sectors /\ root_dir_sectors \in Nat
      BY BootNumbers DEF fat12_t
    <3>2. dir \in Nat
      BY <2>2, <3>1
    <3>3. \A h \in 0..(dir + 1 - 1) : h \in 0..(dir - 1) \/ h = dir
      BY <3>2
    <3>4. dir + 1 \in 0..(root_dir_sectors - 1)
      BY <1>1, <2>2, <3>1, <3>2
    <3> QED BY <1>1, <2>2, <3>3, <3>4
  <2> QED BY <1>1, <2>1, <2>2, <2>3 DEF CallsInStep, chain
<1>4. SizeFound => SizeFound'
  BY <1>1 DEF SizeFound
<1>5. sound' => WalkInStep'
  BY <1>1, <1>4 DEF FileInv, WalkInStep
<1> QED BY <1>2, <1>3, <1>5 DEF FileInv

\* The head of the loop: a file that was read as a whole ends there, another one
\* goes on with its next cluster.
LEMMA FollowKeeps ==
  ASSUME FileInv, job = "file", fs = fat12_t, UNCHANGED <<fs, job, search, filesize>>,
         sound' => /\ SizeFound /\ FirstSectors'
                   /\ cl' = ClusterOf(name, Len(out') + 1),
         \/ cl' \in Cluster /\ remaining' > 0 /\ pos' < filesize
            /\ awaits' = "data" /\ want' = cluster_to_lba(cl')
         \/ ~ (cl' \in Cluster /\ remaining' > 0 /\ pos' < filesize) /\ awaits' = "none"
  PROVE  FileInv'
<1>1. Searching' /\ (fs' = fat12_t \/ fs'.root_dir_sectors = 0)
  BY DEF FileInv, Searching, search
<1>2. CallsInStep'
  BY DEF FileInv, CallsInStep
<1>3. ASSUME sound' PROVE WalkInStep'
  <2>1. SizeFound' /\ SizeFound /\ FirstSectors'
    BY <1>3 DEF SizeFound, search
  <2> DEFINE size == FileOf(name).size
  <2>2. size \in Nat /\ filesize = size
    BY <2>1, FileOfIs DEF SizeFound
  <2>3. CASE awaits' = "data" /\ remaining' > 0 /\ want' = cluster_to_lba(cl')
    <3>1. want' = data_start_lba + cl' - 2
      <4>1. want' = fat12_t.data_start_lba + (cl' - 2) * fat12_t.sectors_per_cluster
        BY <2>3 DEF cluster_to_lba
      <4>2. fat12_t.data_start_lba = data_start_lba /\ fat12_t.sectors_per_cluster = 1
        BY DiskAssumption DEF fat12_t, DiskAssumption
      <4>3. cl' \in Int /\ data_start_lba \in Nat
        <5>1. cl' \in Nat
          <6>1. Len(out') * BYTES_PER_SECTOR < FileOf(name).size /\ Len(out') \in Nat
            <7>1. /\ Len(out') \in Nat /\ remaining' \in Nat
                  /\ pos' = Min({Len(out') * BYTES_PER_SECTOR, size}) /\ pos' + remaining' = size
              BY <2>1 DEF FirstSectors, search
            <7> DEFINE b == Len(out') * BYTES_PER_SECTOR
            <7>2. b \in Nat /\ pos' = Min({b, size})
              BY <7>1 DEF BYTES_PER_SECTOR
            <7> HIDE DEF b, size
            <7>3. pos' = IF b <= size THEN b ELSE size
              BY <2>2, <7>2, LeastOfTwo
            <7>4. b < size
              BY <2>2, <2>3, <7>1, <7>2, <7>3
            <7> QED BY <7>1, <7>4 DEF b, size
          <6>2. Searching /\ Called(name) # {}
            BY <2>1 DEF FileInv, SizeFound
          <6>3. ClusterOf(name, Len(out') + 1) \in Cluster
            BY <6>1, <6>2, GoesOn
          <6> QED BY <1>3, <6>3, ClusterIsNat
        <5> QED BY <5>1, BootNumbers
      <4> DEFINE c == cl'
      <4>4. want' = data_start_lba + (c - 2) * 1 /\ c \in Int /\ data_start_lba \in Nat
        BY <4>1, <4>2, <4>3
      <4> HIDE DEF c
      <4>5. want' = data_start_lba + c - 2
        BY <4>4
      <4> QED BY <4>5 DEF c
    <3> QED BY <1>3, <2>1, <2>3, <3>1 DEF WalkInStep, search
  <2>4. CASE ~ (cl' \in Cluster /\ remaining' > 0 /\ pos' < filesize) /\ awaits' = "none"
    <3>1. remaining' = 0
      <4>1. /\ Len(out') \in Nat /\ remaining' \in Nat
            /\ pos' = Min({Len(out') * BYTES_PER_SECTOR, size}) /\ pos' + remaining' = size
        BY <2>1 DEF FirstSectors, search
      <4> DEFINE b == Len(out') * BYTES_PER_SECTOR
      <4>2. b \in Nat /\ pos' = Min({b, size})
        BY <4>1 DEF BYTES_PER_SECTOR
      <4>3. pos' = IF b <= size THEN b ELSE size
        <5> HIDE DEF b, size
        <5> QED BY <2>2, <4>2, LeastOfTwo
      <4>4. SUFFICES ASSUME remaining' # 0 PROVE FALSE
        OBVIOUS
      <4>5. b < size /\ remaining' > 0 /\ pos' < filesize
        <5> HIDE DEF b, size
        <5> QED BY <2>2, <4>1, <4>2, <4>3, <4>4
      <4>6. Searching /\ Called(name) # {}
        BY <2>1 DEF FileInv, SizeFound
      <4>7. Len(out') * BYTES_PER_SECTOR < FileOf(name).size
        BY <4>5
      <4>8. ClusterOf(name, Len(out') + 1) \in Cluster
        BY <4>1, <4>6, <4>7, GoesOn
      <4> QED BY <1>3, <2>4, <4>5, <4>8
    <3> QED BY <2>1, <2>4, <3>1 DEF WalkInStep
  <2> QED BY <2>3, <2>4
<1> QED BY <1>1, <1>2, <1>3 DEF FileInv

\* The entry that is found is the one of the file.
LEMMA DirFoundKeeps ==
  ASSUME FileInv, DirFound
  PROVE  FileInv'
<1> DEFINE e == Entry(dir, FoundAt(dir, Min(Stops(dir))))
<1>1. /\ awaits = "dir" /\ Stops(dir) # {}
      /\ Entry(dir, Min(Stops(dir))).kind # "end" /\ FoundAt(dir, Min(Stops(dir))) < PER_SECTOR
      /\ UNCHANGED <<fs, job, search, pos, out, sound>>
      /\ \/ /\ job = "size" /\ filesize' = e.size /\ awaits' = "none" /\ result' = TRUE
         \/ /\ job = "file" /\ cl' = e.first_cluster_number_low /\ remaining' = e.size
            /\ Follow(e.first_cluster_number_low, e.size, 0) /\ UNCHANGED filesize
  BY DEF DirFound, Arrived, Finish
<1>2. /\ fs = fat12_t /\ pos = 0 /\ out = << >> /\ Searching
      /\ dir \in 0..(root_dir_sectors - 1) /\ \A h \in 0..(dir - 1) : Stops(h) = {}
  BY <1>1 DEF FileInv, CallsInStep
<1>3. Called(name) # {} /\ e = FileOf(name)
  BY <1>1, <1>2, FoundIsFirst
<1> HIDE DEF e
<1>4. CASE job = "size"
  <2>1. Searching' /\ (fs' = fat12_t \/ fs'.root_dir_sectors = 0)
    BY <1>1 DEF FileInv, Searching, search
  <2>2. CallsInStep' /\ SizeFound'
    BY <1>1, <1>3, <1>4 DEF CallsInStep, SizeFound, search
  <2>3. WalkInStep'
    BY <1>1, <1>4, <2>2 DEF WalkInStep
  <2> QED BY <2>1, <2>2, <2>3 DEF FileInv
<1>5. CASE job = "file"
  <2>1. /\ cl' = e.first_cluster_number_low /\ remaining' = e.size /\ UNCHANGED filesize
        /\ Follow(e.first_cluster_number_low, e.size, 0) /\ pos' = 0 /\ out' = << >>
    BY <1>1, <1>2, <1>5
  <2>2. \/ cl' \in Cluster /\ remaining' > 0 /\ pos' < filesize
           /\ awaits' = "data" /\ want' = cluster_to_lba(cl')
        \/ ~ (cl' \in Cluster /\ remaining' > 0 /\ pos' < filesize) /\ awaits' = "none"
    <3> DEFINE c == e.first_cluster_number_low
    <3>1. \/ c \in Cluster /\ e.size > 0 /\ 0 < filesize
             /\ awaits' = "data" /\ want' = cluster_to_lba(c)
          \/ ~ (c \in Cluster /\ e.size > 0 /\ 0 < filesize) /\ awaits' = "none"
      BY <2>1 DEF Follow, AskFor, FloppyRead, Finish, Cluster
    <3>2. cluster_to_lba(c) = fs.data_start_lba + (c - 2) * fs.sectors_per_cluster
      BY DEF cluster_to_lba
    <3> QED BY <2>1, <3>1
  <2>3. FirstSectors'
    <3>1. FileOf(name).size \in Nat /\ e.size = FileOf(name).size
      BY <1>3, FileOfIs
    <3>2. Len(<< >>) = 0 /\ << >> \in Seq(Int \X Int) /\ 0 * BYTES_PER_SECTOR = 0
      BY DEF BYTES_PER_SECTOR
    <3>3. Min({0, FileOf(name).size}) = 0
      <4>1. 0 \in Nat /\ 0 <= FileOf(name).size
        BY <3>1
      <4> QED BY <3>1, <4>1, LeastOfTwo
    <3> DEFINE size == FileOf(name).size
    <3>4. size \in Nat /\ remaining' = size /\ pos' = 0 /\ 0 + size = size /\ Min({0, size}) = 0
      BY <2>1, <3>1, <3>3
    <3>5. name' = name
      BY <1>1 DEF search
    <3> HIDE DEF size
    <3>6. FileOf(name').size = size
      BY <3>5 DEF size
    <3>7. 1..Len(out') = {} /\ ~ (Len(out') > 0) /\ out' \in Seq(Int \X Int)
          /\ Len(out') * BYTES_PER_SECTOR = 0
      BY <2>1, <3>2
    <3>8. pos' = Min({Len(out') * BYTES_PER_SECTOR, size}) /\ remaining' \in Nat
          /\ pos' + remaining' = size
      BY <3>4, <3>7
    <3> QED BY <3>6, <3>7, <3>8 DEF FirstSectors
  <2>4. sound' => SizeFound
    BY <1>1, <1>5 DEF FileInv, WalkInStep
  <2>5. cl' = ClusterOf(name, Len(out') + 1)
    <3>1. Len(out') + 1 = 1
      BY <2>1
    <3> QED BY <1>3, <2>1, <3>1, ClusterOfIs
  <2> QED BY <1>1, <1>2, <1>5, <2>1, <2>2, <2>3, <2>4, <2>5, FollowKeeps
<1> QED BY <1>1, <1>4, <1>5

\* A sector of the file more.
LEMMA DataKeeps ==
  ASSUME FileInv, DataRead
  PROVE  FileInv'
<1> DEFINE size == FileOf(name).size
           L == Len(out)
           tocpy == Min({remaining, BYTES_PER_SECTOR, filesize - pos})
<1>1. /\ awaits = "data" /\ awaits' = "fat"
      /\ out' = Append(out, <<buffer512, tocpy>>) /\ pos' = pos + tocpy
      /\ remaining' = remaining - tocpy /\ sound' = (sound /\ buffer512 = want)
      /\ UNCHANGED <<fs, job, search, cl, filesize, result>>
  BY DEF DataRead, Arrived, AskFor
<1>2. Searching' /\ (fs' = fat12_t \/ fs'.root_dir_sectors = 0)
  BY <1>1 DEF FileInv, Searching, search
<1>3. CallsInStep'
  BY <1>1 DEF FileInv, CallsInStep
<1>4. ASSUME sound' PROVE WalkInStep'
  <2>1. /\ sound /\ buffer512 = want /\ SizeFound /\ FirstSectors /\ remaining > 0
        /\ cl = ClusterOf(name, L + 1) /\ want = data_start_lba + cl - 2 /\ job = "file"
    BY <1>1, <1>4 DEF FileInv, CallsInStep, WalkInStep
  <2>2. /\ size \in Nat /\ filesize = size /\ L \in Nat /\ remaining \in Nat
        /\ pos = Min({L * BYTES_PER_SECTOR, size}) /\ pos + remaining = size
    BY <2>1, FileOfIs DEF SizeFound, FirstSectors
  <2>3. Searching /\ Called(name) # {}
    BY <2>1 DEF FileInv, SizeFound
  <2> DEFINE b == L * BYTES_PER_SECTOR
  <2>4. b \in Nat /\ pos = Min({b, size}) /\ BYTES_PER_SECTOR = 512 /\ (L + 1) * 512 = b + 512
        /\ b = L * 512
    BY <2>2 DEF BYTES_PER_SECTOR
  <2>5. pos = b /\ b < size /\ remaining = size - b /\ filesize - pos = size - b
    <3> HIDE DEF b, size
    <3>1. pos = IF b <= size THEN b ELSE size
      BY <2>2, <2>4, LeastOfTwo
    <3> QED BY <2>1, <2>2, <2>4, <3>1
  <2>6. tocpy = Min({BYTES_PER_SECTOR, size - b})
    <3>1. {remaining, BYTES_PER_SECTOR, filesize - pos} = {BYTES_PER_SECTOR, size - b}
      <4> HIDE DEF b, size
      <4> QED BY <2>5
    <3> QED BY <3>1
  <2>7. tocpy = IF 512 <= size - b THEN 512 ELSE size - b
    <3> HIDE DEF b, size, tocpy
    <3>1. 512 \in Nat /\ size - b \in Nat
      BY <2>2, <2>4, <2>5
    <3>2. Min({512, size - b}) = IF 512 <= size - b THEN 512 ELSE size - b
      BY <3>1, LeastOfTwo
    <3> QED BY <2>4, <2>6, <3>2
  <2>8. /\ ClusterOf(name, L + 1) \in Nat /\ buffer512 = data_start_lba + ClusterOf(name, L + 1) - 2
        /\ buffer512 \in Int
    <3>1. ClusterOf(name, L + 1) \in Nat
      <4>1. L * BYTES_PER_SECTOR < FileOf(name).size
        BY <2>5
      <4> QED BY <2>2, <2>3, <4>1, GoesOn, ClusterIsNat
    <3> QED BY <2>1, <3>1, BootNumbers
  <2>9. /\ out' \in Seq(Int \X Int) /\ Len(out') = L + 1
        /\ \A i \in 1..L : out'[i] = out[i]
        /\ out'[L + 1] = <<buffer512, tocpy>>
    <3>1. tocpy \in Int /\ out \in Seq(Int \X Int)
      <4>1. out \in Seq(Int \X Int)
        BY <2>1 DEF FirstSectors
      <4> HIDE DEF b, size, tocpy
      <4> QED BY <2>2, <2>4, <2>7, <4>1
    <3>2. <<buffer512, tocpy>> \in Int \X Int
      BY <2>8, <3>1
    <3> HIDE DEF tocpy
    <3> QED BY <1>1, <3>1, <3>2
  <2>10. FirstSectors'
    <3>1. ASSUME NEW i \in 1..(L + 1)
          PROVE  out'[i] = <<data_start_lba + ClusterOf(name, i) - 2,
                             Min({BYTES_PER_SECTOR, size - (i - 1) * BYTES_PER_SECTOR})>>
      <4>1. CASE i \in 1..L
        <5>1. out[i] = <<data_start_lba + ClusterOf(name, i) - 2,
                         Min({BYTES_PER_SECTOR, size - (i - 1) * BYTES_PER_SECTOR})>>
          BY <2>1, <4>1 DEF FirstSectors
        <5> QED BY <2>9, <4>1, <5>1
      <4>2. CASE i = L + 1
        <5>1. i - 1 = L
          BY <2>2, <4>2
        <5>2. tocpy = Min({BYTES_PER_SECTOR, size - (i - 1) * BYTES_PER_SECTOR})
          BY <2>6, <5>1
        <5> HIDE DEF tocpy
        <5> QED BY <2>8, <2>9, <4>2, <5>2
      <4> QED BY <2>2, <4>1, <4>2
    <3>2. (Len(out') - 1) * BYTES_PER_SECTOR < size
      <4>1. Len(out') - 1 = L
        BY <2>2, <2>9
      <4> QED BY <2>5, <4>1
    <3>3. pos' = Min({Len(out') * BYTES_PER_SECTOR, size})
      <4> HIDE DEF b, size, tocpy
      <4>1. Len(out') * BYTES_PER_SECTOR = b + 512
        BY <2>4, <2>9
      <4>2. b + 512 \in Nat /\ Min({b + 512, size}) = IF b + 512 <= size THEN b + 512 ELSE size
        BY <2>2, <2>4, LeastOfTwo
      <4>3. pos' = IF b + 512 <= size THEN b + 512 ELSE size
        BY <1>1, <2>2, <2>4, <2>5, <2>7
      <4> QED BY <4>1, <4>2, <4>3
    <3>4. remaining' \in Nat /\ pos' + remaining' = size
      <4> HIDE DEF b, size, tocpy
      <4>1. /\ size \in Nat /\ b \in Nat /\ b < size /\ pos = b /\ remaining = size - b
            /\ pos' = pos + tocpy /\ remaining' = remaining - tocpy
            /\ tocpy = IF 512 <= size - b THEN 512 ELSE size - b
        BY <1>1, <2>2, <2>4, <2>5, <2>7
      <4> QED BY ONLY <4>1
    <3>5. name' = name /\ FileOf(name').size = size
      BY <1>1 DEF search
    <3> HIDE DEF size, tocpy, b, L
    <3> QED BY <2>9, <3>1, <3>2, <3>3, <3>4, <3>5 DEF FirstSectors
  <2>11. Len(out') > 0 /\ cl' = ClusterOf(name, Len(out')) /\ SizeFound'
    BY <1>1, <2>1, <2>2, <2>9 DEF SizeFound, search
  <2> QED BY <1>1, <2>10, <2>11 DEF WalkInStep, search
<1> QED BY <1>2, <1>3, <1>4 DEF FileInv

\* The cluster behind it.
LEMMA FatKeeps ==
  ASSUME FileInv, FatRead
  PROVE  FileInv'
<1>1. /\ awaits = "fat" /\ cl' \in FatEntry(cl) /\ sound' = (sound /\ ~Straddles(cl))
      /\ Follow(cl', remaining, pos)
      /\ UNCHANGED <<fs, job, search, remaining, pos, out, filesize>>
  BY DEF FatRead, Arrived
<1>2. job = "file" /\ fs = fat12_t
  BY <1>1 DEF FileInv, CallsInStep
<1>3. \/ cl' \in Cluster /\ remaining' > 0 /\ pos' < filesize
         /\ awaits' = "data" /\ want' = cluster_to_lba(cl')
      \/ ~ (cl' \in Cluster /\ remaining' > 0 /\ pos' < filesize) /\ awaits' = "none"
  BY <1>1 DEF Follow, AskFor, FloppyRead, Finish, Cluster
<1>4. ASSUME sound'
      PROVE  SizeFound /\ FirstSectors' /\ cl' = ClusterOf(name, Len(out') + 1)
  <2>1. /\ sound /\ ~Straddles(cl) /\ SizeFound /\ FirstSectors /\ Len(out) > 0
        /\ cl = ClusterOf(name, Len(out))
    BY <1>1, <1>2, <1>4 DEF FileInv, WalkInStep
  <2>2. FirstSectors'
    BY <1>1, <2>1 DEF FirstSectors, search
  <2>3. /\ Len(out) \in Nat /\ Len(out) - 1 \in Nat /\ (Len(out) - 1) + 1 = Len(out)
        /\ (Len(out) - 1) * BYTES_PER_SECTOR < FileOf(name).size
    BY <2>1 DEF FirstSectors
  <2>4. cl \in DOMAIN Fat
    <3>1. Searching /\ Called(name) # {}
      BY <2>1 DEF FileInv, SizeFound
    <3>2. ClusterOf(name, (Len(out) - 1) + 1) \in DOMAIN Fat
      BY <2>3, <3>1, GoesOn
    <3> QED BY <2>1, <2>3, <3>2
  <2>5. cl' = Fat[cl]
    BY <1>1, <2>1, <2>4, EntryRead
  <2>6. ClusterOf(name, Len(out) + 1) = Fat[ClusterOf(name, Len(out))]
    BY <2>1, <2>3, ClusterOfIs
  <2> QED BY <1>1, <2>1, <2>2, <2>5, <2>6
<1> QED BY <1>1, <1>2, <1>3, <1>4, FollowKeeps

\* A step of the file system.
LEMMA FatStepKeeps ==
  ASSUME FileInv, FatStep
  PROVE  FileInv' /\ UNCHANGED job /\ awaits # "none"
<1>1. CASE BootRead
  BY <1>1, BootKeeps DEF BootRead, Arrived
<1>2. CASE DirAstray \/ FatAstray
  <2>1. /\ awaits # "none" /\ awaits' = "none" /\ sound' = FALSE
        /\ UNCHANGED <<fs, job, search, chain, filesize>>
    BY <1>2 DEF DirAstray, FatAstray, Astray, Arrived, Finish
  <2> QED BY <2>1, EndsBadly, WaitsInCall
<1>3. CASE DirFails \/ ReadFails
  <2>1. /\ awaits # "none" /\ awaits' = "none" /\ sound' = sound /\ result' = FALSE
        /\ UNCHANGED <<fs, job, search, chain, filesize>>
    BY <1>3 DEF DirFails, ReadFails, Arrived, Finish
  <2> QED BY <2>1, EndsBadly, WaitsInCall
<1>4. CASE DirNext
  BY <1>4, DirNextKeeps DEF DirNext, Arrived
<1>5. CASE DirFound
  BY <1>5, DirFoundKeeps DEF DirFound, Arrived
<1>6. CASE DataRead
  BY <1>6, DataKeeps DEF DataRead, Arrived
<1>7. CASE FatRead
  BY <1>7, FatKeeps DEF FatRead, Arrived
<1> QED BY <1>1, <1>2, <1>3, <1>4, <1>5, <1>6, <1>7 DEF FatStep

\* The driver keeps to the sector it was asked for.
LEMMA DriverKeepsWant == FloppyStep => want' = want
BY DEF FloppyStep, DriverStep, ControllerStep, SendSeek, WaitSeek, SeekTimeout, Sense, SeekAgain,
  SendRead, WaitRead, ReadTimeout, ReadResult, SeekEnds, ReadEnds, driver

\* Nobody waits for the file system while no task works.
LEMMA NobodyWaits ==
  ASSUME LockInv, owner \notin Proc, UNCHANGED epc
  PROVE  CallersInStep'
BY DEF LockInv, LockedWhileWorking, CallersInStep, Working

\* A task that goes where it waits for nothing.
LEMMA CallerGoes ==
  ASSUME LockInv, NEW p \in Proc, \A q \in Proc : epc[q] # "wild",
         owner = "none" \/ epc[p] \in Working,
         NEW m, Goto(p, m), m \notin {"size", "content", "file"}
  PROVE  CallersInStep'
<1>1. \A q \in Proc \ {p} : epc[q] \notin {"size", "content", "file"}
  BY ExecAssumption DEF ExecAssumption, LockInv, LockedWhileWorking, Working
<1>2. \A q \in Proc : epc'[q] \notin {"size", "content", "file"}
  BY <1>1 DEF Goto, LockInv
<1> QED BY <1>2 DEF CallersInStep

\* The same when it waits.
LEMMA CallerWaits ==
  ASSUME LockInv, NEW p \in Proc, \A q \in Proc : epc[q] # "wild", epc[p] \in Working,
         NEW m, Goto(p, m),
         m = "size" => job' = "size", m = "file" => job' = "file",
         m = "content" => job' = "none" /\ (sound' => SizeFound')
  PROVE  CallersInStep'
<1>1. \A q \in Proc \ {p} : epc[q] \notin {"size", "content", "file"}
  BY DEF LockInv, LockedWhileWorking, Working
<1>2. \A q \in Proc : epc'[q] = IF q = p THEN m ELSE epc[q]
  BY DEF Goto, LockInv
<1> QED BY <1>1, <1>2 DEF CallersInStep

\* A task that works on without the file system.
LEMMA CallerStays ==
  ASSUME CallersInStep, UNCHANGED <<epc, job, sound, name, filesize>>
  PROVE  CallersInStep'
BY DEF CallersInStep, SizeFound

\* One step of kernel_exec or load_elf.
LEMMA ExecStepKeepsFile ==
  ASSUME FileInv, CallersInStep, LockInv, NEW p \in Proc, ExecStep(p)
  PROVE  FileInv' /\ CallersInStep'
<1>0. /\ \A q \in Proc : epc[q] # "wild"
      /\ epc[p] \in Working
  BY DEF ExecStep, Copy, CopyFailed, SizeFails, SizeKnown, ReadFile, FileFails, FileRead,
    AddSegment, SegmentFails, AddStack, MapStack, ToRing3, Returned, At, Working
<1>1. CASE Copy(p)
  <2>1. PICK n \in Names : FindCall("size", n) /\ Goto(p, "size")
    BY <1>1 DEF Copy
  <2>2. FileInv'
    BY <2>1, FindKeeps
  <2>3. job' = "size"
    BY <2>1 DEF FindCall
  <2> QED BY <1>0, <2>1, <2>2, <2>3, CallerWaits
<1>2. CASE CopyFailed(p)
  <2>1. UNCHANGED <<floppy, fatVars>> /\ \E m \in {"wild", "failed"} : Goto(p, m)
    BY <1>2 DEF CopyFailed
  <2>2. FileInv'
    BY <2>1, FileStays DEF floppy, driver
  <2> QED BY <1>0, <2>1, <2>2, CallerGoes
<1>3. CASE SizeFails(p) \/ FileFails(p)
  <2>1. Return /\ Goto(p, "failed")
    BY <1>3 DEF SizeFails, FileFails, Returned, Fail
  <2> QED BY <1>0, <2>1, ReturnKeeps, CallerGoes
<1>4. CASE SegmentFails(p)
  <2>1. UNCHANGED <<floppy, fatVars>> /\ Goto(p, "failed")
    BY <1>4 DEF SegmentFails, Fail
  <2>2. FileInv'
    BY <2>1, FileStays DEF floppy, driver
  <2> QED BY <1>0, <2>1, <2>2, CallerGoes
<1>5. CASE SizeKnown(p)
  <2>1. /\ epc[p] = "size" /\ Return /\ result /\ Goto(p, "content")
        /\ job' = "none" /\ awaits = "none" /\ UNCHANGED <<name, filesize, sound>>
    BY <1>5 DEF SizeKnown, Returned, At, Return, search
  <2>2. job = "size"
    BY <2>1 DEF CallersInStep
  <2>3. sound => SizeFound
    BY <2>1, <2>2 DEF FileInv, WalkInStep
  <2>4. sound' => SizeFound'
    BY <2>1, <2>3 DEF SizeFound
  <2> QED BY <1>0, <2>1, <2>4, ReturnKeeps, CallerWaits
<1>6. CASE ReadFile(p)
  <2>1. epc[p] = "content" /\ FindCall("file", name) /\ Goto(p, "file")
    BY <1>6 DEF ReadFile, At
  <2>2. (sound => SizeFound) /\ name \in Names
    BY <2>1 DEF CallersInStep, FileInv, Searching
  <2>3. FileInv'
    BY <2>1, <2>2, FindKeeps
  <2>4. job' = "file"
    BY <2>1 DEF FindCall
  <2> QED BY <1>0, <2>1, <2>3, <2>4, CallerWaits
<1>7. CASE FileRead(p)
  <2>1. Return /\ Goto(p, "elf")
    BY <1>7 DEF FileRead, Returned
  <2> QED BY <1>0, <2>1, ReturnKeeps, CallerGoes
<1>8. CASE AddSegment(p) \/ AddStack(p) \/ MapStack(p) \/ ToRing3(p)
  <2>1. /\ UNCHANGED <<floppy, fatVars>>
        /\ UNCHANGED epc \/ \E m \in {"wild", "stack", "user"} : Goto(p, m)
    BY <1>8 DEF AddSegment, AddStack, MapStack, ToRing3
  <2>2. FileInv'
    BY <2>1, FileStays DEF floppy, driver
  <2>3. UNCHANGED <<job, sound, name, filesize>>
    BY <2>1 DEF fatVars, search
  <2> QED BY <1>0, <2>1, <2>2, <2>3, CallerGoes, CallerStays
<1> QED BY <1>1, <1>2, <1>3, <1>4, <1>5, <1>6, <1>7, <1>8 DEF ExecStep

\* Every step keeps the walk in step with the file.
LEMMA FileInvStep ==
  ASSUME FileInv, CallersInStep, LockInv, [ExecNext]_execVars
  PROVE  FileInv' /\ CallersInStep'
<1>1. CASE InitFs
  <2>1. MountCall /\ UNCHANGED epc /\ owner \notin Proc
    BY <1>1, ExecAssumption DEF InitFs, ExecAssumption
  <2> QED BY <2>1, MountKeeps, NobodyWaits
<1>2. CASE InitFsDone
  <2>1. Return /\ UNCHANGED epc /\ owner \notin Proc
    BY <1>2, ExecAssumption DEF InitFsDone, ExecAssumption
  <2> QED BY <2>1, ReturnKeeps, NobodyWaits
<1>3. CASE DiskStep
  <2>1. UNCHANGED epc
    BY <1>3 DEF DiskStep, tasks
  <2>2. CASE FatStep
    <3>1. FileInv' /\ UNCHANGED job /\ awaits # "none"
      BY <2>2, FatStepKeeps
    <3>2. job # "none"
      BY <3>1, WaitsInCall
    <3> QED BY <2>1, <3>1, <3>2 DEF CallersInStep
  <2>3. CASE FloppyStep /\ UNCHANGED fatVars
    <3>1. FileInv'
      BY <2>3, DriverKeepsWant, FileStays
    <3>2. UNCHANGED <<job, sound, name, filesize>>
      BY <2>3 DEF fatVars, search
    <3> QED BY <2>1, <3>1, <3>2, CallerStays
  <2> QED BY <1>3, <2>2, <2>3 DEF DiskStep
<1>4. ASSUME NEW p \in Proc, ExecStep(p) PROVE FileInv' /\ CallersInStep'
  BY <1>4, ExecStepKeepsFile
<1>5. ASSUME NEW p \in Proc, ExecCall(p) \/ PageFault(p) \/ Exit(p) \/ CleanTask(p)
      PROVE  FileInv' /\ CallersInStep'
  <2>1. /\ UNCHANGED <<floppy, fatVars>> /\ owner = "none" /\ \A q \in Proc : epc[q] # "wild"
        /\ UNCHANGED epc \/ \E m \in {"mm", "failed", "wild", "dead", "none"} : Goto(p, m)
    BY <1>5 DEF ExecCall, PageFault, Exit, CleanTask, At
  <2>2. FileInv'
    BY <2>1, FileStays DEF floppy, driver
  <2>3. UNCHANGED <<job, sound, name, filesize>>
    BY <2>1 DEF fatVars, search
  <2> QED BY <2>1, <2>2, <2>3, CallerGoes, CallerStays
<1>6. CASE UNCHANGED execVars
  <2>1. UNCHANGED <<floppy, fatVars, epc>>
    BY <1>6 DEF execVars, tasks
  <2>2. FileInv'
    BY <2>1, FileStays DEF floppy, driver
  <2>3. UNCHANGED <<job, sound, name, filesize>>
    BY <2>1 DEF fatVars, search
  <2> QED BY <2>1, <2>2, <2>3, CallerStays
<1> QED BY <1>1, <1>2, <1>3, <1>4, <1>5, <1>6 DEF ExecNext

\* Nothing was read at boot.
LEMMA FileInvInit == ExecInit => FileInv /\ CallersInStep
<1> SUFFICES ASSUME ExecInit PROVE FileInv /\ CallersInStep
  OBVIOUS
<1>1. /\ fs = [field \in DOMAIN fat12_t |-> 0] /\ job = "none" /\ awaits = "none"
      /\ name = (CHOOSE n \in Names : TRUE) /\ n83 = upper_padding(name)
      /\ \A p \in Proc : epc[p] = "none"
  BY DEF ExecInit, FatInit
<1>2. "root_dir_sectors" \in DOMAIN fat12_t
  BY DEF fat12_t
<1>3. fs.root_dir_sectors = 0
  BY <1>1, <1>2
<1>4. Searching
  BY <1>1, FatAssumption DEF FatAssumption, Searching
<1>5. CallsInStep /\ WalkInStep /\ CallersInStep
  BY <1>1 DEF CallsInStep, WalkInStep, CallersInStep
<1> QED BY <1>3, <1>4, <1>5 DEF FileInv

\* A walk that ended with success gave the file.
LEMMA FileInvImplies == FileInv => FileIsRead
<1> SUFFICES ASSUME FileInv, job # "none", awaits = "none", result, sound
             PROVE  /\ job = "size" => filesize = FileOf(name).size
                    /\ job = "file" =>
                         /\ pos = FileOf(name).size /\ Len(out) = Sectors(pos)
                         /\ \A i \in 1..Len(out) :
                              out[i] = <<data_start_lba + ClusterOf(name, i) - 2,
                                         Min({BYTES_PER_SECTOR, pos - (i - 1) * BYTES_PER_SECTOR})>>
  BY DEF FileIsRead
<1> DEFINE size == FileOf(name).size
           L == Len(out)
<1>1. job = "size" => filesize = size
  BY DEF FileInv, WalkInStep, SizeFound
<1>2. ASSUME job = "file"
      PROVE  pos = size /\ L = Sectors(pos)
  <2>1. SizeFound /\ FirstSectors /\ remaining = 0
    BY <1>2 DEF FileInv, WalkInStep
  <2>2. size \in Nat /\ L \in Nat /\ pos + 0 = size /\ pos = Min({L * 512, size})
        /\ (L > 0 => (L - 1) * 512 < size)
    BY <2>1, FileOfIs DEF SizeFound, FirstSectors, BYTES_PER_SECTOR
  <2> HIDE DEF size, L
  <2>3. L * 512 \in Nat /\ Min({L * 512, size}) = IF L * 512 <= size THEN L * 512 ELSE size
    BY <2>2, LeastOfTwo
  <2>4. pos = size /\ size <= L * 512
    BY <2>2, <2>3
  <2>5. (size + 512 - 1) \div 512 = L
    BY <2>2, <2>4
  <2> QED BY <2>4, <2>5 DEF Sectors, BYTES_PER_SECTOR
<1>3. ASSUME job = "file", NEW i \in 1..Len(out)
      PROVE  out[i] = <<data_start_lba + ClusterOf(name, i) - 2,
                        Min({BYTES_PER_SECTOR, pos - (i - 1) * BYTES_PER_SECTOR})>>
  BY <1>2, <1>3 DEF FileInv, WalkInStep, FirstSectors
<1> QED BY <1>1, <1>2, <1>3

\* fat.c 54-291, exec.c 25-43: on a disk in order, whatever tasks run and wherever
\* the drive fails, what fat12_get_file_size and fat12_read_file give with success
\* is the size and the sectors of the file of that name, in the order of its chain.
THEOREM FilesRead == ExecSpec => []FileIsRead
<1>1. ExecInit => FileInv /\ CallersInStep /\ LockInv
  BY FileInvInit, LockInvInit
<1>2. FileInv /\ CallersInStep /\ LockInv /\ [ExecNext]_execVars
        => (FileInv /\ CallersInStep /\ LockInv)'
  BY FileInvStep, LockInvStep
<1>3. FileInv => FileIsRead
  BY FileInvImplies
<1> QED BY <1>1, <1>2, <1>3, PTL DEF ExecSpec
=============================================================================
