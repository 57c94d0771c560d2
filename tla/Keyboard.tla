------------------------------ MODULE Keyboard -------------------------------
(***************************************************************************)
(* The keyboard driver (kernel/arch/x86_64/driver/keyboard.c) next to the  *)
(* scheduler: its interrupt handler fills a ring buffer that sys_getchar   *)
(* empties, and both set and clear the PIC masks of IRQ0 and IRQ1 without  *)
(* regard to irq_disable_counter.                                          *)
(***************************************************************************)
EXTENDS Scheduler

CONSTANTS
  Char,                   \* characters a key press may yield
  KEYBOARD_BUFFER_SIZE    \* number of slots of the ring

ASSUME KeyboardAssumption == KEYBOARD_BUFFER_SIZE \in Nat \ {0, 1} /\ Char # {}

Slot == 0..(KEYBOARD_BUFFER_SIZE - 1)

VARIABLES
  keyboard_buffer, key_buffer_start, key_buffer_end,
  masked1,      \* IRQ1 is masked in the PIC
  accepted      \* history: the characters stored and not yet read, in order

ring    == <<keyboard_buffer, key_buffer_start, key_buffer_end, accepted>>
kbdVars == <<vars, ring, masked1>>

KbdInit ==
  /\ Init
  /\ keyboard_buffer \in [Slot -> {CHOOSE c \in Char : TRUE}]
  /\ key_buffer_start = 0 /\ key_buffer_end = 0
  /\ masked1 = FALSE /\ accepted = << >>

\* Mutant: no test for a full ring.
NeverFull == FALSE

NextSlot(i) == (i + 1) % KEYBOARD_BUFFER_SIZE
Full == NextSlot(key_buffer_end) = key_buffer_start
Empty == key_buffer_start = key_buffer_end

\* IRQ1 is served in code that runs with interrupts on and IRQ1 unmasked.
KeyIRQ == ~masked1 /\ isr[Current] = "none" /\ pc[Current] # "wild"

\* Mutant: IRQ0 stays as it is.
ClearKeyboardMask == UNCHANGED masked /\ masked1' = FALSE

\* keyboard_handler for a key press; key releases change nothing.
ClearMasks == masked' = FALSE /\ masked1' = FALSE

KeyStored ==
  /\ KeyIRQ /\ ~Full
  /\ \E c \in Char :
       /\ keyboard_buffer' = [keyboard_buffer EXCEPT ![key_buffer_end] = c]
       /\ accepted' = Append(accepted, c)
  /\ key_buffer_end' = NextSlot(key_buffer_end)
  /\ ClearMasks
  /\ UNCHANGED <<runq, irq_disable_counter, stuff, left, pc, service, handler,
                 key_buffer_start>>

\* The ring is full, or the key stands for no character.
KeyDropped ==
  /\ KeyIRQ
  /\ ClearMasks
  /\ UNCHANGED <<runq, irq_disable_counter, stuff, left, pc, service, handler, ring>>

\* sys_getchar, a syscall: interrupts are off in it.  Both masks are set and
\* only the path that finds no character clears them.
GetChar ==
  /\ MayCall("getchar") /\ ~Empty
  /\ key_buffer_start' = NextSlot(key_buffer_start)
  /\ accepted' = Tail(accepted)
  /\ masked' = TRUE /\ masked1' = TRUE
  /\ UNCHANGED <<runq, irq_disable_counter, stuff, left, pc, service, handler,
                 keyboard_buffer, key_buffer_end>>

GetNothing ==
  /\ MayCall("getchar") /\ Empty
  /\ ClearMasks
  /\ UNCHANGED <<runq, irq_disable_counter, stuff, left, pc, service, handler, ring>>

KbdNext ==
  \/ Next /\ UNCHANGED <<ring, masked1>>
  \/ KeyStored \/ KeyDropped \/ GetChar \/ GetNothing

KbdSpec == KbdInit /\ [][KbdNext]_kbdVars

-----------------------------------------------------------------------------
(* Properties.                                                              *)

\* What lies between the two indices, read with wrap-around, is what was
\* typed and not yet read, in the order it was typed, whichever thread is
\* running when keys arrive and whichever threads read.
Stored == (key_buffer_end + KEYBOARD_BUFFER_SIZE - key_buffer_start)
            % KEYBOARD_BUFFER_SIZE
RingIsFifo ==
  /\ Len(accepted) = Stored
  /\ \A i \in 1..Stored :
       accepted[i] = keyboard_buffer[(key_buffer_start + i - 1) % KEYBOARD_BUFFER_SIZE]
=============================================================================
