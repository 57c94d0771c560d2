------------------------------- MODULE UserMode -------------------------------
(***************************************************************************)
(* Threads in ring 3 on top of the scheduler, the keyboard and the         *)
(* terminal: the interrupt flag through interrupts, context switches and   *)
(* system calls (cpu/irq.s, sched/switch.s, syscall/do_syscall.s), the     *)
(* stack the CPU takes for an interrupt from ring 3 (tss_rsp0), and the    *)
(* system calls getchar, putchar, exit and fork.                           *)
(*                                                                         *)
(* A system call starts with the interrupt flag off (SFMASK).  Those that  *)
(* do not block are one step; exit goes through the labels of the          *)
(* scheduler with the flag off.                                            *)
(***************************************************************************)
EXTENDS Keyboard, Terminal

CONSTANTS
  Loaders,      \* tasks whose code goes to ring 3: test_elf, user_work_wrapper
  SleepsFirst   \* whether they call nano_sleep_until before, as test_elf does

ASSUME UserModeAssumption ==
  /\ IsFiniteSet(Task) /\ Loaders \subseteq Task /\ SleepsFirst \in BOOLEAN
  /\ Calls \in [Task -> SUBSET {"sleep", "exit", "fork", "getchar", "putchar"}]

VARIABLES
  mode,         \* what code a thread runs when it is in no service
  interrupts,   \* the interrupt flag of the CPU
  saved,        \* the flag in the RFLAGS that switch_to_task pushed
  left_for_idle,\* the thread was switched away from in the branch of schedule
                \* for an empty ready list
  tss_rsp0,     \* whose kernel stack the TSS points to the top of
  printing,     \* kernel threads in the middle of terminal_putchar
  raced         \* history: two threads have been in terminal_putchar at once

Mode == {"kernel", "slept", "user", "idle"}

cpu   == <<interrupts, saved, left_for_idle, tss_rsp0>>
print == <<terminal, printing, raced>>
uvars == <<kbdVars, mode, cpu, print>>

\* kernel_main sets the interrupt flag last; nothing has set tss_rsp0 yet.
UserInit ==
  /\ KbdInit /\ TermInit
  /\ mode = [t \in Thread |-> IF t = Idle THEN "idle" ELSE "kernel"]
  /\ interrupts = TRUE
  /\ saved = [t \in Thread |-> TRUE]
  /\ left_for_idle = [t \in Thread |-> FALSE]
  /\ tss_rsp0 = "none"
  /\ printing = {} /\ raced = FALSE

-----------------------------------------------------------------------------
(* The interrupt flag and the TSS.                                          *)

\* A thread that was never dispatched.
New(t) == pc[t] = "start" /\ isr[t] = "none"

\* Mutants: switch_to_task leaves RFLAGS alone; schedule does not set tss_rsp0.
SwitchKeepsFlags(next) ==
  /\ saved' = [saved EXCEPT ![Current] = interrupts]
  /\ left_for_idle' = [left_for_idle EXCEPT ![Current] = Ready = << >>]
  /\ interrupts' = interrupts
  /\ tss_rsp0' = IF New(next) \/ left_for_idle[next] THEN tss_rsp0 ELSE next
SwitchKeepsTss(next) ==
  /\ saved' = [saved EXCEPT ![Current] = interrupts]
  /\ left_for_idle' = [left_for_idle EXCEPT ![Current] = Ready = << >>]
  /\ interrupts' = (New(next) \/ saved[next])
  /\ tss_rsp0' = tss_rsp0

\* switch_to_task: pushfq, cli, popf of what the next thread pushed; a new
\* thread has 0x202 on its stack.  Only a thread that resumes inside schedule,
\* in the branch for a ready list that was not empty, sets tss_rsp0 to its own
\* stack: a new one returns into task_start_up.
Switched(next) ==
  /\ saved' = [saved EXCEPT ![Current] = interrupts]
  /\ left_for_idle' = [left_for_idle EXCEPT ![Current] = Ready = << >>]
  /\ interrupts' = (New(next) \/ saved[next])
  /\ tss_rsp0' = IF New(next) \/ left_for_idle[next] THEN tss_rsp0 ELSE next

\* The effect on the CPU of a step that ends with the flag at f unless it
\* switches threads.
Flag(f) ==
  \/ /\ current_task_TCB' # Current
     /\ Switched(current_task_TCB')
  \/ /\ current_task_TCB' = Current
     /\ interrupts' = f /\ UNCHANGED <<saved, left_for_idle, tss_rsp0>>

Keep(l) == UNCHANGED <<ring, masked1>> /\ UNCHANGED l

-----------------------------------------------------------------------------
(* Steps of the scheduler with their effect on the CPU.                     *)

\* task_start_up and nano_sleep_until end with sti.
Sti == At("start") \/ (At("stuff_irq") /\ In("sleep"))

\* nano_sleep_until has put its caller to sleep.
ULoaderSlept == [mode EXCEPT ![Current] =
                   IF At("body") /\ In("sleep") /\ pc'[Current] = "blk_enter"
                   THEN "slept" ELSE @]

UKernelStep ==
  /\ KernelStep
  /\ Flag(interrupts \/ Sti)
  /\ mode' = [ULoaderSlept EXCEPT ![Idle] = "idle"]
  /\ Keep(print)

\* A loader sleeps at most once before it goes to ring 3.
USleep ==
  /\ mode[Current] = "kernel" /\ Current \in Loaders
  /\ SleepCall
  /\ Flag(interrupts) /\ Keep(<<mode, print>>)

\* The timer handler runs with the flag off until iretq.
UTimerIRQ ==
  /\ interrupts /\ TimerIRQ
  /\ Flag(FALSE) /\ Keep(<<mode, print>>)

UHandlerStep ==
  /\ HandlerStep
  /\ Flag(Handling("unlock")) /\ Keep(<<mode, print>>)

UKeyIRQ ==
  /\ interrupts /\ (KeyStored \/ KeyDropped)
  /\ UNCHANGED <<mode, cpu, print>>

-----------------------------------------------------------------------------
(* Ring 3.                                                                  *)

\* The system calls that the programs make: the shell echoes what is typed,
\* hello prints and ends, and _start calls exit when main returns.
shell == {"getchar", "putchar"}
hello == {"putchar"}
Started(main) == main \cup {"exit"}

\* get_to_ring3: cli, rsp0 saved in the TCB but not in the TSS, sysretq with
\* the interrupt flag set.
GetToRing3 ==
  /\ At("run") /\ Current \in Loaders
  /\ mode[Current] = IF SleepsFirst THEN "slept" ELSE "kernel"
  /\ mode' = [mode EXCEPT ![Current] = "user"]
  /\ UNCHANGED <<kbdVars, cpu, print>>

InUser == mode[Current] = "user"

SysGetChar ==
  /\ InUser /\ (GetChar \/ GetNothing)
  /\ UNCHANGED <<mode, cpu, print>>

\* sys_exit; the flag stays off, as the thread never returns.
SysExit ==
  /\ InUser /\ ExitCall
  /\ Flag(FALSE) /\ Keep(<<mode, print>>)

\* sys_fork: the new thread runs kernel_idle_work.
SysFork ==
  /\ InUser /\ Fork
  /\ mode' = [t \in Thread |-> IF state'[t] # state[t] THEN "idle" ELSE mode[t]]
  /\ Keep(<<cpu, print>>)

\* What the screen shows is not followed after a race: it is then as at first.
Forgotten ==
  /\ terminal_row' = 0 /\ terminal_column' = 0
  /\ screen' = [y \in Row |-> BlankLine]
  /\ cursor' = [low |-> 0, high |-> 0]
  /\ text' = << << >> >>

Shown(c) == IF raced' THEN Forgotten ELSE PutChar(c)
Race == raced' = (raced \/ printing # {})

SysPutChar ==
  /\ InUser /\ MayCall("putchar")
  /\ Race /\ \E c \in Glyph \cup {"newline"} : Shown(c)
  /\ UNCHANGED <<kbdVars, mode, cpu, printing>>

\* kernel_idle_work prints with interrupts on: the thread may be switched away
\* from in the middle of terminal_putchar.
PrintBegin ==
  /\ mode[Current] = "idle" /\ At("run") /\ Current \notin printing
  /\ Race /\ printing' = printing \cup {Current}
  /\ IF raced' THEN Forgotten ELSE UNCHANGED terminal
  /\ UNCHANGED <<kbdVars, mode, cpu>>

PrintEnd ==
  /\ At("run") /\ Current \in printing
  /\ UNCHANGED raced /\ \E c \in Glyph \cup {"newline"} : Shown(c)
  /\ printing' = printing \ {Current}
  /\ UNCHANGED <<kbdVars, mode, cpu>>

UNext ==
  \/ UKernelStep \/ USleep \/ UTimerIRQ \/ UHandlerStep \/ UKeyIRQ
  \/ GetToRing3 \/ SysGetChar \/ SysExit \/ SysFork \/ SysPutChar
  \/ PrintBegin \/ PrintEnd

USpec == UserInit /\ [][UNext]_uvars

-----------------------------------------------------------------------------
(* Properties.                                                              *)

\* task.c, switch.s, do_syscall.s: although a thread may be switched away from
\* in its own code, in the timer handler or in a system call, and be resumed
\* by another that was in any of them, interrupts are off exactly in the
\* handler and in sys_exit.
InterruptsOffOnlyInHandlers ==
  interrupts <=> isr[Current] = "none"
                 /\ ~(mode[Current] = "user" /\ In("exit"))

\* task.c 201, cpu.s: the CPU finds the kernel stack of the running thread in
\* the TSS whenever that thread is in ring 3, for loaders that sleep before
\* while another thread is ready.
OwnKernelStack == InUser => tss_rsp0 = Current

\* keyboard.c: IRQ0 is masked while nobody holds the scheduler lock only
\* between a character read and the next poll, with IRQ1 masked as well.
TimerStopsOnlyAfterRead == masked /\ irq_disable_counter = 0 => masked1

\* task.c: although a key press may unmask IRQ0 in the middle of a section under
\* lock_scheduler and the timer then switches threads there, the counter is what
\* all threads have taken, less the one lock that each thread that does not run
\* will give back for the thread that switched to it.
LocksTaken == {lock \in Thread \X (1..3) : lock[2] <= Held(lock[1])}
LocksConserved ==
  irq_disable_counter = Cardinality(LocksTaken) - (Cardinality(Thread) - 1)

\* tty.c: the screen shows what was written as long as no thread was switched
\* away from in terminal_putchar and met by another.
ScreenUnlessRaced == raced \/ ScreenShowsText
=============================================================================
