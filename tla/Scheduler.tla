------------------------------ MODULE Scheduler ------------------------------
(***************************************************************************)
(* The preemptive single-CPU scheduler of kernel/arch/x86_64/sched/task.c, *)
(* driven by the timer interrupt of driver/timer.c.                        *)
(*                                                                         *)
(* One thread runs at a time.  A thread moves through the statements of    *)
(* the service it called (pc); the timer interrupt handler runs on top of  *)
(* it (isr).  A context switch only changes current_task_TCB: the thread   *)
(* that is switched away from keeps the pc at which it will continue.      *)
(* Each list of task.c is the sequence met by following next from the list *)
(* pointer.                                                                *)
(***************************************************************************)
EXTENDS Integers, Sequences, FiniteSets

CONSTANTS
  Task,      \* tasks made by create_task, alive or not yet created
  Idle,      \* kernel_idle_task
  Clean,     \* kernel_clean_task
  Boot,      \* the tasks kernel_main creates, in order
  Calls,     \* Calls[t]: the services the code of task t calls
  Slice,     \* TIME_SLICE_LENGTH, in ticks
  MaxSleep   \* bound: the longest sleep, in ticks

Thread   == Task \cup {Idle, Clean}
State    == {"NONE", "RUNNING", "READY", "PAUSED", "SLEEPING", "TERMINATED",
             "WAITING_FOR_LOCK"}
ListName == {"ready", "paused", "sleeping", "terminated", "waiting"}

\* Services that work between lock_stuff and unlock_stuff, and those that
\* only take lock_scheduler.
StuffCall  == {"sleep", "exit", "acquire", "release", "clean"}
DirectCall == {"pause", "unblock", "section"}
Call       == {"none"} \cup StuffCall \cup DirectCall

ASSUME SchedulerAssumption ==
  /\ Idle # Clean /\ Idle \notin Task /\ Clean \notin Task
  /\ Boot \in Seq(Task)
  /\ \A i, j \in 1..Len(Boot) : Boot[i] = Boot[j] => i = j
  /\ Calls \in [Task -> SUBSET (Call \cup {"fork", "getchar", "putchar"})]
  /\ Slice \in Nat \ {0}
  /\ MaxSleep \in Nat

\* Where a thread is in kernel code.
Label == {"start",                                      \* task_start_up
          "run",                                        \* its own code
          "section",                                    \* under lock_scheduler
          "body",                                       \* under lock_stuff
          "blk_enter", "blk_state", "blk_list", "blk_sched", "blk_unlock",
          "unb_enter", "unb", "unb_unlock",
          "stuff_post", "stuff_irq",                    \* unlock_stuff
          "wild"}                                       \* returned past its stack

VARIABLES
  current_task_TCB, state, lists, time_slice_remaining,
  irq_disable_counter, masked,         \* masked: IRQ0 is masked in the PIC
  postpone_task_switches_counter, task_switches_postponed_flag,
  left,      \* sleep_expiry - timer_count, 0 once it is reached
  pc, call,  \* position of each thread, and the service it is in
  target,    \* the argument of unblock_task
  isr,       \* position in task_hook_in_timer_handler on this thread's stack
  anchor     \* anchor_task_list

runq    == <<current_task_TCB, state, lists, time_slice_remaining>>
locks   == <<irq_disable_counter, masked>>
stuff   == <<postpone_task_switches_counter, task_switches_postponed_flag>>
service == <<call, target>>
handler == <<isr, anchor>>
vars    == <<runq, locks, stuff, left, pc, service, handler>>

Current == current_task_TCB
Ready   == lists["ready"]

-----------------------------------------------------------------------------
(* init_scheduler and the create_task calls of kernel_main: the CPU runs    *)
(* the idle task, the clean task was taken off the ready list and put on    *)
(* the paused list without changing its state.                              *)
Init ==
  /\ current_task_TCB = Idle
  /\ state = [t \in Thread |->
                IF t = Idle THEN "RUNNING"
                ELSE IF t = Clean \/ \E i \in 1..Len(Boot) : Boot[i] = t
                     THEN "READY" ELSE "NONE"]
  /\ lists = [n \in ListName |-> CASE n = "ready"  -> Boot
                                   [] n = "paused" -> <<Clean>>
                                   [] OTHER        -> << >>]
  /\ time_slice_remaining = Slice
  /\ irq_disable_counter = 0 /\ masked = FALSE
  /\ postpone_task_switches_counter = 0
  /\ task_switches_postponed_flag = 0
  /\ left = [t \in Thread |-> 0]
  /\ pc = [t \in Thread |-> IF t = Idle THEN "run" ELSE "start"]
  /\ call = [t \in Thread |-> "none"]
  /\ target = [t \in Thread |-> Idle]
  /\ isr = [t \in Thread |-> "none"]
  /\ anchor = Idle

-----------------------------------------------------------------------------
(* Locks, lists and the context switch.                                     *)

LockScheduler ==
  /\ irq_disable_counter' = irq_disable_counter + 1
  /\ masked' = TRUE

\* Mutant: IRQ0 is unmasked whatever the counter says.
UnlockAlwaysUnmasks ==
  /\ irq_disable_counter' = irq_disable_counter - 1
  /\ masked' = FALSE

UnlockScheduler ==
  /\ irq_disable_counter' = irq_disable_counter - 1
  /\ masked' = (masked /\ irq_disable_counter # 1)

\* list_add_tail, or the first entry of an empty list.
AddTail(ls, n, t) == [ls EXCEPT ![n] = Append(@, t)]

\* Move the list pointer to next and list_del the old first entry.
DropHead(ls, n) == [ls EXCEPT ![n] = Tail(@)]

\* Move the list pointer to next only: the ring keeps the same entries.
Rotate(ls, n) == [ls EXCEPT ![n] = Append(Tail(@), Head(@))]

\* switch_to_task(next): the caller's pc is saved where it stands.
SwitchTo(next, slice) ==
  /\ current_task_TCB' = next
  /\ time_slice_remaining' = slice

\* schedule() past its test of postpone_task_switches_counter: a running
\* task goes back to the tail of the ready list and the head is dispatched;
\* the idle task is never linked, and runs when there is nothing else.
Preempted == state[Current] = "RUNNING" /\ Current # Idle

\* Mutant: the task that is switched away from is not linked again.
DispatchForgets ==
  \/ /\ Ready # << >>
     /\ lists' = DropHead(lists, "ready")
     /\ state' = [t \in Thread |-> IF t = Head(Ready) THEN "RUNNING"
                                   ELSE IF Preempted /\ t = Current THEN "READY"
                                   ELSE state[t]]
     /\ SwitchTo(Head(Ready), Slice)
  \/ Ready = << >> /\ UNCHANGED runq

Dispatch ==
  \/ /\ Ready # << >>
     /\ lists' = IF Preempted
                 THEN DropHead(AddTail(lists, "ready", Current), "ready")
                 ELSE DropHead(lists, "ready")
     /\ state' = [t \in Thread |-> IF t = Head(Ready) THEN "RUNNING"
                                   ELSE IF Preempted /\ t = Current THEN "READY"
                                   ELSE state[t]]
     /\ SwitchTo(Head(Ready), Slice)
  \/ /\ Ready = << >> /\ state[Current] = "RUNNING"
     /\ UNCHANGED runq
  \/ /\ Ready = << >> /\ state[Current] # "RUNNING"
     /\ state' = [state EXCEPT ![Idle] = "RUNNING"]
     /\ SwitchTo(Idle, 0)
     /\ UNCHANGED lists

\* Mutant: schedule does not test the postpone counter.
ScheduleAtOnce == Dispatch /\ UNCHANGED task_switches_postponed_flag

\* Mutant: schedule returns without noting the switch it owes.
ScheduleForgets ==
  \/ /\ postpone_task_switches_counter # 0
     /\ UNCHANGED <<runq, task_switches_postponed_flag>>
  \/ /\ postpone_task_switches_counter = 0
     /\ Dispatch /\ UNCHANGED task_switches_postponed_flag

Schedule ==
  \/ /\ postpone_task_switches_counter # 0
     /\ task_switches_postponed_flag' = 1
     /\ UNCHANGED runq
  \/ /\ postpone_task_switches_counter = 0
     /\ Dispatch
     /\ UNCHANGED task_switches_postponed_flag

\* unblock_task(t) under its lock: t is only found when it is the first
\* entry of the sleeping or of the paused list.
IsHead(t, n) == lists[n] # << >> /\ Head(lists[n]) = t

\* Mutants: the woken thread is not taken off its old list; it joins the head
\* of the ready list; it keeps its state.
WakeNoDel(t, n) ==
  /\ lists' = AddTail(lists, "ready", t)
  /\ state' = [state EXCEPT ![t] = "READY"]
WakeFront(t, n) ==
  /\ lists' = [DropHead(lists, n) EXCEPT !["ready"] = <<t>> \o @]
  /\ state' = [state EXCEPT ![t] = "READY"]
WakeKeepsState(t, n) ==
  /\ lists' = AddTail(DropHead(lists, n), "ready", t)
  /\ UNCHANGED state

Wake(t, n) ==
  /\ lists' = AddTail(DropHead(lists, n), "ready", t)
  /\ state' = [state EXCEPT ![t] = "READY"]

\* Mutant: the sleeping list is not searched.
UnblockPausedOnly(t) ==
  \/ IsHead(t, "paused") /\ Wake(t, "paused")
  \/ ~IsHead(t, "paused") /\ UNCHANGED <<lists, state>>

Unblock(t) ==
  \/ IsHead(t, "sleeping") /\ Wake(t, "sleeping")
  \/ ~IsHead(t, "sleeping") /\ IsHead(t, "paused") /\ Wake(t, "paused")
  \/ /\ ~IsHead(t, "sleeping") /\ ~IsHead(t, "paused")
     /\ UNCHANGED <<lists, state>>

-----------------------------------------------------------------------------
(* The running thread.  At(l): it is about to execute l and no interrupt    *)
(* handler runs on top of it.                                               *)

At(l)   == pc[Current] = l /\ isr[Current] = "none"
Goto(l) == pc' = [pc EXCEPT ![Current] = l]
In(c)   == call[Current] = c

\* Call service c, with first statement l.
Enter(c, l) == Goto(l) /\ call' = [call EXCEPT ![Current] = c]

\* Return from the service to the thread's own code.
Return == /\ Goto("run")
          /\ call' = [call EXCEPT ![Current] = "none"]
          /\ target' = [target EXCEPT ![Current] = Idle]

MayCall(c) == At("run") /\ Current \in Task /\ c \in Calls[Current]

LockStuff ==
  /\ LockScheduler
  /\ postpone_task_switches_counter' = postpone_task_switches_counter + 1

\* Mutant: a new thread does not give the lock back.
StartUpLocked ==
  /\ At("start")
  /\ Goto("run")
  /\ UNCHANGED <<runq, locks, stuff, left, service, handler>>

\* task_start_up: the lock was taken by whoever switched to the new thread.
StartUp ==
  /\ At("start")
  /\ UnlockScheduler /\ Goto("run")
  /\ UNCHANGED <<runq, stuff, left, service, handler>>

\* kmalloc, kfree, init_fs, kernel_exec: a section under lock_scheduler.
SectionEnter ==
  /\ MayCall("section")
  /\ LockScheduler /\ Enter("section", "section")
  /\ UNCHANGED <<runq, stuff, left, target, handler>>

SectionLeave ==
  /\ At("section")
  /\ UnlockScheduler /\ Return
  /\ UNCHANGED <<runq, stuff, left, handler>>

list_size(list) == Len(list)

\* block_task(PAUSED) called by a task of the workload, unless it sees three
\* paused tasks.
PauseCall ==
  /\ MayCall("pause") /\ list_size(lists["paused"]) < 3
  /\ Enter("pause", "blk_enter")
  /\ UNCHANGED <<runq, locks, stuff, left, target, handler>>

\* unblock_task(first entry of the paused list), the entry being read
\* before the scheduler is locked.
UnblockCall ==
  /\ MayCall("unblock") /\ lists["paused"] # << >>
  /\ Enter("unblock", "unb_enter")
  /\ target' = [target EXCEPT ![Current] = Head(lists["paused"])]
  /\ UNCHANGED <<runq, locks, stuff, left, handler>>

\* nano_sleep_until and terminate_task take lock_stuff first, and so does
\* the body of the clean task.
StuffEnter(c) ==
  /\ LockStuff /\ Enter(c, "body")
  /\ UNCHANGED <<runq, task_switches_postponed_flag, left, target, handler>>

SleepCall == MayCall("sleep") /\ StuffEnter("sleep")
ExitCall  == MayCall("exit")  /\ StuffEnter("exit")
CleanCall == At("run") /\ Current = Clean /\ StuffEnter("clean")

\* sys_fork: a syscall runs with interrupts off, so create_task is atomic; the
\* kmalloc in it takes the scheduler lock and gives it back.
Fork ==
  /\ MayCall("fork")
  /\ \E t \in Task :
       /\ state[t] = "NONE"
       /\ state' = [state EXCEPT ![t] = "READY"]
       /\ lists' = AddTail(lists, "ready", t)
  /\ masked' = (irq_disable_counter # 0)
  /\ UNCHANGED <<current_task_TCB, time_slice_remaining, irq_disable_counter,
                 stuff, left, pc, service, handler>>

\* nano_sleep_until(when): a wake-up time in the past returns at once.
SleepPast ==
  /\ At("body") /\ In("sleep")
  /\ Goto("stuff_post")
  /\ UNCHANGED <<runq, locks, stuff, left, service, handler>>

SleepSet ==
  /\ At("body") /\ In("sleep")
  /\ \E k \in 0..MaxSleep : left' = [left EXCEPT ![Current] = k]
  /\ Goto("blk_enter")
  /\ UNCHANGED <<runq, locks, stuff, service, handler>>

\* Mutant: the clean task is not woken.
ExitAlone ==
  /\ At("body") /\ In("exit")
  /\ Goto("blk_enter")
  /\ UNCHANGED <<runq, locks, stuff, left, service, handler>>

\* terminate_task: wake the clean task, then block.
ExitWakeClean ==
  /\ At("body") /\ In("exit")
  /\ target' = [target EXCEPT ![Current] = Clean]
  /\ Goto("unb_enter")
  /\ UNCHANGED <<runq, locks, stuff, left, call, handler>>

\* One round of the loop of kernel_clean_work: free the stack and the TCB
\* of the first terminated task.
Reclaim ==
  /\ At("body") /\ In("clean") /\ lists["terminated"] # << >>
  /\ LET dead == Head(lists["terminated"]) IN
       /\ state'  = [state EXCEPT ![dead] = "NONE"]
       /\ pc'     = [pc EXCEPT ![dead] = "start"]
       /\ call'   = [call EXCEPT ![dead] = "none"]
       /\ target' = [target EXCEPT ![dead] = Idle]
       /\ left'   = [left EXCEPT ![dead] = 0]
  /\ lists' = DropHead(lists, "terminated")
  /\ UNCHANGED <<current_task_TCB, time_slice_remaining, locks, stuff, handler>>

ReclaimDone ==
  /\ At("body") /\ In("clean") /\ lists["terminated"] = << >>
  /\ Goto("blk_enter")
  /\ UNCHANGED <<runq, locks, stuff, left, service, handler>>

-----------------------------------------------------------------------------
(* block_task(reason).  Only the services below call it, never the idle     *)
(* task, so its idle test and its default case are not taken.               *)

Reason(c) == CASE c = "sleep"   -> "SLEEPING"
               [] c = "exit"    -> "TERMINATED"
               [] c = "acquire" -> "WAITING_FOR_LOCK"
               [] OTHER         -> "PAUSED"

\* Mutant: terminated tasks go to the paused list.
ListOfNoTerminated(c) == IF c = "sleep" THEN "sleeping" ELSE "paused"

ListOf(c) == CASE c = "sleep" -> "sleeping"
               [] c = "exit"  -> "terminated"
               [] OTHER       -> "paused"

BlockLock ==
  /\ At("blk_enter")
  /\ LockScheduler /\ Goto("blk_state")
  /\ UNCHANGED <<runq, stuff, left, service, handler>>

BlockState ==
  /\ At("blk_state")
  /\ state' = [state EXCEPT ![Current] = Reason(call[Current])]
  /\ Goto(IF In("acquire") THEN "blk_sched" ELSE "blk_list")
  /\ UNCHANGED <<current_task_TCB, lists, time_slice_remaining, locks, stuff,
                 left, service, handler>>

BlockLink ==
  /\ At("blk_list")
  /\ lists' = AddTail(lists, ListOf(call[Current]), Current)
  /\ Goto("blk_sched")
  /\ UNCHANGED <<current_task_TCB, state, time_slice_remaining, locks, stuff,
                 left, service, handler>>

BlockSchedule ==
  /\ At("blk_sched")
  /\ Schedule /\ Goto("blk_unlock")
  /\ UNCHANGED <<locks, postpone_task_switches_counter, left, service, handler>>

BlockUnlock ==
  /\ At("blk_unlock")
  /\ UnlockScheduler
  /\ \/ In("pause") /\ Return
     \/ ~In("pause") /\ Goto("stuff_post") /\ UNCHANGED service
  /\ UNCHANGED <<runq, stuff, left, handler>>

(* unblock_task(target).                                                    *)

UnblockLock ==
  /\ At("unb_enter")
  /\ LockScheduler /\ Goto("unb")
  /\ UNCHANGED <<runq, stuff, left, service, handler>>

UnblockMove ==
  /\ At("unb")
  /\ Unblock(target[Current]) /\ Goto("unb_unlock")
  /\ UNCHANGED <<current_task_TCB, time_slice_remaining, locks, stuff, left,
                 service, handler>>

UnblockUnlock ==
  /\ At("unb_unlock")
  /\ UnlockScheduler
  /\ \/ In("unblock") /\ Return
     \/ ~In("unblock") /\ Goto(IF In("exit") THEN "blk_enter" ELSE "stuff_post")
        /\ UNCHANGED service
  /\ UNCHANGED <<runq, stuff, left, handler>>

(* unlock_stuff: the postponed switch is made before IRQ0 is unmasked.      *)

UnlockPostpone ==
  /\ At("stuff_post")
  /\ postpone_task_switches_counter' = postpone_task_switches_counter - 1
  /\ \/ /\ postpone_task_switches_counter = 1 /\ task_switches_postponed_flag # 0
        /\ task_switches_postponed_flag' = 0
        /\ Dispatch
     \/ /\ postpone_task_switches_counter # 1 \/ task_switches_postponed_flag = 0
        /\ UNCHANGED <<runq, task_switches_postponed_flag>>
  /\ Goto("stuff_irq")
  /\ UNCHANGED <<locks, left, service, handler>>

\* A terminated task is not meant to get here, and kernel_clean_work has no
\* caller to return to: both would pop a return address off an empty stack.
UnlockIrq ==
  /\ At("stuff_irq")
  /\ UnlockScheduler
  /\ \/ /\ call[Current] \notin {"exit", "clean"}
        /\ Return
     \/ /\ call[Current] \in {"exit", "clean"}
        /\ Goto("wild") /\ UNCHANGED service
  /\ UNCHANGED <<runq, stuff, left, handler>>

-----------------------------------------------------------------------------
(* timer_handler and task_hook_in_timer_handler.  The handler runs with     *)
(* interrupts off; unblock_task takes and gives back the lock it holds.     *)

TimerIRQ ==
  /\ ~masked /\ isr[Current] = "none" /\ pc[Current] # "wild"
  /\ left' = [t \in Thread |-> IF left[t] > 0 THEN left[t] - 1 ELSE 0]
  /\ LockScheduler
  /\ \/ /\ lists["sleeping"] # << >>
        /\ isr' = [isr EXCEPT ![Current] = "walk"]
        /\ anchor' = Head(lists["sleeping"])
     \/ /\ lists["sleeping"] = << >>
        /\ isr' = [isr EXCEPT ![Current] = "tail"]
        /\ UNCHANGED anchor
  /\ UNCHANGED <<runq, stuff, pc, service>>

Handling(i) == isr[Current] = i

\* Leave the loop over the sleeping list (anchor is dead from here on).
WalkEnd == isr' = [isr EXCEPT ![Current] = "tail"] /\ anchor' = Idle

\* Mutant: one sleeper is woken in each tick.
WalkWakeOne ==
  /\ Handling("walk")
  /\ LET task == Head(lists["sleeping"]) IN left[task] = 0 /\ Unblock(task)
  /\ WalkEnd
  /\ UNCHANGED <<current_task_TCB, time_slice_remaining, locks, stuff, left,
                 pc, service>>

\* The first sleeper's time has come: wake it, and walk a whole round again
\* from the sleeper that is now first.
WalkWake ==
  /\ Handling("walk")
  /\ LET task == Head(lists["sleeping"]) IN
       /\ left[task] = 0
       /\ Unblock(task)
  /\ \/ lists'["sleeping"] = << >> /\ WalkEnd
     \/ lists'["sleeping"] # << >>
        /\ anchor' = Head(lists'["sleeping"]) /\ UNCHANGED isr
  /\ UNCHANGED <<current_task_TCB, time_slice_remaining, locks, stuff, left,
                 pc, service>>

\* The first sleeper's time has not come: move to the next one.
WalkNext ==
  /\ Handling("walk")
  /\ left[Head(lists["sleeping"])] > 0
  /\ lists' = Rotate(lists, "sleeping")
  /\ \/ Head(lists'["sleeping"]) = anchor /\ WalkEnd
     \/ Head(lists'["sleeping"]) # anchor /\ UNCHANGED handler
  /\ UNCHANGED <<current_task_TCB, state, time_slice_remaining, locks, stuff,
                 left, pc, service>>

\* Mutant: the end of a slice is not acted upon.
HookNeverSwitches ==
  /\ Handling("tail")
  /\ isr' = [isr EXCEPT ![Current] = "unlock"]
  /\ UNCHANGED <<runq, locks, stuff, left, pc, service, anchor>>

\* Slice accounting, only when some thread is ready.
HookTail ==
  /\ Handling("tail")
  /\ \/ /\ Ready # << >> /\ time_slice_remaining <= 1
        /\ Schedule
     \/ /\ Ready # << >> /\ time_slice_remaining > 1
        /\ time_slice_remaining' = time_slice_remaining - 1
        /\ UNCHANGED <<current_task_TCB, state, lists, task_switches_postponed_flag>>
     \/ /\ Ready = << >>
        /\ UNCHANGED <<runq, task_switches_postponed_flag>>
  /\ isr' = [isr EXCEPT ![Current] = "unlock"]
  /\ UNCHANGED <<locks, postpone_task_switches_counter, left, pc, service, anchor>>

HookReturn ==
  /\ Handling("unlock")
  /\ UnlockScheduler
  /\ isr' = [isr EXCEPT ![Current] = "none"]
  /\ UNCHANGED <<runq, stuff, left, pc, service, anchor>>

-----------------------------------------------------------------------------
\* What the running thread's own code may do next.
ThreadCall ==
  \/ SectionEnter \/ PauseCall \/ UnblockCall \/ SleepCall \/ ExitCall \/ Fork

\* Kernel code under way, which goes on by itself.
KernelStep ==
  \/ StartUp \/ SectionLeave \/ CleanCall
  \/ SleepPast \/ SleepSet \/ ExitWakeClean \/ Reclaim \/ ReclaimDone
  \/ BlockLock \/ BlockState \/ BlockLink \/ BlockSchedule \/ BlockUnlock
  \/ UnblockLock \/ UnblockMove \/ UnblockUnlock
  \/ UnlockPostpone \/ UnlockIrq

HandlerStep == WalkWake \/ WalkNext \/ HookTail \/ HookReturn

Next == ThreadCall \/ KernelStep \/ TimerIRQ \/ HandlerStep

Spec == Init /\ [][Next]_vars

\* A thread executes instructions whenever it is the running one, and a timer
\* interrupt raised while IRQ0 is masked stays pending in the PIC, so that it
\* is served although IRQ0 is masked again and again.
FairSpec == /\ Spec
            /\ \A t \in Thread : SF_vars(Current = t /\ KernelStep)
            /\ WF_vars(HandlerStep)
            /\ SF_vars(TimerIRQ)

-----------------------------------------------------------------------------
(* Properties.                                                              *)

\* Every variable stays in its range; in particular the two lock counters of
\* task.c never go below zero and never nest deeper than the code does.
TypeOK ==
  /\ current_task_TCB \in Thread
  /\ state \in [Thread -> State]
  /\ lists \in [ListName -> Seq(Thread)]
  /\ time_slice_remaining \in 0..Slice
  /\ irq_disable_counter \in 0..2 /\ masked \in BOOLEAN
  /\ postpone_task_switches_counter \in 0..1
  /\ task_switches_postponed_flag \in 0..1
  /\ left \in [Thread -> 0..MaxSleep]
  /\ pc \in [Thread -> Label] /\ call \in [Thread -> Call]
  /\ target \in [Thread -> Thread]
  /\ isr \in [Thread -> {"none", "walk", "tail", "unlock"}]
  /\ anchor \in Thread

BlockLabel   == {"blk_enter", "blk_state", "blk_list", "blk_sched", "blk_unlock"}
UnblockLabel == {"unb_enter", "unb", "unb_unlock"}

\* The labels at which a thread has taken lock_scheduler once more than its
\* service had on entry.
LockedLabel == {"start", "section", "stuff_irq"}
               \cup (BlockLabel \ {"blk_enter"}) \cup (UnblockLabel \ {"unb_enter"})

\* Between lock_stuff and the decrement of the postpone counter.
InStuff(t) ==
  call[t] \in StuffCall /\ pc[t] \notin {"stuff_irq", "wild"}

\* How many times t holds the scheduler lock.
Held(t) == (IF pc[t] \in LockedLabel THEN 1 ELSE 0)
           + (IF InStuff(t) THEN 1 ELSE 0)
           + (IF isr[t] # "none" THEN 1 ELSE 0)

\* The global counters are what the running thread alone has taken: the lock
\* taken before a switch is given back by the thread that is switched to
\* (task_start_up, unlock_scheduler or unlock_stuff of its own), IRQ0 is
\* masked exactly while the counter is positive, and nobody is switched away
\* from inside lock_stuff.
LockBalance ==
  /\ irq_disable_counter = Held(Current)
  /\ masked <=> irq_disable_counter > 0
  /\ postpone_task_switches_counter = IF InStuff(Current) THEN 1 ELSE 0
  /\ \A t \in Thread \ {Current} : Held(t) = 1 /\ ~InStuff(t)

Occurs(t, list) == \E i \in 1..Len(list) : list[i] = t
Linked(t, n)    == Occurs(t, lists[n])

\* The tcb_list node of a thread is in one list, once: linking a node that is
\* already linked would splice two rings together.
LinkedOnce ==
  \A m, n \in ListName : \A i \in 1..Len(lists[m]), j \in 1..Len(lists[n]) :
     lists[m][i] = lists[n][j] => m = n /\ i = j

\* acquire_semaphore links its caller before block_task changes its state.
Joining(t) == /\ t = Current /\ call[t] = "acquire"
              /\ pc[t] \in {"blk_enter", "blk_state"} /\ state[t] = "RUNNING"

\* A linked thread has the state that its list stands for.  The clean task
\* is the exception: it is put on the paused list while READY.
ListMatchesState ==
  \A t \in Thread :
    /\ Linked(t, "ready")      => state[t] = "READY"
    /\ Linked(t, "paused")     => state[t] = "PAUSED" \/ (t = Clean /\ state[t] = "READY")
    /\ Linked(t, "sleeping")   => state[t] = "SLEEPING"
    /\ Linked(t, "terminated") => state[t] = "TERMINATED"
    /\ Linked(t, "waiting")    => state[t] = "WAITING_FOR_LOCK" \/ Joining(t)

\* No thread is lost: one that does not run is in the list where schedule,
\* unblock_task, the timer or the clean task will look for it.
Linking(t) == t = Current /\ pc[t] = "blk_list"
NoThreadLost ==
  \A t \in Thread :
    /\ state[t] = "READY" => Linked(t, "ready") \/ (t = Clean /\ Linked(t, "paused"))
    /\ state[t] = "PAUSED"     => Linked(t, "paused") \/ Linking(t)
    /\ state[t] = "SLEEPING"   => Linked(t, "sleeping") \/ Linking(t)
    /\ state[t] = "TERMINATED" => Linked(t, "terminated") \/ Linking(t)
    /\ state[t] = "RUNNING"    => t \in {Current, Idle}

\* The switch that block_task asked for under lock_stuff is made: the flag is
\* only up while the running thread is on its way to unlock_stuff, a thread
\* that has blocked there has it up, and none that has blocked itself gets
\* past unlock_stuff or back to its own code before it is made ready and
\* dispatched again, although it goes on running after block_task.
BlockedLabel == {"blk_list", "blk_sched", "blk_unlock", "stuff_post"}
PostponedSwitchKept ==
  /\ task_switches_postponed_flag = 1 =>
       InStuff(Current) /\ pc[Current] \in {"blk_unlock", "stuff_post"}
  /\ pc[Current] \in {"blk_unlock", "stuff_post"} =>
       (task_switches_postponed_flag = 1 <=> state[Current] # "RUNNING")
  /\ pc[Current] \notin BlockedLabel => state[Current] = "RUNNING"

\* When the walk over the sleeping list ends, every sleeper whose time has
\* come was woken, although the walk rotates and shortens the list it walks.
WalkWakesAllDue ==
  isr[Current] = "tail" =>
    \A t \in Thread : Linked(t, "sleeping") => left[t] > 0

\* No context switch between lock_stuff and the end of unlock_stuff's count.
NoSwitchWhilePostponed ==
  [][current_task_TCB' # current_task_TCB
       => postpone_task_switches_counter' = 0]_vars

\* The clean task frees a TCB and its stack only after their owner has made
\* its last context switch, although terminate_task makes the clean task
\* ready before its caller is on the terminated list.
StackFreedAfterLastSwitch ==
  [][\A t \in Thread : state[t] # "NONE" /\ state'[t] = "NONE"
       => /\ state[t] = "TERMINATED" /\ t # Current
          /\ pc[t] = "stuff_irq" /\ isr[t] = "none"]_vars

\* The scheduler is a round robin over the ready list: every step of the
\* kernel is a step of the queue of RoundRobin or leaves it alone, and under
\* FairSpec the head of the ready list is dispatched in the end.
RR == INSTANCE RoundRobin WITH running <- current_task_TCB, queue <- Ready
RoundRobinSteps == [][RR!Next]_<<current_task_TCB, Ready>>
RoundRobinSpec  == RR!Spec

\* No thread on the ready list starves.
ReadyRuns == \A t \in Thread : RR!Queued(t) ~> current_task_TCB = t

\* Every sleeper is woken and runs again.
SleeperRuns == \A t \in Thread : state[t] = "SLEEPING" ~> state[t] = "RUNNING"

\* A terminated task is reclaimed.
TerminatedReclaimed ==
  \A t \in Task : state[t] = "TERMINATED" ~> state[t] = "NONE"
=============================================================================
