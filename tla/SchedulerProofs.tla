-------------------------- MODULE SchedulerProofs ----------------------------
(***************************************************************************)
(* Proofs about Scheduler, for every set of tasks, boot list, workload,    *)
(* slice length and sleep length.                                          *)
(*                                                                         *)
(* LockInv is the inductive invariant.  The lock counters are only bounded *)
(* because exactly the running thread's own lock depth is in them          *)
(* (LockBalance), which depends on the service a thread is in matching the *)
(* place it is at (CallOK), on the timer handler never running over a      *)
(* thread that holds a lock (HandlerOK), and on the clean task never       *)
(* resetting a thread other than one that is past its last switch          *)
(* (TerminatedOK).                                                         *)
(***************************************************************************)
EXTENDS Scheduler, TLAPS

\* The service a thread is in is one that contains the label it is at, and
\* only tasks make calls, the clean task's body apart.
CallOK ==
  \A t \in Thread :
    /\ pc[t] \in {"start", "run"} => call[t] = "none"
    /\ pc[t] = "section"          => call[t] = "section"
    /\ pc[t] \in BlockLabel       => call[t] \in {"pause", "sleep", "exit", "acquire", "clean"}
    /\ pc[t] \in UnblockLabel     => call[t] \in {"unblock", "exit", "release"}
    /\ pc[t] \in {"body", "stuff_post", "stuff_irq"} => call[t] \in StuffCall
    /\ pc[t] = "wild"            => call[t] \in {"exit", "clean"}
    /\ call[t] \notin {"none", "clean"} => t \in Task
    /\ call[t] = "clean" => t = Clean

\* The timer handler only interrupts a thread that holds no lock; a thread
\* that was switched away from inside it has only to unlock; and a walk has
\* a sleeping list to walk.
HandlerOK ==
  /\ \A t \in Thread : isr[t] # "none" => pc[t] \notin LockedLabel /\ ~InStuff(t)
  /\ \A t \in Thread \ {Current} : isr[t] \in {"none", "unlock"}
  /\ isr[Current] = "walk" => lists["sleeping"] # << >>

\* A thread on the terminated list is a task on its way out of
\* terminate_task, which no timer interrupt has hit, and it is there once.
ExitLabel == {"blk_sched", "blk_unlock", "stuff_post", "stuff_irq", "wild"}
TerminatedOK ==
  LET terminated == lists["terminated"] IN
    /\ terminated \in Seq(Task)
    /\ \A i \in 1..Len(terminated) :
         /\ call[terminated[i]] = "exit" /\ isr[terminated[i]] = "none"
         /\ pc[terminated[i]] \in ExitLabel
    /\ \A i, j \in 1..Len(terminated) : terminated[i] = terminated[j] => i = j

\* The inductive invariant.
LockInv == TypeOK /\ CallOK /\ HandlerOK /\ TerminatedOK /\ LockBalance

-----------------------------------------------------------------------------
(* What the list operators return.                                          *)

\* list_add_tail keeps the lists well typed and only lengthens the one named.
LEMMA AddTailType ==
  ASSUME NEW ls \in [ListName -> Seq(Thread)], NEW n \in ListName, NEW t \in Thread
  PROVE  /\ AddTail(ls, n, t) \in [ListName -> Seq(Thread)]
         /\ \A m \in ListName :
              AddTail(ls, n, t)[m] = IF m = n THEN Append(ls[n], t) ELSE ls[m]
BY DEF AddTail

\* list_del of the first entry only shortens the list named.
LEMMA DropHeadType ==
  ASSUME NEW ls \in [ListName -> Seq(Thread)], NEW n \in ListName, ls[n] # << >>
  PROVE  /\ DropHead(ls, n) \in [ListName -> Seq(Thread)]
         /\ \A m \in ListName :
              DropHead(ls, n)[m] = IF m = n THEN Tail(ls[n]) ELSE ls[m]
BY DEF DropHead

\* Moving a list pointer to next only rotates the list named.
LEMMA RotateType ==
  ASSUME NEW ls \in [ListName -> Seq(Thread)], NEW n \in ListName, ls[n] # << >>
  PROVE  /\ Rotate(ls, n) \in [ListName -> Seq(Thread)]
         /\ \A m \in ListName : Rotate(ls, n)[m] =
              IF m = n THEN Append(Tail(ls[n]), Head(ls[n])) ELSE ls[m]
BY DEF Rotate

-----------------------------------------------------------------------------
(* What the shared pieces of the actions do to the invariant.               *)

\* unlock_scheduler by a thread that holds the lock lowers the counter by one
\* and leaves IRQ0 masked exactly when the counter is still positive.
LEMMA UnlockLemma ==
  ASSUME TypeOK, LockBalance, Held(Current) # 0, UnlockScheduler
  PROVE  /\ irq_disable_counter' = irq_disable_counter - 1
         /\ irq_disable_counter' \in 0..1
         /\ masked' \in BOOLEAN /\ (masked' <=> irq_disable_counter' > 0)
<1>1. irq_disable_counter \in 1..2
  BY DEF TypeOK, LockBalance
<1>2. masked' <=> (masked /\ irq_disable_counter # 1)
  BY DEF UnlockScheduler
<1>3. masked' \in BOOLEAN
  BY DEF UnlockScheduler
<1>4. masked
  BY <1>1 DEF LockBalance
<1>5. irq_disable_counter' = irq_disable_counter - 1
  BY DEF UnlockScheduler
<1> QED
  BY <1>1, <1>2, <1>3, <1>4, <1>5

\* A step that does not touch the terminated list, nor a thread leaving
\* terminate_task, preserves TerminatedOK.
LEMMA TerminatedFrame ==
  ASSUME TerminatedOK, lists'["terminated"] = lists["terminated"],
         \A t \in Task : call[t] = "exit" /\ isr[t] = "none" /\ pc[t] \in ExitLabel
                       => call'[t] = "exit" /\ isr'[t] = "none" /\ pc'[t] \in ExitLabel
  PROVE  TerminatedOK'
<1>1. \A i \in 1..Len(lists["terminated"]) : lists["terminated"][i] \in Task
  BY DEF TerminatedOK
<1> QED BY <1>1 DEF TerminatedOK

\* Returning from a service, or going on to another label, is well typed.
LEMMA ReturnType ==
  ASSUME pc \in [Thread -> Label], call \in [Thread -> Call], target \in [Thread -> Thread],
         NEW l \in Label, Return \/ (Goto(l) /\ UNCHANGED service)
  PROVE  /\ pc' \in [Thread -> Label] /\ call' \in [Thread -> Call]
         /\ target' \in [Thread -> Thread]
<1>1. CASE Return
  <2>1. pc' \in [Thread -> Label]
    BY <1>1 DEF Return, Goto, Label
  <2>2. call' \in [Thread -> Call]
    BY <1>1 DEF Return, Call
  <2>3. target' \in [Thread -> Thread]
    BY <1>1 DEF Return, Thread
  <2> QED BY <2>1, <2>2, <2>3
<1>2. CASE Goto(l) /\ UNCHANGED service
  BY <1>2 DEF Goto, service
<1> QED BY <1>1, <1>2

\* Waking a sleeping or paused thread leaves the terminated list alone.
LEMMA WakeType ==
  ASSUME lists \in [ListName -> Seq(Thread)], state \in [Thread -> State],
         NEW t \in Thread, NEW n \in {"sleeping", "paused"}, lists[n] # << >>, Wake(t, n)
  PROVE  /\ lists' \in [ListName -> Seq(Thread)]
         /\ state' \in [Thread -> State]
         /\ lists'["terminated"] = lists["terminated"]
<1>1. n \in ListName /\ "ready" \in ListName /\ lists \in [ListName -> Seq(Thread)]
  BY DEF ListName
<1>2. DropHead(lists, n) \in [ListName -> Seq(Thread)]
  BY <1>1, DropHeadType
<1>3. DropHead(lists, n)["terminated"] = lists["terminated"]
  BY <1>1, DropHeadType DEF ListName
<1>4. lists' \in [ListName -> Seq(Thread)]
  BY <1>1, <1>2, AddTailType DEF Wake
<1>5. lists'["terminated"] = lists["terminated"]
  BY <1>1, <1>2, <1>3, AddTailType DEF Wake, ListName
<1>6. state' \in [Thread -> State]
  BY DEF Wake, State
<1> QED BY <1>4, <1>5, <1>6

\* So does unblock_task.
LEMMA UnblockType ==
  ASSUME lists \in [ListName -> Seq(Thread)], state \in [Thread -> State],
         NEW t \in Thread, Unblock(t)
  PROVE  /\ lists' \in [ListName -> Seq(Thread)]
         /\ state' \in [Thread -> State]
         /\ lists'["terminated"] = lists["terminated"]
BY WakeType DEF Unblock, IsHead

\* The part of schedule past its test of the postpone counter is well typed
\* and leaves the terminated list alone.
LEMMA DispatchType ==
  ASSUME current_task_TCB \in Thread, state \in [Thread -> State],
         lists \in [ListName -> Seq(Thread)], Dispatch
  PROVE  /\ current_task_TCB' \in Thread
         /\ state' \in [Thread -> State]
         /\ lists' \in [ListName -> Seq(Thread)]
         /\ time_slice_remaining \in 0..Slice => time_slice_remaining' \in 0..Slice
         /\ lists'["terminated"] = lists["terminated"]
<1> DEFINE ls == IF Preempted THEN AddTail(lists, "ready", Current) ELSE lists
<1>0. ASSUME NEW x, x = (IF Preempted THEN DropHead(AddTail(lists, "ready", Current), "ready")
                          ELSE DropHead(lists, "ready"))
      PROVE  x = DropHead(ls, "ready")
  BY <1>0
<1>1. "ready" \in ListName /\ lists \in [ListName -> Seq(Thread)] /\ Current \in Thread
  BY DEF ListName, Current
<1> HIDE DEF ls
<1>2. CASE Ready # << >> /\ lists' = DropHead(ls, "ready") /\ SwitchTo(Head(Ready), Slice)
           /\ state' = [t \in Thread |-> IF t = Head(Ready) THEN "RUNNING"
                                   ELSE IF Preempted /\ t = Current THEN "READY"
                                   ELSE state[t]]
  <2>1. /\ ls \in [ListName -> Seq(Thread)] /\ ls["ready"] # << >>
        /\ ls["terminated"] = lists["terminated"]
    <3>1. "terminated" \in ListName /\ lists["ready"] # << >>
      BY <1>2 DEF ListName, Ready
    <3>2. CASE Preempted
      <4>1. /\ ls = AddTail(lists, "ready", Current)
            /\ \A m \in ListName : AddTail(lists, "ready", Current)[m]
                                    = IF m = "ready" THEN Append(lists["ready"], Current) ELSE lists[m]
            /\ AddTail(lists, "ready", Current) \in [ListName -> Seq(Thread)]
        BY <1>1, <3>2, AddTailType DEF ls
      <4>2. Append(lists["ready"], Current) # << >>
        BY <1>1
      <4> QED BY <1>1, <3>1, <4>1, <4>2
    <3>3. CASE ~Preempted
      BY <1>1, <3>1, <3>3 DEF ls
    <3> QED BY <3>2, <3>3
  <2>2. lists' \in [ListName -> Seq(Thread)] /\ lists'["terminated"] = lists["terminated"]
    BY <1>1, <1>2, <2>1, DropHeadType DEF ListName
  <2>3. Head(Ready) \in Thread
    BY <1>1, <1>2 DEF Ready
  <2>4. state' \in [Thread -> State]
    BY <1>2, <2>3 DEF State
  <2> QED BY <1>2, <2>2, <2>3, <2>4, SchedulerAssumption DEF SwitchTo
<1>3. CASE UNCHANGED runq
  BY <1>3 DEF runq
<1>4. CASE state' = [state EXCEPT ![Idle] = "RUNNING"] /\ SwitchTo(Idle, 0) /\ UNCHANGED lists
  BY <1>4, SchedulerAssumption DEF SwitchTo, Thread, State
<1> QED BY <1>0, <1>2, <1>3, <1>4 DEF Dispatch

-----------------------------------------------------------------------------
(* The invariant holds initially and every step preserves it.               *)

\* What init_scheduler sets up satisfies the invariant.
LEMMA InitLockInv == Init => LockInv
<1> SUFFICES ASSUME Init PROVE LockInv
  OBVIOUS
<1> USE SchedulerAssumption
<1>1. TypeOK
  <2>1. Boot \in Seq(Thread) /\ << >> \in Seq(Thread) /\ <<Clean>> \in Seq(Thread)
    BY DEF Thread
  <2>2. lists \in [ListName -> Seq(Thread)]
    BY <2>1 DEF Init, ListName
  <2>3. state \in [Thread -> State] /\ pc \in [Thread -> Label]
    BY DEF Init, State, Label
  <2>4. /\ left \in [Thread -> 0..MaxSleep] /\ call \in [Thread -> Call]
        /\ target \in [Thread -> Thread]
        /\ isr \in [Thread -> {"none", "walk", "tail", "unlock"}]
    BY DEF Init, Call, Thread
  <2>5. masked \in BOOLEAN
    BY DEF Init
  <2> QED BY <2>2, <2>3, <2>4, <2>5 DEF Init, TypeOK, Thread
<1>2. CallOK /\ HandlerOK
  BY DEF Init, CallOK, HandlerOK, BlockLabel, UnblockLabel, LockedLabel,
      InStuff,
         StuffCall, Thread, Current
<1>3. TerminatedOK
  <2>1. lists["terminated"] = << >>
    BY DEF Init, ListName
  <2> QED BY <2>1 DEF TerminatedOK
<1>4. LockBalance
  BY DEF Init, LockBalance, Held, BlockLabel, UnblockLabel, LockedLabel,
      InStuff,
         StuffCall, Thread, Current
<1> QED BY <1>1, <1>2, <1>3, <1>4 DEF LockInv

\* Every action of the threads, of the kernel and of the timer handler
\* preserves the invariant.
LEMMA LockInvStep == LockInv /\ [Next]_vars => LockInv'
<1> SUFFICES ASSUME LockInv, [Next]_vars PROVE LockInv'
  OBVIOUS
<1> USE SchedulerAssumption DEF LockInv, Current
<1>1. CASE SectionEnter
  <2> USE <1>1 DEF SectionEnter, At, Goto, Current, runq, locks, stuff,
          service, handler
  <2>1. TypeOK'
    BY DEF MayCall, LockScheduler, Enter, TypeOK, Thread, State, Label,
       Call, LockBalance, Held, LockedLabel, BlockLabel, UnblockLabel,
       InStuff, StuffCall, DirectCall, CallOK, HandlerOK
  <2>2. CallOK'
    BY DEF MayCall, LockScheduler, Enter, TypeOK, CallOK, Thread,
       BlockLabel, UnblockLabel, StuffCall
  <2>3. HandlerOK'
    BY DEF MayCall, LockScheduler, Enter, TypeOK, CallOK, HandlerOK,
       Thread, LockedLabel, BlockLabel, UnblockLabel, InStuff, StuffCall,
       LockBalance, Held
  <2>4. TerminatedOK'
    <3>1. lists'["terminated"] = lists["terminated"]
      OBVIOUS
    <3>2. ASSUME NEW t \in Task, call[t] = "exit", isr[t] = "none", pc[t] \in ExitLabel
          PROVE  call'[t] = "exit" /\ isr'[t] = "none" /\ pc'[t] \in ExitLabel
      BY <3>2 DEF MayCall, LockScheduler, Enter, TypeOK, CallOK, Thread,
         ExitLabel
    <3> QED BY <3>1, <3>2, TerminatedFrame
  <2>5. LockBalance'
    BY DEF MayCall, LockScheduler, Enter, TypeOK, CallOK, LockBalance,
       HandlerOK, Held, Thread, LockedLabel, BlockLabel, UnblockLabel,
       InStuff, StuffCall
  <2> QED BY <2>1, <2>2, <2>3, <2>4, <2>5
<1>2. CASE PauseCall
  <2> USE <1>2 DEF PauseCall, At, Goto, Current, runq, locks, stuff, service,
          handler
  <2>1. TypeOK'
    BY DEF MayCall, Enter, TypeOK, Thread, State, Label, Call,
       LockBalance, Held, LockedLabel, BlockLabel, UnblockLabel, InStuff,
       StuffCall, DirectCall, CallOK, HandlerOK
  <2>2. CallOK'
    BY DEF MayCall, Enter, TypeOK, CallOK, Thread, BlockLabel,
       UnblockLabel, StuffCall
  <2>3. HandlerOK'
    BY DEF MayCall, Enter, TypeOK, CallOK, HandlerOK, Thread, LockedLabel,
       BlockLabel, UnblockLabel, InStuff, StuffCall, LockBalance, Held
  <2>4. TerminatedOK'
    <3>1. lists'["terminated"] = lists["terminated"]
      OBVIOUS
    <3>2. ASSUME NEW t \in Task, call[t] = "exit", isr[t] = "none", pc[t] \in ExitLabel
          PROVE  call'[t] = "exit" /\ isr'[t] = "none" /\ pc'[t] \in ExitLabel
      BY <3>2 DEF MayCall, Enter, TypeOK, CallOK, Thread, ExitLabel
    <3> QED BY <3>1, <3>2, TerminatedFrame
  <2>5. LockBalance'
    BY DEF MayCall, Enter, TypeOK, CallOK, LockBalance, HandlerOK, Held,
       Thread, LockedLabel, BlockLabel, UnblockLabel, InStuff, StuffCall
  <2> QED BY <2>1, <2>2, <2>3, <2>4, <2>5
<1>3. CASE UnblockCall
  <2> USE <1>3 DEF UnblockCall, At, Goto, Current, runq, locks, stuff,
          service, handler
  <2>7. lists["paused"] \in Seq(Thread) /\ lists["paused"] # << >>
    BY DEF TypeOK, ListName
  <2>8. target' \in [Thread -> Thread]
    BY <2>7 DEF TypeOK
  <2>1. TypeOK'
    BY <2>8 DEF MayCall, Enter, TypeOK, Thread, State, Label, Call,
       LockBalance, Held, LockedLabel, BlockLabel, UnblockLabel, InStuff,
       StuffCall, DirectCall, CallOK, HandlerOK
  <2>2. CallOK'
    BY DEF MayCall, Enter, TypeOK, CallOK, Thread, BlockLabel,
       UnblockLabel, StuffCall
  <2>3. HandlerOK'
    BY DEF MayCall, Enter, TypeOK, CallOK, HandlerOK, Thread, LockedLabel,
       BlockLabel, UnblockLabel, InStuff, StuffCall, LockBalance, Held
  <2>4. TerminatedOK'
    <3>1. lists'["terminated"] = lists["terminated"]
      OBVIOUS
    <3>2. ASSUME NEW t \in Task, call[t] = "exit", isr[t] = "none", pc[t] \in ExitLabel
          PROVE  call'[t] = "exit" /\ isr'[t] = "none" /\ pc'[t] \in ExitLabel
      BY <3>2 DEF MayCall, Enter, TypeOK, CallOK, Thread, ExitLabel
    <3> QED BY <3>1, <3>2, TerminatedFrame
  <2>5. LockBalance'
    BY DEF MayCall, Enter, TypeOK, CallOK, LockBalance, HandlerOK, Held,
       Thread, LockedLabel, BlockLabel, UnblockLabel, InStuff, StuffCall
  <2> QED BY <2>1, <2>2, <2>3, <2>4, <2>5
<1>4. CASE SleepCall
  <2> USE <1>4 DEF SleepCall, At, Goto, Current, runq, locks, stuff, service,
          handler
  <2>1. TypeOK'
    BY DEF MayCall, StuffEnter, LockStuff, LockScheduler, Enter, TypeOK,
       Thread, State, Label, Call, LockBalance, Held, LockedLabel,
       BlockLabel, UnblockLabel, InStuff, StuffCall, DirectCall, CallOK,
       HandlerOK
  <2>2. CallOK'
    BY DEF MayCall, StuffEnter, LockStuff, LockScheduler, Enter, TypeOK,
       CallOK, Thread, BlockLabel, UnblockLabel, StuffCall
  <2>3. HandlerOK'
    BY DEF MayCall, StuffEnter, LockStuff, LockScheduler, Enter, TypeOK,
       CallOK, HandlerOK, Thread, LockedLabel, BlockLabel, UnblockLabel,
       InStuff, StuffCall, LockBalance, Held
  <2>4. TerminatedOK'
    <3>1. lists'["terminated"] = lists["terminated"]
      BY DEF StuffEnter
    <3>2. ASSUME NEW t \in Task, call[t] = "exit", isr[t] = "none", pc[t] \in ExitLabel
          PROVE  call'[t] = "exit" /\ isr'[t] = "none" /\ pc'[t] \in ExitLabel
      BY <3>2 DEF MayCall, StuffEnter, LockStuff, LockScheduler, Enter,
         TypeOK, CallOK, Thread, ExitLabel
    <3> QED BY <3>1, <3>2, TerminatedFrame
  <2>5. LockBalance'
    BY DEF MayCall, StuffEnter, LockStuff, LockScheduler, Enter, TypeOK,
       CallOK, LockBalance, HandlerOK, Held, Thread, LockedLabel,
       BlockLabel, UnblockLabel, InStuff, StuffCall
  <2> QED BY <2>1, <2>2, <2>3, <2>4, <2>5
<1>5. CASE ExitCall
  <2> USE <1>5 DEF ExitCall, At, Goto, Current, runq, locks, stuff, service,
          handler
  <2>1. TypeOK'
    BY DEF MayCall, StuffEnter, LockStuff, LockScheduler, Enter, TypeOK,
       Thread, State, Label, Call, LockBalance, Held, LockedLabel,
       BlockLabel, UnblockLabel, InStuff, StuffCall, DirectCall, CallOK,
       HandlerOK
  <2>2. CallOK'
    BY DEF MayCall, StuffEnter, LockStuff, LockScheduler, Enter, TypeOK,
       CallOK, Thread, BlockLabel, UnblockLabel, StuffCall
  <2>3. HandlerOK'
    BY DEF MayCall, StuffEnter, LockStuff, LockScheduler, Enter, TypeOK,
       CallOK, HandlerOK, Thread, LockedLabel, BlockLabel, UnblockLabel,
       InStuff, StuffCall, LockBalance, Held
  <2>4. TerminatedOK'
    <3>1. lists'["terminated"] = lists["terminated"]
      BY DEF StuffEnter
    <3>2. ASSUME NEW t \in Task, call[t] = "exit", isr[t] = "none", pc[t] \in ExitLabel
          PROVE  call'[t] = "exit" /\ isr'[t] = "none" /\ pc'[t] \in ExitLabel
      BY <3>2 DEF MayCall, StuffEnter, LockStuff, LockScheduler, Enter,
         TypeOK, CallOK, Thread, ExitLabel
    <3> QED BY <3>1, <3>2, TerminatedFrame
  <2>5. LockBalance'
    BY DEF MayCall, StuffEnter, LockStuff, LockScheduler, Enter, TypeOK,
       CallOK, LockBalance, HandlerOK, Held, Thread, LockedLabel,
       BlockLabel, UnblockLabel, InStuff, StuffCall
  <2> QED BY <2>1, <2>2, <2>3, <2>4, <2>5
<1>6. CASE Fork
  <2> USE <1>6 DEF Fork, At, Goto, Current, runq, locks, stuff, service, handler
  <2>7. PICK u \in Task : /\ state' = [state EXCEPT ![u] = "READY"]
                         /\ lists' = AddTail(lists, "ready", u)
    OBVIOUS
  <2>10. u \in Thread
    BY DEF Thread
  <2>8. /\ lists' \in [ListName -> Seq(Thread)]
        /\ lists'["terminated"] = lists["terminated"]
    BY <2>7, <2>10, AddTailType DEF TypeOK, ListName
  <2>9. state' \in [Thread -> State]
    BY <2>7 DEF TypeOK, State
  <2>1. TypeOK'
    BY <2>8, <2>9 DEF MayCall, TypeOK, Thread, State, Label, Call,
       LockBalance, Held, LockedLabel, BlockLabel, UnblockLabel, InStuff,
       StuffCall, DirectCall, CallOK, HandlerOK
  <2>2. CallOK'
    BY DEF MayCall, TypeOK, CallOK, Thread, BlockLabel, UnblockLabel,
       StuffCall
  <2>3. HandlerOK'
    BY DEF MayCall, TypeOK, CallOK, HandlerOK, Thread, LockedLabel,
       BlockLabel, UnblockLabel, InStuff, StuffCall, LockBalance, Held
  <2>4. TerminatedOK'
    <3>1. lists'["terminated"] = lists["terminated"]
      BY <2>8
    <3>2. ASSUME NEW t \in Task, call[t] = "exit", isr[t] = "none", pc[t] \in ExitLabel
          PROVE  call'[t] = "exit" /\ isr'[t] = "none" /\ pc'[t] \in ExitLabel
      BY <3>2 DEF MayCall, TypeOK, CallOK, Thread, ExitLabel
    <3> QED BY <3>1, <3>2, TerminatedFrame
  <2>5. LockBalance'
    BY DEF MayCall, TypeOK, CallOK, LockBalance, HandlerOK, Held, Thread,
       LockedLabel, BlockLabel, UnblockLabel, InStuff, StuffCall
  <2> QED BY <2>1, <2>2, <2>3, <2>4, <2>5
<1>7. CASE StartUp
  <2> USE <1>7 DEF StartUp, At, Goto, Current, runq, locks, stuff, service,
          handler
  <2>6. Held(Current) # 0 /\ UnlockScheduler
    BY DEF TypeOK, Held, LockedLabel, BlockLabel, UnblockLabel
  <2>1. TypeOK'
    BY <2>6, UnlockLemma DEF TypeOK, Thread, State, Label, Call,
       LockBalance, Held, LockedLabel, BlockLabel, UnblockLabel, InStuff,
       StuffCall, DirectCall, CallOK, HandlerOK
  <2>2. CallOK'
    BY DEF TypeOK, CallOK, Thread, BlockLabel, UnblockLabel, StuffCall
  <2>3. HandlerOK'
    BY <2>6, UnlockLemma DEF TypeOK, CallOK, HandlerOK, Thread,
       LockedLabel, BlockLabel, UnblockLabel, InStuff, StuffCall,
       LockBalance, Held
  <2>4. TerminatedOK'
    <3>1. lists'["terminated"] = lists["terminated"]
      OBVIOUS
    <3>2. ASSUME NEW t \in Task, call[t] = "exit", isr[t] = "none", pc[t] \in ExitLabel
          PROVE  call'[t] = "exit" /\ isr'[t] = "none" /\ pc'[t] \in ExitLabel
      BY <3>2 DEF TypeOK, CallOK, Thread, ExitLabel
    <3> QED BY <3>1, <3>2, TerminatedFrame
  <2>5. LockBalance'
    BY <2>6, UnlockLemma DEF TypeOK, CallOK, LockBalance, HandlerOK, Held,
       Thread, LockedLabel, BlockLabel, UnblockLabel, InStuff, StuffCall
  <2> QED BY <2>1, <2>2, <2>3, <2>4, <2>5
<1>8. CASE SectionLeave
  <2> USE <1>8 DEF SectionLeave, At, Goto, Current, runq, locks, stuff,
          service, handler
  <2>6. Held(Current) # 0 /\ UnlockScheduler
    BY DEF Return, TypeOK, Held, LockedLabel, BlockLabel, UnblockLabel
  <2>1. TypeOK'
    BY <2>6, UnlockLemma DEF Return, TypeOK, Thread, State, Label, Call,
       LockBalance, Held, LockedLabel, BlockLabel, UnblockLabel, InStuff,
       StuffCall, DirectCall, CallOK, HandlerOK
  <2>2. CallOK'
    BY DEF Return, TypeOK, CallOK, Thread, BlockLabel, UnblockLabel,
       StuffCall
  <2>3. HandlerOK'
    BY <2>6, UnlockLemma DEF Return, TypeOK, CallOK, HandlerOK, Thread,
       LockedLabel, BlockLabel, UnblockLabel, InStuff, StuffCall,
       LockBalance, Held
  <2>4. TerminatedOK'
    <3>1. lists'["terminated"] = lists["terminated"]
      OBVIOUS
    <3>2. ASSUME NEW t \in Task, call[t] = "exit", isr[t] = "none", pc[t] \in ExitLabel
          PROVE  call'[t] = "exit" /\ isr'[t] = "none" /\ pc'[t] \in ExitLabel
      BY <3>2 DEF Return, TypeOK, CallOK, Thread, ExitLabel
    <3> QED BY <3>1, <3>2, TerminatedFrame
  <2>5. LockBalance'
    BY <2>6, UnlockLemma DEF Return, TypeOK, CallOK, LockBalance,
       HandlerOK, Held, Thread, LockedLabel, BlockLabel, UnblockLabel,
       InStuff, StuffCall
  <2> QED BY <2>1, <2>2, <2>3, <2>4, <2>5
<1>9. CASE CleanCall
  <2> USE <1>9 DEF CleanCall, At, Goto, Current, runq, locks, stuff, service,
          handler
  <2>1. TypeOK'
    BY DEF StuffEnter, LockStuff, LockScheduler, Enter, TypeOK, Thread,
       State, Label, Call, LockBalance, Held, LockedLabel, BlockLabel,
       UnblockLabel, InStuff, StuffCall, DirectCall, CallOK, HandlerOK
  <2>2. CallOK'
    BY DEF StuffEnter, LockStuff, LockScheduler, Enter, TypeOK, CallOK,
       Thread, BlockLabel, UnblockLabel, StuffCall
  <2>3. HandlerOK'
    BY DEF StuffEnter, LockStuff, LockScheduler, Enter, TypeOK, CallOK,
       HandlerOK, Thread, LockedLabel, BlockLabel, UnblockLabel, InStuff,
       StuffCall, LockBalance, Held
  <2>4. TerminatedOK'
    <3>1. lists'["terminated"] = lists["terminated"]
      BY DEF StuffEnter
    <3>2. ASSUME NEW t \in Task, call[t] = "exit", isr[t] = "none", pc[t] \in ExitLabel
          PROVE  call'[t] = "exit" /\ isr'[t] = "none" /\ pc'[t] \in ExitLabel
      BY <3>2 DEF StuffEnter, LockStuff, LockScheduler, Enter, TypeOK,
         CallOK, Thread, ExitLabel
    <3> QED BY <3>1, <3>2, TerminatedFrame
  <2>5. LockBalance'
    BY DEF StuffEnter, LockStuff, LockScheduler, Enter, TypeOK, CallOK,
       LockBalance, HandlerOK, Held, Thread, LockedLabel, BlockLabel,
       UnblockLabel, InStuff, StuffCall
  <2> QED BY <2>1, <2>2, <2>3, <2>4, <2>5
<1>10. CASE SleepPast
  <2> USE <1>10 DEF SleepPast, At, Goto, Current, runq, locks, stuff,
          service, handler
  <2>1. TypeOK'
    BY DEF In, TypeOK, Thread, State, Label, Call, LockBalance, Held,
       LockedLabel, BlockLabel, UnblockLabel, InStuff, StuffCall,
       DirectCall, CallOK, HandlerOK
  <2>2. CallOK'
    BY DEF In, TypeOK, CallOK, Thread, BlockLabel, UnblockLabel, StuffCall
  <2>3. HandlerOK'
    BY DEF In, TypeOK, CallOK, HandlerOK, Thread, LockedLabel, BlockLabel,
       UnblockLabel, InStuff, StuffCall, LockBalance, Held
  <2>4. TerminatedOK'
    <3>1. lists'["terminated"] = lists["terminated"]
      OBVIOUS
    <3>2. ASSUME NEW t \in Task, call[t] = "exit", isr[t] = "none", pc[t] \in ExitLabel
          PROVE  call'[t] = "exit" /\ isr'[t] = "none" /\ pc'[t] \in ExitLabel
      BY <3>2 DEF In, TypeOK, CallOK, Thread, ExitLabel
    <3> QED BY <3>1, <3>2, TerminatedFrame
  <2>5. LockBalance'
    BY DEF In, TypeOK, CallOK, LockBalance, HandlerOK, Held, Thread,
       LockedLabel, BlockLabel, UnblockLabel, InStuff, StuffCall
  <2> QED BY <2>1, <2>2, <2>3, <2>4, <2>5
<1>11. CASE SleepSet
  <2> USE <1>11 DEF SleepSet, At, Goto, Current, runq, locks, stuff, service,
          handler
  <2>1. TypeOK'
    BY DEF In, TypeOK, Thread, State, Label, Call, LockBalance, Held,
       LockedLabel, BlockLabel, UnblockLabel, InStuff, StuffCall,
       DirectCall, CallOK, HandlerOK
  <2>2. CallOK'
    BY DEF In, TypeOK, CallOK, Thread, BlockLabel, UnblockLabel, StuffCall
  <2>3. HandlerOK'
    BY DEF In, TypeOK, CallOK, HandlerOK, Thread, LockedLabel, BlockLabel,
       UnblockLabel, InStuff, StuffCall, LockBalance, Held
  <2>4. TerminatedOK'
    <3>1. lists'["terminated"] = lists["terminated"]
      OBVIOUS
    <3>2. ASSUME NEW t \in Task, call[t] = "exit", isr[t] = "none", pc[t] \in ExitLabel
          PROVE  call'[t] = "exit" /\ isr'[t] = "none" /\ pc'[t] \in ExitLabel
      BY <3>2 DEF In, TypeOK, CallOK, Thread, ExitLabel
    <3> QED BY <3>1, <3>2, TerminatedFrame
  <2>5. LockBalance'
    BY DEF In, TypeOK, CallOK, LockBalance, HandlerOK, Held, Thread,
       LockedLabel, BlockLabel, UnblockLabel, InStuff, StuffCall
  <2> QED BY <2>1, <2>2, <2>3, <2>4, <2>5
<1>12. CASE ExitWakeClean
  <2> USE <1>12 DEF ExitWakeClean, At, Goto, Current, runq, locks, stuff,
          service, handler
  <2>1. TypeOK'
    BY DEF In, TypeOK, Thread, State, Label, Call, LockBalance, Held,
       LockedLabel, BlockLabel, UnblockLabel, InStuff, StuffCall,
       DirectCall, CallOK, HandlerOK
  <2>2. CallOK'
    BY DEF In, TypeOK, CallOK, Thread, BlockLabel, UnblockLabel, StuffCall
  <2>3. HandlerOK'
    BY DEF In, TypeOK, CallOK, HandlerOK, Thread, LockedLabel, BlockLabel,
       UnblockLabel, InStuff, StuffCall, LockBalance, Held
  <2>4. TerminatedOK'
    <3>1. lists'["terminated"] = lists["terminated"]
      OBVIOUS
    <3>2. ASSUME NEW t \in Task, call[t] = "exit", isr[t] = "none", pc[t] \in ExitLabel
          PROVE  call'[t] = "exit" /\ isr'[t] = "none" /\ pc'[t] \in ExitLabel
      BY <3>2 DEF In, TypeOK, CallOK, Thread, ExitLabel
    <3> QED BY <3>1, <3>2, TerminatedFrame
  <2>5. LockBalance'
    BY DEF In, TypeOK, CallOK, LockBalance, HandlerOK, Held, Thread,
       LockedLabel, BlockLabel, UnblockLabel, InStuff, StuffCall
  <2> QED BY <2>1, <2>2, <2>3, <2>4, <2>5
<1>13. CASE Reclaim
  <2> USE <1>13 DEF Reclaim, At, Goto, Current, runq, locks, stuff, service,
          handler
  <2> DEFINE dead == Head(lists["terminated"])
  <2>11. lists["terminated"] # << >> /\ lists' = DropHead(lists, "terminated")
    OBVIOUS
  <2>9. /\ state'  = [state EXCEPT ![dead] = "NONE"]
        /\ pc'     = [pc EXCEPT ![dead] = "start"]
        /\ call'   = [call EXCEPT ![dead] = "none"]
        /\ target' = [target EXCEPT ![dead] = Idle]
        /\ left'   = [left EXCEPT ![dead] = 0]
    OBVIOUS
  <2>10. UNCHANGED <<current_task_TCB, time_slice_remaining, locks, stuff, handler>>
    OBVIOUS
  <2>12. At("body") /\ In("clean")
    OBVIOUS
  <2> HIDE DEF Reclaim
  <2>7. /\ dead \in Task /\ Tail(lists["terminated"]) \in Seq(Task)
        /\ Current # dead /\ dead \in Thread /\ Current \in Thread
    BY <2>11, <2>12 DEF TerminatedOK, CallOK, TypeOK, In, Thread
  <2>13. isr[dead] = "none"
    BY <2>11 DEF TerminatedOK
  <2> HIDE DEF dead
  <2>8. /\ lists' \in [ListName -> Seq(Thread)]
        /\ lists'["terminated"] = Tail(lists["terminated"])
        /\ lists'["sleeping"] = lists["sleeping"]
    BY <2>11, DropHeadType DEF TypeOK, ListName
  <2>1. TypeOK'
    BY <2>7, <2>8, <2>9, <2>10, <2>12, <2>13 DEF In, TypeOK, Thread,
       State, Label, Call, LockBalance, Held, LockedLabel, BlockLabel,
       UnblockLabel, InStuff, StuffCall, DirectCall, CallOK, HandlerOK
  <2>2. CallOK'
    BY <2>7, <2>8, <2>9, <2>10, <2>12, <2>13 DEF In, TypeOK, CallOK,
       Thread, BlockLabel, UnblockLabel, StuffCall
  <2>3. HandlerOK'
    BY <2>7, <2>8, <2>9, <2>10, <2>12, <2>13 DEF In, TypeOK, CallOK,
       HandlerOK, Thread, LockedLabel, BlockLabel, UnblockLabel, InStuff,
       StuffCall, LockBalance, Held
  <2>4. TerminatedOK'
    <3> DEFINE old == lists["terminated"]  new == lists'["terminated"]
    <3>1. new \in Seq(Task) /\ Len(new) = Len(old) - 1
          /\ \A i \in 1..Len(new) : new[i] = old[i + 1]
      BY <2>7, <2>8, <2>11 DEF TerminatedOK
    <3>2. ASSUME NEW i \in 1..Len(new)
          PROVE  /\ new[i] \in Task /\ new[i] # dead
                 /\ call[new[i]] = "exit" /\ isr[new[i]] = "none"
                 /\ pc[new[i]] \in ExitLabel
      <4>1. old \in Seq(Task) /\ Len(old) > 0 /\ dead = old[1]
        BY <2>11 DEF TerminatedOK, dead
      <4>2. i + 1 \in 1..Len(old) /\ 1 \in 1..Len(old) /\ i + 1 # 1 /\ new[i] = old[i + 1]
        BY <3>1, <4>1
      <4>3. old[i + 1] # old[1]
        BY <4>2 DEF TerminatedOK
      <4> QED BY <4>1, <4>2, <4>3 DEF TerminatedOK
    <3>3. \A i, j \in 1..Len(new) : new[i] = new[j] => i = j
      BY <3>1 DEF TerminatedOK
    <3>4. \A i \in 1..Len(new) : /\ call'[new[i]] = "exit" /\ isr'[new[i]] = "none"
                                 /\ pc'[new[i]] \in ExitLabel
      BY <3>2, <2>9, <2>10 DEF TypeOK, Thread
    <3> QED BY <3>1, <3>3, <3>4 DEF TerminatedOK
  <2>5. LockBalance'
    BY <2>7, <2>8, <2>9, <2>10, <2>12, <2>13 DEF In, TypeOK, CallOK,
       LockBalance, HandlerOK, Held, Thread, LockedLabel, BlockLabel,
       UnblockLabel, InStuff, StuffCall
  <2> QED BY <2>1, <2>2, <2>3, <2>4, <2>5
<1>14. CASE ReclaimDone
  <2> USE <1>14 DEF ReclaimDone, At, Goto, Current, runq, locks, stuff,
          service, handler
  <2>1. TypeOK'
    BY DEF In, TypeOK, Thread, State, Label, Call, LockBalance, Held,
       LockedLabel, BlockLabel, UnblockLabel, InStuff, StuffCall,
       DirectCall, CallOK, HandlerOK
  <2>2. CallOK'
    BY DEF In, TypeOK, CallOK, Thread, BlockLabel, UnblockLabel, StuffCall
  <2>3. HandlerOK'
    BY DEF In, TypeOK, CallOK, HandlerOK, Thread, LockedLabel, BlockLabel,
       UnblockLabel, InStuff, StuffCall, LockBalance, Held
  <2>4. TerminatedOK'
    <3>1. lists'["terminated"] = lists["terminated"]
      OBVIOUS
    <3>2. ASSUME NEW t \in Task, call[t] = "exit", isr[t] = "none", pc[t] \in ExitLabel
          PROVE  call'[t] = "exit" /\ isr'[t] = "none" /\ pc'[t] \in ExitLabel
      BY <3>2 DEF In, TypeOK, CallOK, Thread, ExitLabel
    <3> QED BY <3>1, <3>2, TerminatedFrame
  <2>5. LockBalance'
    BY DEF In, TypeOK, CallOK, LockBalance, HandlerOK, Held, Thread,
       LockedLabel, BlockLabel, UnblockLabel, InStuff, StuffCall
  <2> QED BY <2>1, <2>2, <2>3, <2>4, <2>5
<1>15. CASE BlockLock
  <2> USE <1>15 DEF BlockLock, At, Goto, Current, runq, locks, stuff,
          service, handler
  <2>1. TypeOK'
    BY DEF LockScheduler, TypeOK, Thread, State, Label, Call, LockBalance,
       Held, LockedLabel, BlockLabel, UnblockLabel, InStuff, StuffCall,
       DirectCall, CallOK, HandlerOK
  <2>2. CallOK'
    BY DEF LockScheduler, TypeOK, CallOK, Thread, BlockLabel,
       UnblockLabel, StuffCall
  <2>3. HandlerOK'
    BY DEF LockScheduler, TypeOK, CallOK, HandlerOK, Thread, LockedLabel,
       BlockLabel, UnblockLabel, InStuff, StuffCall, LockBalance, Held
  <2>4. TerminatedOK'
    <3>1. lists'["terminated"] = lists["terminated"]
      OBVIOUS
    <3>2. ASSUME NEW t \in Task, call[t] = "exit", isr[t] = "none", pc[t] \in ExitLabel
          PROVE  call'[t] = "exit" /\ isr'[t] = "none" /\ pc'[t] \in ExitLabel
      BY <3>2 DEF LockScheduler, TypeOK, CallOK, Thread, ExitLabel
    <3> QED BY <3>1, <3>2, TerminatedFrame
  <2>5. LockBalance'
    BY DEF LockScheduler, TypeOK, CallOK, LockBalance, HandlerOK, Held,
       Thread, LockedLabel, BlockLabel, UnblockLabel, InStuff, StuffCall
  <2> QED BY <2>1, <2>2, <2>3, <2>4, <2>5
<1>16. CASE BlockState
  <2> USE <1>16 DEF BlockState, At, Goto, Current, runq, locks, stuff,
          service, handler
  <2>1. TypeOK'
    BY DEF In, Reason, TypeOK, Thread, State, Label, Call, LockBalance,
       Held, LockedLabel, BlockLabel, UnblockLabel, InStuff, StuffCall,
       DirectCall, CallOK, HandlerOK
  <2>2. CallOK'
    BY DEF In, Reason, TypeOK, CallOK, Thread, BlockLabel, UnblockLabel,
       StuffCall
  <2>3. HandlerOK'
    BY DEF In, Reason, TypeOK, CallOK, HandlerOK, Thread, LockedLabel,
       BlockLabel, UnblockLabel, InStuff, StuffCall, LockBalance, Held
  <2>4. TerminatedOK'
    <3>1. lists'["terminated"] = lists["terminated"]
      OBVIOUS
    <3>2. ASSUME NEW t \in Task, call[t] = "exit", isr[t] = "none", pc[t] \in ExitLabel
          PROVE  call'[t] = "exit" /\ isr'[t] = "none" /\ pc'[t] \in ExitLabel
      BY <3>2 DEF In, Reason, TypeOK, CallOK, Thread, ExitLabel
    <3> QED BY <3>1, <3>2, TerminatedFrame
  <2>5. LockBalance'
    BY DEF In, Reason, TypeOK, CallOK, LockBalance, HandlerOK, Held,
       Thread, LockedLabel, BlockLabel, UnblockLabel, InStuff, StuffCall
  <2> QED BY <2>1, <2>2, <2>3, <2>4, <2>5
<1>17. CASE BlockLink
  <2> USE <1>17 DEF BlockLink, At, Goto, Current, runq, locks, stuff,
          service, handler
  <2>7. Current \in Thread /\ ListOf(call[Current]) \in ListName
    BY DEF TypeOK, ListOf, ListName
  <2>8. lists' \in [ListName -> Seq(Thread)]
    BY <2>7, AddTailType DEF TypeOK
  <2>11. ASSUME NEW n \in ListName
         PROVE  AddTail(lists, n, Current)["terminated"] =
                  IF n = "terminated" THEN Append(lists["terminated"], Current)
                                      ELSE lists["terminated"]
    BY <2>7 DEF AddTail, TypeOK, ListName
  <2>12. lists'["terminated"] = IF ListOf(call[Current]) = "terminated"
                               THEN Append(lists["terminated"], Current)
                               ELSE lists["terminated"]
    BY <2>7, <2>11
  <2>13. Current \in Thread /\ pc[Current] = "blk_list" /\ isr[Current] = "none"
    BY DEF TypeOK
  <2>9. ASSUME ListOf(call[Current]) = "terminated" PROVE TerminatedOK'
    <3> DEFINE old == lists["terminated"]  new == lists'["terminated"]
    <3>1. Current \in Task /\ call[Current] = "exit"
      BY <2>9, <2>13 DEF CallOK, ListOf, BlockLabel
    <3>2. new = Append(old, Current) /\ old \in Seq(Task)
      BY <2>12, <2>9 DEF TerminatedOK
    <3>3. /\ new \in Seq(Task) /\ Len(new) = Len(old) + 1
          /\ \A i \in 1..Len(old) : new[i] = old[i] /\ old[i] \in Task /\ old[i] # Current
          /\ new[Len(old) + 1] = Current
      <4>1. \A i \in 1..Len(old) : pc[old[i]] # "blk_list"
        BY DEF TerminatedOK, ExitLabel
      <4>2. \A i \in 1..Len(old) : old[i] # Current
        BY <4>1, <2>13
      <4> HIDE DEF old, new
      <4> QED BY <3>1, <3>2, <4>2
    <3>4. \A i, j \in 1..Len(new) : new[i] = new[j] => i = j
      <4> HIDE DEF old, new
      <4>1. \A i, j \in 1..Len(old) : old[i] = old[j] => i = j
        BY DEF TerminatedOK, old
      <4>2. Len(old) \in Nat
        BY <3>2
      <4> QED BY <3>3, <4>1, <4>2
    <3>5. \A t \in Thread \ {Current} : call'[t] = call[t] /\ isr'[t] = isr[t] /\ pc'[t] = pc[t]
      BY DEF TypeOK
    <3>6. call'[Current] = "exit" /\ isr'[Current] = "none" /\ pc'[Current] = "blk_sched"
      BY <3>1, <2>13 DEF TypeOK
    <3>7. \A i \in 1..Len(new) : /\ call'[new[i]] = "exit" /\ isr'[new[i]] = "none"
                                 /\ pc'[new[i]] \in ExitLabel
      <4>1. \A i \in 1..Len(old) : /\ call[old[i]] = "exit" /\ isr[old[i]] = "none"
                                   /\ pc[old[i]] \in ExitLabel
        BY DEF TerminatedOK
      <4>2. Len(old) \in Nat
        BY <3>2
      <4> HIDE DEF old, new
      <4>3. ASSUME NEW i \in 1..Len(old)
            PROVE  call'[new[i]] = "exit" /\ isr'[new[i]] = "none" /\ pc'[new[i]] \in ExitLabel
        <5>1. new[i] = old[i] /\ old[i] \in Thread \ {Current}
          BY <3>3 DEF Thread
        <5> HIDE DEF BlockLink
        <5> QED BY <5>1, <3>5, <4>1
      <4>4. call'[new[Len(old) + 1]] = "exit" /\ isr'[new[Len(old) + 1]] = "none"
            /\ pc'[new[Len(old) + 1]] \in ExitLabel
        BY <3>3, <3>6 DEF ExitLabel
      <4> HIDE DEF BlockLink
      <4> QED BY <3>3, <4>2, <4>3, <4>4
    <3> QED BY <3>3, <3>4, <3>7 DEF TerminatedOK
  <2>10. ASSUME ListOf(call[Current]) # "terminated" PROVE TerminatedOK'
    <3>1. lists'["terminated"] = lists["terminated"]
      BY <2>12, <2>10
    <3>2. ASSUME NEW t \in Task, call[t] = "exit", isr[t] = "none", pc[t] \in ExitLabel
          PROVE  call'[t] = "exit" /\ isr'[t] = "none" /\ pc'[t] \in ExitLabel
      <4>1. t # Current /\ t \in Thread
        BY <3>2, <2>13 DEF ExitLabel, Thread
      <4>2. pc'[t] = pc[t]
        BY <4>1 DEF TypeOK
      <4>3. call' = call /\ isr' = isr
        OBVIOUS
      <4> QED BY <3>2, <4>2, <4>3
    <3> QED BY <3>1, <3>2, TerminatedFrame
  <2>1. TypeOK'
    BY <2>8 DEF TypeOK, Thread, State, Label, Call, LockBalance, Held,
       LockedLabel, BlockLabel, UnblockLabel, InStuff, StuffCall,
       DirectCall, CallOK, HandlerOK
  <2>2. CallOK'
    BY DEF TypeOK, CallOK, Thread, BlockLabel, UnblockLabel, StuffCall
  <2>3. HandlerOK'
    BY DEF TypeOK, CallOK, HandlerOK, Thread, LockedLabel, BlockLabel,
       UnblockLabel, InStuff, StuffCall, LockBalance, Held
  <2>4. TerminatedOK'
    BY <2>9, <2>10
  <2>5. LockBalance'
    BY DEF TypeOK, CallOK, LockBalance, HandlerOK, Held, Thread,
       LockedLabel, BlockLabel, UnblockLabel, InStuff, StuffCall
  <2> QED BY <2>1, <2>2, <2>3, <2>4, <2>5
<1>18. CASE BlockUnlock
  <2> USE <1>18 DEF BlockUnlock, At, Goto, Current, runq, locks, stuff,
          service, handler
  <2>7. /\ pc' \in [Thread -> Label] /\ call' \in [Thread -> Call]
        /\ target' \in [Thread -> Thread]
    BY ReturnType DEF Label, TypeOK
  <2>6. Held(Current) # 0 /\ UnlockScheduler
    BY DEF In, Return, TypeOK, Held, LockedLabel, BlockLabel, UnblockLabel
  <2>1. TypeOK'
    BY <2>7, <2>6, UnlockLemma DEF In, Return, TypeOK, Thread, State,
       Label, Call, LockBalance, Held, LockedLabel, BlockLabel,
       UnblockLabel, InStuff, StuffCall, DirectCall, CallOK, HandlerOK
  <2>2. CallOK'
    <3>1. CASE Return
      BY <3>1 DEF In, Return, TypeOK, CallOK, Thread, BlockLabel,
         UnblockLabel, StuffCall
    <3>2. CASE ~Return
      BY <3>2 DEF In, TypeOK, CallOK, Thread, BlockLabel, UnblockLabel,
         StuffCall
    <3> QED BY <3>1, <3>2
  <2>3. HandlerOK'
    <3>1. /\ UNCHANGED <<isr, current_task_TCB, lists>> /\ isr[Current] = "none"
          /\ \A t \in Thread \ {Current} : pc'[t] = pc[t] /\ call'[t] = call[t]
      BY DEF Return, TypeOK
    <3> QED BY <3>1 DEF HandlerOK, InStuff
  <2>4. TerminatedOK'
    <3>1. lists'["terminated"] = lists["terminated"]
      OBVIOUS
    <3>2. ASSUME NEW t \in Task, call[t] = "exit", isr[t] = "none", pc[t] \in ExitLabel
          PROVE  call'[t] = "exit" /\ isr'[t] = "none" /\ pc'[t] \in ExitLabel
      BY <3>2 DEF In, Return, TypeOK, CallOK, Thread, ExitLabel
    <3> QED BY <3>1, <3>2, TerminatedFrame
  <2>5. LockBalance'
    BY <2>6, UnlockLemma DEF In, Return, TypeOK, CallOK, LockBalance,
       HandlerOK, Held, Thread, LockedLabel, BlockLabel, UnblockLabel,
       InStuff, StuffCall
  <2> QED BY <2>1, <2>2, <2>3, <2>4, <2>5
<1>19. CASE UnblockLock
  <2> USE <1>19 DEF UnblockLock, At, Goto, Current, runq, locks, stuff,
          service, handler
  <2>1. TypeOK'
    BY DEF LockScheduler, TypeOK, Thread, State, Label, Call, LockBalance,
       Held, LockedLabel, BlockLabel, UnblockLabel, InStuff, StuffCall,
       DirectCall, CallOK, HandlerOK
  <2>2. CallOK'
    BY DEF LockScheduler, TypeOK, CallOK, Thread, BlockLabel,
       UnblockLabel, StuffCall
  <2>3. HandlerOK'
    BY DEF LockScheduler, TypeOK, CallOK, HandlerOK, Thread, LockedLabel,
       BlockLabel, UnblockLabel, InStuff, StuffCall, LockBalance, Held
  <2>4. TerminatedOK'
    <3>1. lists'["terminated"] = lists["terminated"]
      OBVIOUS
    <3>2. ASSUME NEW t \in Task, call[t] = "exit", isr[t] = "none", pc[t] \in ExitLabel
          PROVE  call'[t] = "exit" /\ isr'[t] = "none" /\ pc'[t] \in ExitLabel
      BY <3>2 DEF LockScheduler, TypeOK, CallOK, Thread, ExitLabel
    <3> QED BY <3>1, <3>2, TerminatedFrame
  <2>5. LockBalance'
    BY DEF LockScheduler, TypeOK, CallOK, LockBalance, HandlerOK, Held,
       Thread, LockedLabel, BlockLabel, UnblockLabel, InStuff, StuffCall
  <2> QED BY <2>1, <2>2, <2>3, <2>4, <2>5
<1>20. CASE UnblockMove
  <2> USE <1>20 DEF UnblockMove, At, Goto, Current, runq, locks, stuff,
          service, handler
  <2>7. /\ lists' \in [ListName -> Seq(Thread)]
        /\ state' \in [Thread -> State]
        /\ lists'["terminated"] = lists["terminated"]
    BY UnblockType DEF TypeOK
  <2>1. TypeOK'
    BY <2>7 DEF TypeOK, Thread, State, Label, Call, LockBalance, Held,
       LockedLabel, BlockLabel, UnblockLabel, InStuff, StuffCall,
       DirectCall, CallOK, HandlerOK
  <2>2. CallOK'
    BY DEF TypeOK, CallOK, Thread, BlockLabel, UnblockLabel, StuffCall
  <2>3. HandlerOK'
    BY DEF TypeOK, CallOK, HandlerOK, Thread, LockedLabel, BlockLabel,
       UnblockLabel, InStuff, StuffCall, LockBalance, Held
  <2>4. TerminatedOK'
    <3>1. lists'["terminated"] = lists["terminated"]
      BY <2>7
    <3>2. ASSUME NEW t \in Task, call[t] = "exit", isr[t] = "none", pc[t] \in ExitLabel
          PROVE  call'[t] = "exit" /\ isr'[t] = "none" /\ pc'[t] \in ExitLabel
      BY <3>2 DEF TypeOK, CallOK, Thread, ExitLabel
    <3> QED BY <3>1, <3>2, TerminatedFrame
  <2>5. LockBalance'
    BY DEF TypeOK, CallOK, LockBalance, HandlerOK, Held, Thread,
       LockedLabel, BlockLabel, UnblockLabel, InStuff, StuffCall
  <2> QED BY <2>1, <2>2, <2>3, <2>4, <2>5
<1>21. CASE UnblockUnlock
  <2> USE <1>21 DEF UnblockUnlock, At, Goto, Current, runq, locks, stuff,
          service, handler
  <2>7. /\ pc' \in [Thread -> Label] /\ call' \in [Thread -> Call]
        /\ target' \in [Thread -> Thread]
    BY ReturnType DEF Label, TypeOK
  <2>6. Held(Current) # 0 /\ UnlockScheduler
    BY DEF In, Return, TypeOK, Held, LockedLabel, BlockLabel, UnblockLabel
  <2>1. TypeOK'
    BY <2>7, <2>6, UnlockLemma DEF In, Return, TypeOK, Thread, State,
       Label, Call, LockBalance, Held, LockedLabel, BlockLabel,
       UnblockLabel, InStuff, StuffCall, DirectCall, CallOK, HandlerOK
  <2>2. CallOK'
    <3>1. CASE Return
      BY <3>1 DEF In, Return, TypeOK, CallOK, Thread, BlockLabel,
         UnblockLabel, StuffCall
    <3>2. CASE ~Return
      BY <3>2 DEF In, TypeOK, CallOK, Thread, BlockLabel, UnblockLabel,
         StuffCall
    <3> QED BY <3>1, <3>2
  <2>3. HandlerOK'
    BY <2>6, UnlockLemma DEF In, Return, TypeOK, CallOK, HandlerOK,
       Thread, LockedLabel, BlockLabel, UnblockLabel, InStuff, StuffCall,
       LockBalance, Held
  <2>4. TerminatedOK'
    <3>1. lists'["terminated"] = lists["terminated"]
      OBVIOUS
    <3>2. ASSUME NEW t \in Task, call[t] = "exit", isr[t] = "none", pc[t] \in ExitLabel
          PROVE  call'[t] = "exit" /\ isr'[t] = "none" /\ pc'[t] \in ExitLabel
      BY <3>2 DEF In, Return, TypeOK, CallOK, Thread, ExitLabel
    <3> QED BY <3>1, <3>2, TerminatedFrame
  <2>5. LockBalance'
    BY <2>6, UnlockLemma DEF In, Return, TypeOK, CallOK, LockBalance,
       HandlerOK, Held, Thread, LockedLabel, BlockLabel, UnblockLabel,
       InStuff, StuffCall
  <2> QED BY <2>1, <2>2, <2>3, <2>4, <2>5
<1>22. CASE UnlockIrq
  <2> USE <1>22 DEF UnlockIrq, At, Goto, Current, runq, locks, stuff,
          service, handler
  <2>7. /\ pc' \in [Thread -> Label] /\ call' \in [Thread -> Call]
        /\ target' \in [Thread -> Thread]
    BY ReturnType DEF Label, TypeOK
  <2>6. Held(Current) # 0 /\ UnlockScheduler
    BY DEF Return, TypeOK, Held, LockedLabel, BlockLabel, UnblockLabel
  <2>1. TypeOK'
    BY <2>7, <2>6, UnlockLemma DEF Return, TypeOK, Thread, State, Label,
       Call, LockBalance, Held, LockedLabel, BlockLabel, UnblockLabel,
       InStuff, StuffCall, DirectCall, CallOK, HandlerOK
  <2>2. CallOK'
    <3>1. CASE Return
      BY <3>1 DEF Return, TypeOK, CallOK, Thread, BlockLabel,
         UnblockLabel, StuffCall
    <3>2. CASE ~Return
      BY <3>2 DEF TypeOK, CallOK, Thread, BlockLabel, UnblockLabel,
         StuffCall
    <3> QED BY <3>1, <3>2
  <2>3. HandlerOK'
    BY <2>6, UnlockLemma DEF Return, TypeOK, CallOK, HandlerOK, Thread,
       LockedLabel, BlockLabel, UnblockLabel, InStuff, StuffCall,
       LockBalance, Held
  <2>4. TerminatedOK'
    <3>1. lists'["terminated"] = lists["terminated"]
      OBVIOUS
    <3>2. ASSUME NEW t \in Task, call[t] = "exit", isr[t] = "none", pc[t] \in ExitLabel
          PROVE  call'[t] = "exit" /\ isr'[t] = "none" /\ pc'[t] \in ExitLabel
      BY <3>2 DEF Return, TypeOK, CallOK, Thread, ExitLabel
    <3> QED BY <3>1, <3>2, TerminatedFrame
  <2>5. LockBalance'
    BY <2>6, UnlockLemma DEF Return, TypeOK, CallOK, LockBalance,
       HandlerOK, Held, Thread, LockedLabel, BlockLabel, UnblockLabel,
       InStuff, StuffCall
  <2> QED BY <2>1, <2>2, <2>3, <2>4, <2>5
<1>23. CASE TimerIRQ
  <2> USE <1>23 DEF TimerIRQ, At, Goto, Current, runq, locks, stuff, service,
          handler
  <2>7. irq_disable_counter = 0 /\ irq_disable_counter' = 1 /\ masked' = TRUE
    BY DEF LockBalance, TypeOK, LockScheduler
  <2>8. left' \in [Thread -> 0..MaxSleep]
    BY DEF TypeOK
  <2>9. anchor' \in Thread
    BY DEF TypeOK, ListName
  <2>10. isr' \in [Thread -> {"none", "walk", "tail", "unlock"}]
    BY DEF TypeOK
  <2>1. TypeOK'
    BY <2>7, <2>8, <2>9, <2>10 DEF LockScheduler, TypeOK, Thread, State,
       Label, Call, LockBalance, Held, LockedLabel, BlockLabel,
       UnblockLabel, InStuff, StuffCall, DirectCall, CallOK, HandlerOK
  <2>2. CallOK'
    BY <2>7 DEF LockScheduler, TypeOK, CallOK, Thread, BlockLabel,
       UnblockLabel, StuffCall
  <2>3. HandlerOK'
    BY <2>7 DEF LockScheduler, TypeOK, CallOK, HandlerOK, Thread,
       LockedLabel, BlockLabel, UnblockLabel, InStuff, StuffCall,
       LockBalance, Held
  <2>4. TerminatedOK'
    <3>1. lists'["terminated"] = lists["terminated"]
      OBVIOUS
    <3>2. ASSUME NEW t \in Task, call[t] = "exit", isr[t] = "none", pc[t] \in ExitLabel
          PROVE  call'[t] = "exit" /\ isr'[t] = "none" /\ pc'[t] \in ExitLabel
      BY <3>2, <2>7 DEF LockScheduler, TypeOK, CallOK, Thread,
         ExitLabel, LockBalance, Held, InStuff, StuffCall, LockedLabel,
         BlockLabel, UnblockLabel
    <3> QED BY <3>1, <3>2, TerminatedFrame
  <2>5. LockBalance'
    BY <2>7 DEF LockScheduler, TypeOK, CallOK, LockBalance, HandlerOK,
       Held, Thread, LockedLabel, BlockLabel, UnblockLabel, InStuff,
       StuffCall
  <2> QED BY <2>1, <2>2, <2>3, <2>4, <2>5
<1>24. CASE WalkWake
  <2> USE <1>24 DEF WalkWake, At, Goto, Current, runq, locks, stuff, service,
          handler
  <2> DEFINE task == Head(lists["sleeping"])
  <2>7. task \in Thread /\ Unblock(task)
    BY DEF TypeOK, HandlerOK, ListName, Handling
  <2>8. /\ lists' \in [ListName -> Seq(Thread)]
        /\ state' \in [Thread -> State]
        /\ lists'["terminated"] = lists["terminated"]
    BY <2>7, UnblockType DEF TypeOK
  <2>9. anchor' \in Thread
    BY <2>8 DEF ListName, WalkEnd, Thread
  <2>10. isr' \in [Thread -> {"none", "walk", "tail", "unlock"}]
    BY DEF TypeOK, WalkEnd
  <2>1. TypeOK'
    BY <2>8, <2>9, <2>10 DEF Handling, WalkEnd, TypeOK, Thread, State,
       Label, Call, LockBalance, Held, LockedLabel, BlockLabel,
       UnblockLabel, InStuff, StuffCall, DirectCall, CallOK, HandlerOK
  <2>2. CallOK'
    BY DEF Handling, WalkEnd, TypeOK, CallOK, Thread, BlockLabel,
       UnblockLabel, StuffCall
  <2>3. HandlerOK'
    BY DEF Handling, WalkEnd, TypeOK, CallOK, HandlerOK, Thread,
       LockedLabel, BlockLabel, UnblockLabel, InStuff, StuffCall,
       LockBalance, Held
  <2>4. TerminatedOK'
    <3>1. lists'["terminated"] = lists["terminated"]
      BY <2>8
    <3>2. ASSUME NEW t \in Task, call[t] = "exit", isr[t] = "none", pc[t] \in ExitLabel
          PROVE  call'[t] = "exit" /\ isr'[t] = "none" /\ pc'[t] \in ExitLabel
      BY <3>2 DEF Handling, WalkEnd, TypeOK, CallOK, Thread, ExitLabel
    <3> QED BY <3>1, <3>2, TerminatedFrame
  <2>5. LockBalance'
    BY DEF Handling, WalkEnd, TypeOK, CallOK, LockBalance, HandlerOK,
       Held, Thread, LockedLabel, BlockLabel, UnblockLabel, InStuff,
       StuffCall
  <2> QED BY <2>1, <2>2, <2>3, <2>4, <2>5
<1>25. CASE WalkNext
  <2> USE <1>25 DEF WalkNext, At, Goto, Current, runq, locks, stuff, service,
          handler
  <2>7. lists["sleeping"] # << >>
    BY DEF HandlerOK, Handling
  <2>8. /\ lists' \in [ListName -> Seq(Thread)]
        /\ lists'["terminated"] = lists["terminated"]
        /\ lists'["sleeping"] = Append(Tail(lists["sleeping"]), Head(lists["sleeping"]))
    BY <2>7, RotateType DEF TypeOK, ListName
  <2>9. lists'["sleeping"] # << >>
    BY <2>7, <2>8 DEF TypeOK, ListName
  <2>10. isr' \in [Thread -> {"none", "walk", "tail", "unlock"}] /\ anchor' \in Thread
    BY DEF TypeOK, WalkEnd, Thread
  <2>1. TypeOK'
    BY <2>8, <2>10 DEF Handling, WalkEnd, TypeOK, Thread, State, Label,
       Call, LockBalance, Held, LockedLabel, BlockLabel, UnblockLabel,
       InStuff, StuffCall, DirectCall, CallOK, HandlerOK
  <2>2. CallOK'
    BY <2>9 DEF Handling, WalkEnd, TypeOK, CallOK, Thread, BlockLabel,
       UnblockLabel, StuffCall
  <2>3. HandlerOK'
    BY <2>9 DEF Handling, WalkEnd, TypeOK, CallOK, HandlerOK, Thread,
       LockedLabel, BlockLabel, UnblockLabel, InStuff, StuffCall,
       LockBalance, Held
  <2>4. TerminatedOK'
    <3>1. lists'["terminated"] = lists["terminated"]
      BY <2>8
    <3>2. ASSUME NEW t \in Task, call[t] = "exit", isr[t] = "none", pc[t] \in ExitLabel
          PROVE  call'[t] = "exit" /\ isr'[t] = "none" /\ pc'[t] \in ExitLabel
      BY <3>2, <2>9 DEF Handling, WalkEnd, TypeOK, CallOK, Thread,
         ExitLabel
    <3> QED BY <3>1, <3>2, TerminatedFrame
  <2>5. LockBalance'
    BY <2>9 DEF Handling, WalkEnd, TypeOK, CallOK, LockBalance, HandlerOK,
       Held, Thread, LockedLabel, BlockLabel, UnblockLabel, InStuff,
       StuffCall
  <2> QED BY <2>1, <2>2, <2>3, <2>4, <2>5
<1>26. CASE HookReturn
  <2> USE <1>26 DEF HookReturn, At, Goto, Current, runq, locks, stuff,
          service, handler
  <2>6. Held(Current) # 0 /\ UnlockScheduler
    BY DEF Handling, TypeOK, Held, LockedLabel, BlockLabel, UnblockLabel
  <2>1. TypeOK'
    BY <2>6, UnlockLemma DEF Handling, TypeOK, Thread, State, Label, Call,
       LockBalance, Held, LockedLabel, BlockLabel, UnblockLabel, InStuff,
       StuffCall, DirectCall, CallOK, HandlerOK
  <2>2. CallOK'
    BY DEF Handling, TypeOK, CallOK, Thread, BlockLabel, UnblockLabel,
       StuffCall
  <2>3. HandlerOK'
    BY <2>6, UnlockLemma DEF Handling, TypeOK, CallOK, HandlerOK, Thread,
       LockedLabel, BlockLabel, UnblockLabel, InStuff, StuffCall,
       LockBalance, Held
  <2>4. TerminatedOK'
    <3>1. lists'["terminated"] = lists["terminated"]
      OBVIOUS
    <3>2. ASSUME NEW t \in Task, call[t] = "exit", isr[t] = "none", pc[t] \in ExitLabel
          PROVE  call'[t] = "exit" /\ isr'[t] = "none" /\ pc'[t] \in ExitLabel
      BY <3>2 DEF Handling, TypeOK, CallOK, Thread, ExitLabel
    <3> QED BY <3>1, <3>2, TerminatedFrame
  <2>5. LockBalance'
    BY <2>6, UnlockLemma DEF Handling, TypeOK, CallOK, LockBalance,
       HandlerOK, Held, Thread, LockedLabel, BlockLabel, UnblockLabel,
       InStuff, StuffCall
  <2> QED BY <2>1, <2>2, <2>3, <2>4, <2>5
<1>27. CASE BlockSchedule
  <2> USE <1>27 DEF BlockSchedule, At, Goto, Current, runq, locks, stuff,
          service, handler
  <2>7. /\ current_task_TCB' \in Thread
        /\ state' \in [Thread -> State]
        /\ lists' \in [ListName -> Seq(Thread)]
        /\ time_slice_remaining' \in 0..Slice
        /\ lists'["terminated"] = lists["terminated"]
    BY DispatchType DEF Schedule, TypeOK
  <2>1. TypeOK'
    BY <2>7 DEF Schedule, TypeOK, Thread, State, Label, Call, LockBalance,
       Held, LockedLabel, BlockLabel, UnblockLabel, InStuff, StuffCall,
       DirectCall, CallOK, HandlerOK
  <2>2. CallOK'
    BY <2>7 DEF Schedule, TypeOK, CallOK, Thread, BlockLabel,
       UnblockLabel, StuffCall
  <2>3. HandlerOK'
    BY <2>7 DEF Schedule, TypeOK, CallOK, HandlerOK, Thread, LockedLabel,
       BlockLabel, UnblockLabel, InStuff, StuffCall, LockBalance, Held
  <2>4. TerminatedOK'
    <3>1. lists'["terminated"] = lists["terminated"]
      BY <2>7
    <3>2. ASSUME NEW t \in Task, call[t] = "exit", isr[t] = "none", pc[t] \in ExitLabel
          PROVE  call'[t] = "exit" /\ isr'[t] = "none" /\ pc'[t] \in ExitLabel
      BY <3>2, <2>7 DEF Schedule, TypeOK, CallOK, Thread, ExitLabel
    <3> QED BY <3>1, <3>2, TerminatedFrame
  <2>5. LockBalance'
    BY <2>7 DEF Schedule, TypeOK, CallOK, LockBalance, HandlerOK, Held,
       Thread, LockedLabel, BlockLabel, UnblockLabel, InStuff, StuffCall
  <2> QED BY <2>1, <2>2, <2>3, <2>4, <2>5
<1>28. CASE UnlockPostpone
  <2> USE <1>28 DEF UnlockPostpone, At, Goto, Current, runq, locks, stuff,
          service, handler
  <2>7. /\ current_task_TCB' \in Thread
        /\ state' \in [Thread -> State]
        /\ lists' \in [ListName -> Seq(Thread)]
        /\ time_slice_remaining' \in 0..Slice
        /\ lists'["terminated"] = lists["terminated"]
    BY DispatchType DEF TypeOK
  <2>8. pc' \in [Thread -> Label]
    BY DEF TypeOK, Label
  <2>1. TypeOK'
    BY <2>7, <2>8 DEF TypeOK, Thread, State, Label, Call, LockBalance,
       Held, LockedLabel, BlockLabel, UnblockLabel, InStuff, StuffCall,
       DirectCall, CallOK, HandlerOK
  <2>2. CallOK'
    BY <2>7 DEF TypeOK, CallOK, Thread, BlockLabel, UnblockLabel,
       StuffCall
  <2>3. HandlerOK'
    BY <2>7 DEF TypeOK, CallOK, HandlerOK, Thread, LockedLabel,
       BlockLabel, UnblockLabel, InStuff, StuffCall, LockBalance, Held
  <2>4. TerminatedOK'
    <3>1. lists'["terminated"] = lists["terminated"]
      BY <2>7
    <3>2. ASSUME NEW t \in Task, call[t] = "exit", isr[t] = "none", pc[t] \in ExitLabel
          PROVE  call'[t] = "exit" /\ isr'[t] = "none" /\ pc'[t] \in ExitLabel
      BY <3>2, <2>7 DEF TypeOK, CallOK, Thread, ExitLabel
    <3> QED BY <3>1, <3>2, TerminatedFrame
  <2>5. LockBalance'
    BY <2>7 DEF TypeOK, CallOK, LockBalance, HandlerOK, Held, Thread,
       LockedLabel, BlockLabel, UnblockLabel, InStuff, StuffCall
  <2> QED BY <2>1, <2>2, <2>3, <2>4, <2>5
<1>29. CASE HookTail
  <2> USE <1>29 DEF HookTail, At, Goto, Current, runq, locks, stuff, service,
          handler
  <2>7. /\ current_task_TCB' \in Thread
        /\ state' \in [Thread -> State]
        /\ lists' \in [ListName -> Seq(Thread)]
        /\ time_slice_remaining' \in 0..Slice
        /\ lists'["terminated"] = lists["terminated"]
    BY DispatchType DEF Handling, Schedule, TypeOK
  <2>1. TypeOK'
    BY <2>7 DEF Handling, Schedule, TypeOK, Thread, State, Label, Call,
       LockBalance, Held, LockedLabel, BlockLabel, UnblockLabel, InStuff,
       StuffCall, DirectCall, CallOK, HandlerOK
  <2>2. CallOK'
    BY <2>7 DEF Handling, Schedule, TypeOK, CallOK, Thread, BlockLabel,
       UnblockLabel, StuffCall
  <2>3. HandlerOK'
    BY <2>7 DEF Handling, Schedule, TypeOK, CallOK, HandlerOK, Thread,
       LockedLabel, BlockLabel, UnblockLabel, InStuff, StuffCall,
       LockBalance, Held
  <2>4. TerminatedOK'
    <3>1. lists'["terminated"] = lists["terminated"]
      BY <2>7
    <3>2. ASSUME NEW t \in Task, call[t] = "exit", isr[t] = "none", pc[t] \in ExitLabel
          PROVE  call'[t] = "exit" /\ isr'[t] = "none" /\ pc'[t] \in ExitLabel
      BY <3>2, <2>7 DEF Handling, Schedule, TypeOK, CallOK, Thread,
         ExitLabel
    <3> QED BY <3>1, <3>2, TerminatedFrame
  <2>5. LockBalance'
    <3>1. /\ UNCHANGED <<irq_disable_counter, masked,
                       postpone_task_switches_counter, pc, call>>
          /\ isr' = [isr EXCEPT ![Current] = "unlock"]
          /\ isr[Current] # "none"
      BY DEF Handling
    <3>2. ASSUME NEW t \in Thread
          PROVE  InStuff(t)' = InStuff(t) /\ Held(t)' = Held(t)
      BY <3>1 DEF InStuff, Held, TypeOK
    <3>3. CASE current_task_TCB' = Current
      BY <3>1, <3>2, <3>3, <2>7 DEF LockBalance
    <3>4. CASE current_task_TCB' # Current
      <4>1. postpone_task_switches_counter = 0
        BY <3>4 DEF Schedule
      <4>2. Current \in Thread /\ ~InStuff(Current)
        BY <4>1 DEF LockBalance, TypeOK
      <4>3. Held(Current) = 1
        BY <3>1, <4>2 DEF HandlerOK, Held, TypeOK, LockedLabel, BlockLabel, UnblockLabel
      <4> QED BY <3>1, <3>2, <3>4, <4>1, <4>2, <4>3, <2>7 DEF LockBalance
    <3> QED BY <3>3, <3>4
  <2> QED BY <2>1, <2>2, <2>3, <2>4, <2>5
<1>30. CASE UNCHANGED vars
  BY <1>30 DEF vars, At, Goto, Current, runq, locks, stuff, service, handler,
      TypeOK, CallOK, HandlerOK, TerminatedOK, LockBalance, Held, InStuff
<1> QED BY <1>1, <1>2, <1>3, <1>4, <1>5, <1>6, <1>7, <1>8, <1>9, <1>10, <1>11,
    <1>12, <1>13, <1>14, <1>15, <1>16, <1>17, <1>18, <1>19, <1>20, <1>21,
    <1>22, <1>23, <1>24, <1>25, <1>26, <1>27, <1>28, <1>29, <1>30 DEF Next,
    ThreadCall, KernelStep, HandlerStep

-----------------------------------------------------------------------------
(* Theorems.                                                                *)

\* The inductive invariant is an invariant.
THEOREM LockInvariant == Spec => []LockInv
BY InitLockInv, LockInvStep, PTL DEF Spec

\* Type correctness: in particular irq_disable_counter stays in 0..2 and
\* postpone_task_switches_counter in 0..1 whatever the tasks do.
THEOREM TypeCorrect == Spec => []TypeOK
<1>1. LockInv => TypeOK
  BY DEF LockInv
<1> QED BY <1>1, LockInvariant, PTL

\* Lock balance: the lock counters of task.c are always exactly what the
\* running thread has taken, across every context switch.
THEOREM LocksBalanced == Spec => []LockBalance
<1>1. LockInv => LockBalance
  BY DEF LockInv
<1> QED BY <1>1, LockInvariant, PTL

\* schedule and unlock_stuff never switch threads inside lock_stuff.
THEOREM SwitchesPostponed == Spec => NoSwitchWhilePostponed
<1> DEFINE Kept == current_task_TCB' # current_task_TCB
                     => postpone_task_switches_counter' = 0
<1>1. TypeOK /\ [Next]_vars => [Kept]_vars
  <2> SUFFICES ASSUME TypeOK, Next, current_task_TCB' # current_task_TCB
               PROVE  postpone_task_switches_counter' = 0
    OBVIOUS
  <2>1. CASE BlockSchedule
    BY <2>1 DEF BlockSchedule, Schedule, runq
  <2>2. CASE HookTail
    BY <2>2 DEF HookTail, Schedule, runq
  <2>3. CASE UnlockPostpone
    BY <2>3 DEF UnlockPostpone, runq
  <2>4. CASE ThreadCall
    BY <2>4 DEF ThreadCall, SectionEnter, PauseCall, UnblockCall, SleepCall,
                ExitCall, Fork, StuffEnter, runq
  <2>5. CASE KernelStep /\ ~BlockSchedule /\ ~UnlockPostpone
    BY <2>5 DEF KernelStep, StartUp, SectionLeave, CleanCall, StuffEnter,
        SleepPast,
                SleepSet, ExitWakeClean, Reclaim, ReclaimDone, BlockLock, BlockState,
                BlockLink, BlockUnlock, UnblockLock, UnblockMove, UnblockUnlock,
                UnlockIrq, runq
  <2>6. CASE TimerIRQ \/ WalkWake \/ WalkNext \/ HookReturn
    BY <2>6 DEF TimerIRQ, WalkWake, WalkNext, HookReturn, runq
  <2> QED BY <2>1, <2>2, <2>3, <2>4, <2>5, <2>6 DEF Next, HandlerStep
<1> QED BY <1>1, TypeCorrect, PTL DEF Spec, NoSwitchWhilePostponed

-----------------------------------------------------------------------------
(***************************************************************************)
(* Proofs about the thread lists of Scheduler, for every set of tasks,     *)
(* boot list, workload, slice length and sleep length: where every TCB is  *)
(* linked, that none is lost, that a postponed switch is not forgotten,    *)
(* that the timer's walk misses no sleeper that is due, and that the       *)
(* scheduler is the round robin of RoundRobin.                             *)
(*                                                                         *)
(* PlaceInv is the inductive invariant.  That a TCB is on the list its     *)
(* state names (ListMatchesState) is not inductive alone: while            *)
(* block_task is under way the state is already the reason and the node    *)
(* not yet linked (BlockOK), the running thread must be on no list when    *)
(* it starts to block, and the node must be linked once in every list      *)
(* (ListsOK), because a list operation on a node linked twice would leave  *)
(* the other link behind.  It rests on LockInv: only the thread that runs  *)
(* can be inside block_task, since a timer interrupt cannot come in        *)
(* between.                                                                *)
(***************************************************************************)

\* No thread is twice in a list.
NoRepeat(s) == \A i, j \in 1..Len(s) : s[i] = s[j] => i = j

\* A TCB's one pair of link fields is in no list twice, and the clean task,
\* which starts on the paused list while it is READY, is never on the ready
\* and on the paused list at once.
ListsOK ==
  /\ \A n \in ListName : NoRepeat(lists[n])
  /\ ~(Linked(Clean, "ready") /\ Linked(Clean, "paused"))

\* While block_task is under way, between its three writes, the thread that
\* blocks is the one that runs, its state is already the reason it blocks
\* for, and it is linked nowhere yet; the idle task never blocks.
BlockOK ==
  /\ state[Idle] = "RUNNING"
  /\ pc[Current] \in {"blk_list", "blk_sched"} => state[Current] = Reason(call[Current])
  /\ task_switches_postponed_flag = 1 => state[Current] = Reason(call[Current])
  /\ pc[Current] = "blk_list" =>
       call[Current] # "acquire" /\ \A n \in ListName : ~Linked(Current, n)
  /\ \A t \in Thread \ {Current} : pc[t] \notin {"blk_state", "blk_list", "blk_sched"}

\* A walk of the sleeping list that has not come back to its anchor has seen
\* every sleeper between the anchor and the end of the list, and none of them
\* was due.
WalkOK ==
  isr[Current] = "walk" =>
    LET s == lists["sleeping"] IN
    \E k \in 1..Len(s) : s[k] = anchor /\ (k # 1 => \A i \in k..Len(s) : left[s[i]] > 0)

\* The inductive invariant of the lists.
PlaceInv == ListsOK /\ ListMatchesState /\ NoThreadLost /\ BlockOK /\ PostponedSwitchKept

\* A list with a node added is not empty.
LEMMA AppendNotEmpty ==
  ASSUME NEW S, NEW s \in Seq(S), NEW e \in S
  PROVE  Append(s, e) # << >>
<1>1. Len(Append(s, e)) = Len(s) + 1 /\ Len(s) \in Nat
  OBVIOUS
<1>2. Len(<< >>) = 0
  OBVIOUS
<1> QED BY <1>1, <1>2

\* list_add_tail links the node it is given and unlinks none.
LEMMA OccursAppend ==
  ASSUME NEW S, NEW s \in Seq(S), NEW u \in S, NEW t
  PROVE  Occurs(t, Append(s, u)) <=> Occurs(t, s) \/ t = u
<1> DEFINE r == Append(s, u)
<1>1. Len(r) = Len(s) + 1 /\ Len(s) \in Nat /\ r[Len(s) + 1] = u
      /\ \A i \in 1..Len(s) : r[i] = s[i]
  OBVIOUS
<1> HIDE DEF r
<1>2. Occurs(t, r) => Occurs(t, s) \/ t = u
  BY <1>1 DEF Occurs
<1>3. Occurs(t, s) => Occurs(t, r)
  BY <1>1 DEF Occurs
<1>4. t = u => Occurs(t, r)
  BY <1>1 DEF Occurs
<1> QED BY <1>2, <1>3, <1>4 DEF r

\* Adding a node that is not in a list leaves every node in it once.
LEMMA NoRepeatAppend ==
  ASSUME NEW S, NEW s \in Seq(S), NEW u \in S, NoRepeat(s), ~Occurs(u, s)
  PROVE  NoRepeat(Append(s, u))
<1> DEFINE r == Append(s, u)
<1>1. Len(r) = Len(s) + 1 /\ Len(s) \in Nat /\ r[Len(s) + 1] = u
      /\ \A i \in 1..Len(s) : r[i] = s[i] /\ r[i] # u
  BY DEF Occurs
<1> HIDE DEF r
<1>2. NoRepeat(r)
  BY <1>1 DEF NoRepeat
<1> QED BY <1>2 DEF r

\* Removing the head of a list of distinct nodes unlinks that node and no
\* other.
LEMMA OccursTail ==
  ASSUME NEW S, NEW s \in Seq(S), s # << >>, NoRepeat(s), NEW t
  PROVE  /\ NoRepeat(Tail(s))
         /\ Occurs(t, Tail(s)) <=> Occurs(t, s) /\ t # Head(s)
<1> DEFINE r == Tail(s)
<1>1. /\ Len(r) = Len(s) - 1 /\ Len(s) \in Nat \ {0} /\ Head(s) = s[1]
      /\ \A i \in 1..Len(r) : r[i] = s[i + 1]
  OBVIOUS
<1> HIDE DEF r
<1>2. NoRepeat(r)
  BY <1>1 DEF NoRepeat
<1>3. Occurs(t, r) => Occurs(t, s) /\ t # Head(s)
  BY <1>1 DEF Occurs, NoRepeat
<1>4. ASSUME Occurs(t, s), t # Head(s) PROVE Occurs(t, r)
  <2>1. PICK i \in 1..Len(s) : s[i] = t
    BY <1>4 DEF Occurs
  <2>2. i - 1 \in 1..Len(r) /\ r[i - 1] = t
    BY <2>1, <1>1, <1>4
  <2> QED BY <2>2 DEF Occurs
<1> QED BY <1>2, <1>3, <1>4 DEF r

\* The head of a list is in the list.
LEMMA OccursHead ==
  ASSUME NEW S, NEW s \in Seq(S), s # << >>
  PROVE  Occurs(Head(s), s) /\ Head(s) \in S
BY DEF Occurs

-----------------------------------------------------------------------------
\* What list_add_tail of a node that is not in the list does to the links of
\* all threads.
LEMMA AddTailLinks ==
  ASSUME lists \in [ListName -> Seq(Thread)], NEW n \in ListName, NEW u \in Thread,
         \A m \in ListName : NoRepeat(lists[m]), ~Linked(u, n),
         lists' = AddTail(lists, n, u)
  PROVE  /\ \A m \in ListName : NoRepeat(lists'[m])
         /\ \A t \in Thread : \A m \in ListName :
              Linked(t, m)' <=> Linked(t, m) \/ (m = n /\ t = u)
<1>1. /\ lists \in [ListName -> Seq(Thread)]
      /\ \A m \in ListName : lists'[m] = IF m = n THEN Append(lists[n], u) ELSE lists[m]
  <2>1. \A m \in ListName : AddTail(lists, n, u)[m] = IF m = n THEN Append(lists[n], u) ELSE lists[m]
    BY AddTailType
  <2> QED BY <2>1
<1>2. NoRepeat(Append(lists[n], u))
  BY <1>1, NoRepeatAppend DEF Linked
<1>3. \A t \in Thread : Occurs(t, Append(lists[n], u)) <=> Occurs(t, lists[n]) \/ t = u
  BY <1>1, OccursAppend
<1> QED BY <1>1, <1>2, <1>3 DEF Linked

\* What removing the head of a list does to the links of all threads.
LEMMA DropHeadLinks ==
  ASSUME lists \in [ListName -> Seq(Thread)], NEW n \in ListName, lists[n] # << >>,
         \A m \in ListName : NoRepeat(lists[m]),
         lists' = DropHead(lists, n)
  PROVE  /\ \A m \in ListName : NoRepeat(lists'[m])
         /\ \A t \in Thread : \A m \in ListName :
              Linked(t, m)' <=> Linked(t, m) /\ ~(m = n /\ t = Head(lists[n]))
<1>1. /\ lists \in [ListName -> Seq(Thread)]
      /\ \A m \in ListName : lists'[m] = IF m = n THEN Tail(lists[n]) ELSE lists[m]
  BY DropHeadType
<1>2. /\ NoRepeat(Tail(lists[n]))
      /\ \A t \in Thread : Occurs(t, Tail(lists[n])) <=> Occurs(t, lists[n]) /\ t # Head(lists[n])
  BY <1>1, OccursTail
<1> QED BY <1>1, <1>2 DEF Linked

\* What waking the head of a list does to the links of all threads: it goes
\* from its list to the ready list.
LEMMA MoveLinks ==
  ASSUME lists \in [ListName -> Seq(Thread)], NEW n \in ListName \ {"ready"}, lists[n] # << >>,
         \A m \in ListName : NoRepeat(lists[m]), ~Linked(Head(lists[n]), "ready"),
         lists' = AddTail(DropHead(lists, n), "ready", Head(lists[n]))
  PROVE  /\ \A m \in ListName : NoRepeat(lists'[m])
         /\ Head(lists[n]) \in Thread /\ Linked(Head(lists[n]), n)
         /\ \A t \in Thread : \A m \in ListName :
              Linked(t, m)' <=> \/ Linked(t, m) /\ ~(m = n /\ t = Head(lists[n]))
                                \/ m = "ready" /\ t = Head(lists[n])
<1> DEFINE ls == DropHead(lists, n)
           u  == Head(lists[n])
<1>1. /\ lists \in [ListName -> Seq(Thread)] /\ "ready" \in ListName
      /\ ls \in [ListName -> Seq(Thread)]
      /\ \A m \in ListName : ls[m] = IF m = n THEN Tail(lists[n]) ELSE lists[m]
  BY DropHeadType DEF ListName
<1>2. u \in Thread /\ Occurs(u, lists[n])
  BY <1>1, OccursHead
<1>3. /\ NoRepeat(Tail(lists[n]))
      /\ \A t \in Thread : Occurs(t, Tail(lists[n])) <=> Occurs(t, lists[n]) /\ t # u
  BY <1>1, OccursTail
<1>10. lists' = AddTail(ls, "ready", u)
  OBVIOUS
<1> HIDE DEF ls, u
<1>4. \A m \in ListName : lists'[m] = IF m = "ready" THEN Append(ls["ready"], u) ELSE ls[m]
  <2>1. \A m \in ListName : AddTail(ls, "ready", u)[m]
                             = IF m = "ready" THEN Append(ls["ready"], u) ELSE ls[m]
    BY <1>1, <1>2, AddTailType
  <2> QED BY <1>10, <2>1
<1>5. ls["ready"] = lists["ready"] /\ ~Occurs(u, lists["ready"])
  BY <1>1 DEF u, Linked
<1>6. NoRepeat(Append(lists["ready"], u))
  BY <1>1, <1>2, <1>5, NoRepeatAppend
<1>7. \A t \in Thread : Occurs(t, Append(lists["ready"], u)) <=> Occurs(t, lists["ready"]) \/ t = u
  BY <1>1, <1>2, OccursAppend
<1>8. \A m \in ListName : NoRepeat(lists'[m])
  BY <1>1, <1>3, <1>4, <1>5, <1>6
<1>9. \A t \in Thread : \A m \in ListName :
              Linked(t, m)' <=> \/ Linked(t, m) /\ ~(m = n /\ t = u)
                                \/ m = "ready" /\ t = u
  BY <1>1, <1>3, <1>4, <1>5, <1>7 DEF Linked
<1> QED BY <1>2, <1>8, <1>9 DEF u, Linked

\* Moving a list pointer to next links and unlinks no thread.
LEMMA RotateLinks ==
  ASSUME lists \in [ListName -> Seq(Thread)], NEW n \in ListName, lists[n] # << >>,
         \A m \in ListName : NoRepeat(lists[m]),
         lists' = Rotate(lists, n)
  PROVE  /\ \A m \in ListName : NoRepeat(lists'[m])
         /\ \A t \in Thread : \A m \in ListName : Linked(t, m)' <=> Linked(t, m)
<1> DEFINE u == Head(lists[n])
           r == Tail(lists[n])
<1>0. lists \in [ListName -> Seq(Thread)] /\ lists[n] \in Seq(Thread) /\ r \in Seq(Thread)
  OBVIOUS
<1>1. /\ lists \in [ListName -> Seq(Thread)] /\ r \in Seq(Thread)
      /\ \A m \in ListName : lists'[m] = IF m = n THEN Append(r, u) ELSE lists[m]
  BY <1>0, RotateType
<1>2. u \in Thread /\ Occurs(u, lists[n])
  BY <1>1, OccursHead
<1>3. NoRepeat(r) /\ \A t \in Thread : Occurs(t, r) <=> Occurs(t, lists[n]) /\ t # u
  BY <1>1, OccursTail
<1> HIDE DEF r, u
<1>4. NoRepeat(Append(r, u)) /\ \A t \in Thread : Occurs(t, Append(r, u)) <=> Occurs(t, r) \/ t = u
  BY <1>1, <1>2, <1>3, NoRepeatAppend, OccursAppend
<1>5. \A t \in Thread : Occurs(t, Append(r, u)) <=> Occurs(t, lists[n])
  BY <1>2, <1>3, <1>4
<1> QED BY <1>1, <1>4, <1>5 DEF Linked

\* What schedule does to the links when it preempts the running thread: it
\* goes to the tail of the ready list, and the head comes off.
LEMMA PreemptLinks ==
  ASSUME lists \in [ListName -> Seq(Thread)], Current \in Thread, Ready # << >>,
         \A m \in ListName : NoRepeat(lists[m]), ~Linked(Current, "ready"),
         lists' = DropHead(AddTail(lists, "ready", Current), "ready")
  PROVE  /\ \A m \in ListName : NoRepeat(lists'[m])
         /\ Ready' = Append(Tail(Ready), Current)
         /\ \A t \in Thread : \A m \in ListName :
              Linked(t, m)' <=> \/ Linked(t, m) /\ ~(m = "ready" /\ t = Head(Ready))
                                \/ m = "ready" /\ t = Current
<1> DEFINE ls == AddTail(lists, "ready", Current)
           c  == Current
<1>1. lists \in [ListName -> Seq(Thread)] /\ "ready" \in ListName /\ c \in Thread
  BY DEF ListName
<1>2. /\ ls \in [ListName -> Seq(Thread)]
      /\ \A m \in ListName : ls[m] = IF m = "ready" THEN Append(Ready, c) ELSE lists[m]
  BY <1>1, AddTailType DEF Ready
<1>11. lists' = DropHead(ls, "ready") /\ Append(Ready, c) # << >>
  BY <1>1 DEF Ready
<1> HIDE DEF ls, c
<1>3. \A m \in ListName : lists'[m] = IF m = "ready" THEN Tail(ls["ready"]) ELSE ls[m]
  <2>1. ls \in [ListName -> Seq(Thread)] /\ ls["ready"] # << >> /\ "ready" \in ListName
    BY <1>1, <1>2, <1>11
  <2>2. \A m \in ListName :
          DropHead(ls, "ready")[m] = IF m = "ready" THEN Tail(ls["ready"]) ELSE ls[m]
    BY <2>1, DropHeadType
  <2> QED BY <1>11, <2>2
<1>4. Tail(Append(Ready, c)) = Append(Tail(Ready), c) /\ Tail(Ready) \in Seq(Thread)
  BY <1>1 DEF Ready
<1>5. \A m \in ListName : lists'[m] = IF m = "ready" THEN Append(Tail(Ready), c) ELSE lists[m]
  BY <1>1, <1>2, <1>3, <1>4
<1>6. /\ NoRepeat(Tail(Ready))
      /\ \A t \in Thread : Occurs(t, Tail(Ready)) <=> Occurs(t, Ready) /\ t # Head(Ready)
  BY <1>1, OccursTail DEF Ready
<1>7. ~Occurs(c, Tail(Ready))
  BY <1>1, <1>6 DEF Linked, c, Ready
<1>8. NoRepeat(Append(Tail(Ready), c))
  BY <1>1, <1>4, <1>6, <1>7, NoRepeatAppend
<1>9. \A t \in Thread : Occurs(t, Append(Tail(Ready), c)) <=> Occurs(t, Tail(Ready)) \/ t = c
  BY <1>1, <1>4, OccursAppend
<1>10. \A t \in Thread : \A m \in ListName :
              Linked(t, m)' <=> \/ Linked(t, m) /\ ~(m = "ready" /\ t = Head(Ready))
                                \/ m = "ready" /\ t = c
  BY <1>5, <1>6, <1>9 DEF Linked, Ready
<1> QED BY <1>1, <1>5, <1>8, <1>10 DEF Ready, c

-----------------------------------------------------------------------------
\* The running thread is not on the ready list; outside block_task it is
\* RUNNING with no switch postponed, and before it asks to block it is on no
\* list.
LEMMA CurrentPlace ==
  ASSUME LockInv, PlaceInv
  PROVE  /\ Current \in Thread /\ state[Current] \in State \ {"NONE", "READY"}
         /\ ~Linked(Current, "ready")
         /\ pc[Current] \notin BlockedLabel =>
              state[Current] = "RUNNING" /\ task_switches_postponed_flag = 0
         /\ pc[Current] \notin BlockedLabel \cup {"blk_enter", "blk_state"} =>
              \A n \in ListName : ~Linked(Current, n)
<1>1. Current \in Thread /\ state[Current] \in State /\ pc[Current] \in Label
      /\ task_switches_postponed_flag \in 0..1
  BY DEF LockInv, TypeOK, Current
<1>2. state[Current] \in State \ {"NONE", "READY"}
  BY <1>1 DEF PlaceInv, BlockOK, PostponedSwitchKept, Reason, State, BlockedLabel
<1>3. pc[Current] \notin BlockedLabel =>
              state[Current] = "RUNNING" /\ task_switches_postponed_flag = 0
  BY <1>1 DEF PlaceInv, PostponedSwitchKept, BlockedLabel
<1>4. ~Linked(Current, "ready")
  BY <1>1, <1>2 DEF PlaceInv, ListMatchesState
<1>5. ASSUME pc[Current] \notin BlockedLabel \cup {"blk_enter", "blk_state"}, NEW n \in ListName
      PROVE  ~Linked(Current, n)
  BY <1>1, <1>3, <1>5 DEF PlaceInv, ListMatchesState, ListName, Joining
<1> QED BY <1>1, <1>2, <1>3, <1>4, <1>5

\* A step that touches neither lists nor states keeps PlaceInv, unless it
\* moves the running thread into the middle of block_task.
LEMMA QuietKeeps ==
  ASSUME LockInv, PlaceInv,
         UNCHANGED <<current_task_TCB, state, lists, task_switches_postponed_flag>>,
         state[Current] = "RUNNING", task_switches_postponed_flag = 0,
         pc[Current] # "blk_list", pc'[Current] \notin {"blk_list", "blk_sched"},
         \A t \in Thread \ {Current} : pc'[t] = pc[t],
         Joining(Current) => pc'[Current] \in {"blk_enter", "blk_state"} /\ call'[Current] = "acquire"
  PROVE  PlaceInv'
<1> USE DEF Current
<1>1. state[Current] = "RUNNING" /\ task_switches_postponed_flag = 0 /\ Current \in Thread
  BY CurrentPlace
<1>2. \A t \in Thread, n \in ListName : Linked(t, n)' <=> Linked(t, n)
  BY DEF Linked
<1>3. ListsOK'
  BY DEF PlaceInv, ListsOK, Linked
<1>4. ListMatchesState'
  <2>1. \A t \in Thread : Joining(t) => Joining(t)'
    BY DEF Joining
  <2> QED BY <1>2, <2>1 DEF PlaceInv, ListMatchesState, ListName
<1>5. NoThreadLost'
  <2>1. \A t \in Thread : ~Linking(t)
    BY DEF Linking, BlockedLabel
  <2> QED BY <1>2, <2>1 DEF PlaceInv, NoThreadLost, ListName
<1>6. BlockOK'
  BY <1>1 DEF PlaceInv, BlockOK
<1>7. PostponedSwitchKept'
  BY <1>1 DEF PostponedSwitchKept
<1> QED BY <1>3, <1>4, <1>5, <1>6, <1>7 DEF PlaceInv

\* The switch of schedule keeps PlaceInv, whether it preempts, gives way or
\* finds the ready list empty.
LEMMA DispatchKeeps ==
  ASSUME LockInv, PlaceInv, Dispatch, task_switches_postponed_flag' = 0,
         pc[Current] # "blk_list", ~Joining(Current),
         pc'[Current] \notin {"blk_state", "blk_list", "blk_sched"},
         \A t \in Thread \ {Current} : pc'[t] = pc[t]
  PROVE  PlaceInv'
<1> USE DEF Current
<1>1. /\ Current \in Thread /\ state[Current] \in State \ {"NONE", "READY"}
      /\ ~Linked(Current, "ready") /\ lists \in [ListName -> Seq(Thread)]
      /\ state \in [Thread -> State] /\ "ready" \in ListName
  BY CurrentPlace DEF LockInv, TypeOK, ListName
<1>2. \A m \in ListName : NoRepeat(lists[m])
  BY DEF PlaceInv, ListsOK
<1>3. \A t \in Thread : ~Linking(t) /\ ~Joining(t)
  BY DEF Linking, Joining
<1>4. Idle \in Thread /\ state[Idle] = "RUNNING"
  BY DEF PlaceInv, BlockOK, Thread
<1>5. CASE Ready # << >> /\ Preempted
  <2>1. /\ lists' = DropHead(AddTail(lists, "ready", Current), "ready")
        /\ state' = [t \in Thread |-> IF t = Head(Ready) THEN "RUNNING"
                                      ELSE IF t = Current THEN "READY" ELSE state[t]]
        /\ current_task_TCB' = Head(Ready)
    BY <1>5 DEF Dispatch, SwitchTo
  <2> DEFINE u == Head(Ready)
  <2>2. u \in Thread /\ Linked(u, "ready")
    BY <1>1, <1>5, OccursHead DEF Linked, Ready
  <2>3. /\ \A m \in ListName : NoRepeat(lists'[m])
        /\ \A t \in Thread : \A m \in ListName :
              Linked(t, m)' <=> \/ Linked(t, m) /\ ~(m = "ready" /\ t = u)
                                \/ m = "ready" /\ t = Current
    BY <1>1, <1>2, <1>5, <2>1, PreemptLinks DEF LockInv, TypeOK
  <2> HIDE DEF u
  <2>4. state[u] = "READY" /\ u # Current /\ u # Idle /\ Current # Idle
    BY <1>1, <1>4, <1>5, <2>2 DEF PlaceInv, ListMatchesState, Preempted
  <2>5. \A n \in ListName : n # "waiting" => ~Linked(Current, n)
    BY <1>1, <1>5 DEF PlaceInv, ListMatchesState, ListName, Preempted
  <2>6. ~Linked(Current, "waiting")
    BY <1>1, <1>3, <1>5 DEF PlaceInv, ListMatchesState, Preempted
  <2>7. \A t \in Thread : state'[t] = IF t = u THEN "RUNNING"
                                      ELSE IF t = Current THEN "READY" ELSE state[t]
    BY <2>1 DEF u
  <2>8. current_task_TCB' = u
    BY <2>1 DEF u
  <2>9. ListsOK'
    <3>1. Linked(Clean, "paused") /\ Clean = u => FALSE
      BY <1>1, <2>2 DEF PlaceInv, ListsOK
    <3> QED BY <2>3, <2>5, <3>1 DEF PlaceInv, ListsOK, ListName, Thread
  <2>10. ListMatchesState'
    BY <1>1, <1>3, <2>2, <2>3, <2>4, <2>5, <2>6, <2>7, <2>8 
       DEF PlaceInv, ListMatchesState, ListsOK, ListName
  <2>11. NoThreadLost'
    BY <1>1, <1>3, <2>2, <2>3, <2>4, <2>5, <2>6, <2>7, <2>8 
       DEF PlaceInv, NoThreadLost, ListName
  <2>12. BlockOK' /\ PostponedSwitchKept'
    BY <1>1, <1>4, <2>2, <2>4, <2>7, <2>8 DEF PlaceInv, BlockOK, PostponedSwitchKept
  <2> QED BY <2>9, <2>10, <2>11, <2>12 DEF PlaceInv
<1>6. CASE Ready # << >> /\ ~Preempted
  <2>1. /\ lists' = DropHead(lists, "ready")
        /\ state' = [t \in Thread |-> IF t = Head(Ready) THEN "RUNNING" ELSE state[t]]
        /\ current_task_TCB' = Head(Ready)
    BY <1>6 DEF Dispatch, SwitchTo
  <2> DEFINE u == Head(Ready)
  <2>2. u \in Thread /\ Linked(u, "ready")
    BY <1>1, <1>6, OccursHead DEF Linked, Ready
  <2>3. /\ \A m \in ListName : NoRepeat(lists'[m])
        /\ \A t \in Thread : \A m \in ListName :
              Linked(t, m)' <=> Linked(t, m) /\ ~(m = "ready" /\ t = u)
    BY <1>1, <1>2, <1>6, <2>1, DropHeadLinks DEF LockInv, TypeOK, Ready
  <2> HIDE DEF u
  <2>4. state[u] = "READY" /\ u # Current /\ u # Idle
    BY <1>1, <1>4, <1>6, <2>2 DEF PlaceInv, ListMatchesState
  <2>5. Current = Idle \/ state[Current] # "RUNNING"
    BY <1>6 DEF Preempted
  <2>7. \A t \in Thread : state'[t] = IF t = u THEN "RUNNING" ELSE state[t]
    BY <2>1 DEF u
  <2>8. current_task_TCB' = u
    BY <2>1 DEF u
  <2>9. ListsOK'
    BY <2>3 DEF PlaceInv, ListsOK, ListName, Thread
  <2>10. ListMatchesState'
    BY <1>1, <1>3, <2>2, <2>3, <2>4, <2>7, <2>8 
       DEF PlaceInv, ListMatchesState, ListsOK, ListName
  <2>11. NoThreadLost'
    BY <1>1, <1>3, <2>2, <2>3, <2>4, <2>5, <2>7, <2>8 
       DEF PlaceInv, NoThreadLost, ListName
  <2>12. BlockOK' /\ PostponedSwitchKept'
    BY <1>1, <1>4, <2>2, <2>4, <2>7, <2>8 DEF PlaceInv, BlockOK, PostponedSwitchKept
  <2> QED BY <2>9, <2>10, <2>11, <2>12 DEF PlaceInv
<1>7. CASE Ready = << >>
  <2>1. /\ lists' = lists /\ state' = state
        /\ current_task_TCB' = IF state[Current] = "RUNNING" THEN Current ELSE Idle
    BY <1>1, <1>4, <1>7 DEF Dispatch, runq, SwitchTo
  <2>2. \A t \in Thread, n \in ListName : Linked(t, n)' <=> Linked(t, n)
    BY <2>1 DEF Linked
  <2>3. ListsOK'
    BY <2>1 DEF PlaceInv, ListsOK, Linked
  <2>4. ListMatchesState'
    BY <1>1, <1>3, <2>1, <2>2 DEF PlaceInv, ListMatchesState, ListName
  <2>5. NoThreadLost'
    BY <1>1, <1>3, <1>4, <2>1, <2>2 DEF PlaceInv, NoThreadLost, ListName
  <2>6. BlockOK' /\ PostponedSwitchKept'
    BY <1>1, <1>4, <2>1 DEF PlaceInv, BlockOK, PostponedSwitchKept
  <2> QED BY <2>3, <2>4, <2>5, <2>6 DEF PlaceInv
<1> QED BY <1>5, <1>6, <1>7

\* Waking the head of the sleeping or the paused list keeps PlaceInv.
LEMMA WakeKeeps ==
  ASSUME LockInv, PlaceInv, NEW n \in {"sleeping", "paused"}, NEW t \in Thread,
         IsHead(t, n), Wake(t, n),
         UNCHANGED <<current_task_TCB, task_switches_postponed_flag>>,
         pc[Current] \notin BlockedLabel, pc'[Current] \notin {"blk_list", "blk_sched"},
         pc[Current] \notin {"blk_enter", "blk_state"} \/ UNCHANGED <<pc, call>>,
         \A r \in Thread \ {Current} : pc'[r] = pc[r]
  PROVE  PlaceInv'
<1> USE DEF Current
<1>1. /\ Current \in Thread /\ state[Current] = "RUNNING" /\ task_switches_postponed_flag = 0
      /\ ~Linked(Current, "ready") /\ lists \in [ListName -> Seq(Thread)]
      /\ state \in [Thread -> State] /\ "ready" \in ListName /\ n \in ListName
  BY CurrentPlace DEF LockInv, TypeOK, ListName
<1>2. \A m \in ListName : NoRepeat(lists[m])
  BY DEF PlaceInv, ListsOK
<1>3. /\ \A r \in Thread : ~Linking(r)
      /\ \A r \in Thread : Joining(r) => r = Current
  BY DEF Linking, Joining, BlockedLabel
<1>4. lists[n] # << >> /\ t = Head(lists[n]) /\ Linked(t, n)
  BY <1>1, OccursHead DEF IsHead, Linked
<1>5. t # Current /\ state[t] # "RUNNING" /\ ~Linked(t, "ready")
  BY <1>1, <1>4 DEF PlaceInv, ListMatchesState, ListsOK
<1>6. /\ \A m \in ListName : NoRepeat(lists'[m])
      /\ \A r \in Thread : \A m \in ListName :
            Linked(r, m)' <=> \/ Linked(r, m) /\ ~(m = n /\ r = t)
                              \/ m = "ready" /\ r = t
  BY <1>1, <1>2, <1>4, <1>5, MoveLinks DEF LockInv, TypeOK, Wake
<1>7. \A r \in Thread : state'[r] = IF r = t THEN "READY" ELSE state[r]
  BY <1>1 DEF Wake
<1>8. ListsOK'
  BY <1>4, <1>6 DEF PlaceInv, ListsOK, ListName, Thread, ListMatchesState
<1>9. \A r \in Thread : Joining(r) => Joining(r)'
  BY <1>5, <1>7 DEF Joining
<1>10. ListMatchesState'
  BY <1>1, <1>3, <1>4, <1>5, <1>6, <1>7, <1>9 DEF PlaceInv, ListMatchesState, ListsOK, ListName
<1>11. NoThreadLost'
  BY <1>1, <1>3, <1>4, <1>5, <1>6, <1>7 DEF PlaceInv, NoThreadLost, ListName
<1>12. BlockOK' /\ PostponedSwitchKept'
  BY <1>1, <1>5, <1>7 DEF PlaceInv, BlockOK, PostponedSwitchKept, Thread
<1> QED BY <1>8, <1>10, <1>11, <1>12 DEF PlaceInv

\* The timer handler, and a thread with IRQ0 unmasked, is never inside
\* block_task or a locked section.
LEMMA HandlerPlace ==
  ASSUME LockInv, isr[Current] # "none" \/ ~masked
  PROVE  pc[Current] \notin BlockedLabel \cup LockedLabel /\ ~InStuff(Current) /\ ~Joining(Current)
<1>1. Current \in Thread /\ pc[Current] \in Label /\ call[Current] \in Call
  BY DEF LockInv, TypeOK, Current
<1>2. CASE isr[Current] # "none"
  BY <1>1, <1>2 DEF LockInv, HandlerOK, CallOK, LockedLabel, BlockLabel, UnblockLabel, BlockedLabel,
     InStuff, StuffCall, Joining, Call
<1>3. CASE ~masked
  <2>1. Held(Current) = 0
    BY <1>3 DEF LockInv, LockBalance, TypeOK
  <2>2. pc[Current] \notin LockedLabel /\ ~InStuff(Current)
    BY <2>1 DEF Held
  <2> QED BY <1>1, <2>2 DEF LockInv, CallOK, LockedLabel, BlockLabel, UnblockLabel, BlockedLabel,
     InStuff, StuffCall, Joining, Call
<1> QED BY <1>2, <1>3

\* Every step of the kernel keeps PlaceInv.
LEMMA PlaceStep == LockInv /\ PlaceInv /\ [Next]_vars => PlaceInv'
<1> SUFFICES ASSUME LockInv, PlaceInv, [Next]_vars PROVE PlaceInv'
  OBVIOUS
<1> USE DEF Current
<1>0. /\ Current \in Thread /\ lists \in [ListName -> Seq(Thread)] /\ state \in [Thread -> State]
      /\ pc \in [Thread -> Label] /\ call \in [Thread -> Call] /\ "ready" \in ListName
      /\ task_switches_postponed_flag \in 0..1
  BY DEF LockInv, TypeOK, ListName
<1>1. CASE \/ SectionEnter \/ PauseCall \/ UnblockCall \/ SleepCall \/ ExitCall
           \/ StartUp \/ SectionLeave \/ CleanCall \/ SleepPast \/ SleepSet \/ ExitWakeClean
           \/ ReclaimDone \/ UnblockLock \/ UnblockUnlock \/ UnlockIrq
  <2>1. /\ pc[Current] \notin BlockedLabel \cup {"blk_enter", "blk_state"}
        /\ pc'[Current] \notin {"blk_list", "blk_sched"}
    BY <1>0, <1>1 DEF SectionEnter, PauseCall, UnblockCall, SleepCall, ExitCall, StartUp,
       SectionLeave, CleanCall, SleepPast, SleepSet, ExitWakeClean, ReclaimDone, UnblockLock,
       UnblockUnlock, UnlockIrq, MayCall, StuffEnter, Enter, Return, At, Goto, BlockedLabel
  <2>2. UNCHANGED <<runq, task_switches_postponed_flag>>
    BY <1>1 DEF SectionEnter, PauseCall, UnblockCall, SleepCall, ExitCall, StartUp,
       SectionLeave, CleanCall, SleepPast, SleepSet, ExitWakeClean, ReclaimDone, UnblockLock,
       UnblockUnlock, UnlockIrq, StuffEnter, runq, stuff
  <2>3. \A t \in Thread \ {Current} : pc'[t] = pc[t]
    BY <1>0, <1>1 DEF SectionEnter, PauseCall, UnblockCall, SleepCall, ExitCall, StartUp,
       SectionLeave, CleanCall, SleepPast, SleepSet, ExitWakeClean, ReclaimDone, UnblockLock,
       UnblockUnlock, UnlockIrq, StuffEnter, Enter, Return, Goto
  <2> QED BY <2>1, <2>2, <2>3, QuietKeeps, CurrentPlace DEF Joining, runq, BlockedLabel
<1>2. CASE BlockLock
  <2>1. pc[Current] = "blk_enter" /\ pc' = [pc EXCEPT ![Current] = "blk_state"] /\ call' = call
        /\ UNCHANGED <<runq, task_switches_postponed_flag>>
    BY <1>2 DEF BlockLock, At, Goto, runq, stuff, service
  <2> QED BY <1>0, <2>1, QuietKeeps, CurrentPlace DEF Joining, BlockedLabel, runq
<1>3. CASE TimerIRQ \/ HookReturn
  <2>1. UNCHANGED <<pc, call>> /\ UNCHANGED <<runq, task_switches_postponed_flag>>
        /\ (isr[Current] # "none" \/ ~masked)
    BY <1>3 DEF TimerIRQ, HookReturn, Handling, runq, stuff, service
  <2> QED BY <1>0, <2>1, QuietKeeps, HandlerPlace, CurrentPlace DEF BlockedLabel, runq
<1>4. CASE Fork
  <2>1. PICK t \in Task : /\ state[t] = "NONE" /\ state' = [state EXCEPT ![t] = "READY"]
                          /\ lists' = AddTail(lists, "ready", t)
    BY <1>4 DEF Fork
  <2>2. UNCHANGED <<current_task_TCB, task_switches_postponed_flag, pc, call>> /\ pc[Current] = "run"
    BY <1>4 DEF Fork, MayCall, At, stuff, service
  <2>3. state[Current] = "RUNNING" /\ task_switches_postponed_flag = 0
    BY <2>2, CurrentPlace DEF BlockedLabel
  <2>4. t \in Thread /\ t # Current /\ t # Clean /\ t # Idle
    BY <2>1, <2>3, SchedulerAssumption DEF Thread
  <2>5. \A n \in ListName : ~Linked(t, n)
    BY <2>1, <2>4 DEF PlaceInv, ListMatchesState, ListName, Joining
  <2>6. /\ \A m \in ListName : NoRepeat(lists'[m])
        /\ \A r \in Thread : \A m \in ListName :
             Linked(r, m)' <=> Linked(r, m) \/ (m = "ready" /\ r = t)
    BY <1>0, <2>1, <2>4, <2>5, AddTailLinks DEF LockInv, TypeOK, PlaceInv, ListsOK
  <2>7. \A r \in Thread : state'[r] = IF r = t THEN "READY" ELSE state[r]
    BY <1>0, <2>1
  <2>8. ListsOK'
    BY <2>4, <2>6 DEF PlaceInv, ListsOK, ListName, Thread
  <2>9. ListMatchesState'
    BY <2>2, <2>4, <2>5, <2>6, <2>7 DEF PlaceInv, ListMatchesState, ListName, Joining
  <2>10. NoThreadLost'
    BY <2>2, <2>4, <2>5, <2>6, <2>7 DEF PlaceInv, NoThreadLost, ListName, Linking
  <2>11. BlockOK' /\ PostponedSwitchKept'
    BY <1>0, <2>2, <2>3, <2>4, <2>7 DEF PlaceInv, BlockOK, PostponedSwitchKept, Thread
  <2> QED BY <2>8, <2>9, <2>10, <2>11 DEF PlaceInv
<1>5. CASE Reclaim
  <2> DEFINE dead == Head(lists["terminated"])
  <2>1. /\ lists["terminated"] # << >> /\ lists' = DropHead(lists, "terminated")
        /\ state' = [state EXCEPT ![dead] = "NONE"] /\ pc' = [pc EXCEPT ![dead] = "start"]
        /\ call' = [call EXCEPT ![dead] = "none"]
        /\ UNCHANGED <<current_task_TCB, task_switches_postponed_flag>>
        /\ pc[Current] = "body"
    BY <1>5 DEF Reclaim, At, stuff
  <2>2. dead \in Thread /\ Linked(dead, "terminated")
    BY <1>0, <2>1, OccursHead DEF Linked, ListName
  <2>3. /\ \A m \in ListName : NoRepeat(lists'[m])
        /\ \A t \in Thread : \A m \in ListName :
              Linked(t, m)' <=> Linked(t, m) /\ ~(m = "terminated" /\ t = dead)
    BY <1>0, <2>1, DropHeadLinks DEF LockInv, TypeOK, PlaceInv, ListsOK, ListName
  <2> HIDE DEF dead
  <2>4. state[Current] = "RUNNING" /\ task_switches_postponed_flag = 0
    BY <2>1, CurrentPlace DEF BlockedLabel
  <2>5. state[dead] = "TERMINATED" /\ dead # Current /\ dead # Idle
    BY <2>2, <2>4 DEF PlaceInv, ListMatchesState, BlockOK
  <2>6. \A n \in ListName : n # "terminated" => ~Linked(dead, n)
    BY <2>2, <2>5 DEF PlaceInv, ListMatchesState, ListName, Joining
  <2>7. /\ \A t \in Thread : state'[t] = IF t = dead THEN "NONE" ELSE state[t]
        /\ \A t \in Thread : pc'[t] = IF t = dead THEN "start" ELSE pc[t]
        /\ \A t \in Thread : call'[t] = IF t = dead THEN "none" ELSE call[t]
    BY <1>0, <2>1
  <2>8. ListsOK'
    BY <2>3 DEF PlaceInv, ListsOK, ListName, Thread
  <2>9. ListMatchesState'
    BY <1>0, <2>1, <2>3, <2>5, <2>6, <2>7 DEF PlaceInv, ListMatchesState, ListName, Joining
  <2>10. NoThreadLost'
    BY <1>0, <2>1, <2>3, <2>5, <2>6, <2>7 DEF PlaceInv, NoThreadLost, ListName, Linking
  <2>11. BlockOK' /\ PostponedSwitchKept'
    BY <1>0, <2>1, <2>4, <2>5, <2>7 DEF PlaceInv, BlockOK, PostponedSwitchKept, Thread, BlockedLabel
  <2> QED BY <2>8, <2>9, <2>10, <2>11 DEF PlaceInv
<1>6. CASE UnblockMove
  <2> DEFINE t == target[Current]
  <2>1. /\ pc[Current] = "unb" /\ pc' = [pc EXCEPT ![Current] = "unb_unlock"]
        /\ Unblock(t) /\ t \in Thread
        /\ UNCHANGED <<current_task_TCB, task_switches_postponed_flag>>
    BY <1>0, <1>6 DEF UnblockMove, At, Goto, stuff, LockInv, TypeOK
  <2> HIDE DEF t
  <2>2. /\ pc[Current] \notin BlockedLabel \cup {"blk_enter", "blk_state"}
        /\ pc'[Current] \notin {"blk_list", "blk_sched"}
        /\ \A r \in Thread \ {Current} : pc'[r] = pc[r]
    BY <1>0, <2>1 DEF BlockedLabel
  <2>3. CASE UNCHANGED <<lists, state>>
    BY <2>1, <2>2, <2>3, QuietKeeps, CurrentPlace DEF Joining, BlockedLabel
  <2>4. CASE IsHead(t, "sleeping") /\ Wake(t, "sleeping")
    BY <2>1, <2>2, <2>4, WakeKeeps
  <2>5. CASE IsHead(t, "paused") /\ Wake(t, "paused")
    BY <2>1, <2>2, <2>5, WakeKeeps
  <2> QED BY <2>1, <2>3, <2>4, <2>5 DEF Unblock
<1>7. CASE BlockState
  <2>1. /\ pc[Current] = "blk_state"
        /\ state' = [state EXCEPT ![Current] = Reason(call[Current])]
        /\ pc' = [pc EXCEPT ![Current] = IF call[Current] = "acquire" THEN "blk_sched" ELSE "blk_list"]
        /\ UNCHANGED <<current_task_TCB, lists, call, task_switches_postponed_flag>>
    BY <1>7 DEF BlockState, At, Goto, In, stuff, service
  <2>2. call[Current] \in {"pause", "sleep", "exit", "acquire", "clean"} /\ Current # Idle
    BY <1>0, <2>1, SchedulerAssumption DEF LockInv, CallOK, BlockLabel
  <2>3. state[Current] = "RUNNING" /\ task_switches_postponed_flag = 0
    BY <2>1, CurrentPlace DEF BlockedLabel
  <2>4. \A n \in ListName : Linked(Current, n) => n = "waiting" /\ call[Current] = "acquire"
    BY <1>0, <2>3 DEF PlaceInv, ListMatchesState, ListName, Joining
  <2>5. \A t \in Thread : state'[t] = IF t = Current THEN Reason(call[Current]) ELSE state[t]
    BY <1>0, <2>1
  <2>6. \A t \in Thread, n \in ListName : Linked(t, n)' <=> Linked(t, n)
    BY <2>1 DEF Linked
  <2>7. ListsOK'
    BY <2>1 DEF PlaceInv, ListsOK, Linked
  <2>8. ListMatchesState'
    BY <1>0, <2>1, <2>2, <2>4, <2>5, <2>6 DEF PlaceInv, ListMatchesState, ListName, Joining, Reason
  <2>9. NoThreadLost'
    BY <1>0, <2>1, <2>2, <2>5, <2>6 DEF PlaceInv, NoThreadLost, ListName, Linking, Reason
  <2>10. BlockOK' /\ PostponedSwitchKept'
    BY <1>0, <2>1, <2>2, <2>3, <2>4, <2>5, <2>6 DEF PlaceInv, BlockOK, PostponedSwitchKept, Thread,
       BlockedLabel
  <2> QED BY <2>7, <2>8, <2>9, <2>10 DEF PlaceInv
<1>8. CASE BlockLink
  <2> DEFINE n == ListOf(call[Current])
  <2>1. /\ pc[Current] = "blk_list" /\ lists' = AddTail(lists, n, Current)
        /\ pc' = [pc EXCEPT ![Current] = "blk_sched"]
        /\ UNCHANGED <<current_task_TCB, state, call, task_switches_postponed_flag>>
    BY <1>8 DEF BlockLink, At, Goto, stuff, service
  <2>2. n \in ListName
    BY DEF ListOf, ListName
  <2>3. \/ n = "sleeping" /\ state[Current] = "SLEEPING"
        \/ n = "terminated" /\ state[Current] = "TERMINATED"
        \/ n = "paused" /\ state[Current] = "PAUSED"
    BY <2>1 DEF PlaceInv, BlockOK, ListOf, Reason
  <2> HIDE DEF n
  <2>4. \A m \in ListName : ~Linked(Current, m)
    BY <2>1 DEF PlaceInv, BlockOK
  <2>5. /\ \A m \in ListName : NoRepeat(lists'[m])
        /\ \A t \in Thread : \A m \in ListName :
             Linked(t, m)' <=> Linked(t, m) \/ (m = n /\ t = Current)
    BY <1>0, <2>1, <2>2, <2>4, AddTailLinks DEF LockInv, TypeOK, PlaceInv, ListsOK
  <2>6. ListsOK'
    BY <2>3, <2>4, <2>5 DEF PlaceInv, ListsOK, ListName, Thread
  <2>7. ListMatchesState'
    BY <1>0, <2>1, <2>3, <2>5 DEF PlaceInv, ListMatchesState, ListName, Joining
  <2>8. NoThreadLost'
    BY <1>0, <2>1, <2>3, <2>5 DEF PlaceInv, NoThreadLost, ListName, Linking
  <2>9. BlockOK' /\ PostponedSwitchKept'
    BY <1>0, <2>1 DEF PlaceInv, BlockOK, PostponedSwitchKept, BlockedLabel
  <2> QED BY <2>6, <2>7, <2>8, <2>9 DEF PlaceInv
<1>9. CASE BlockSchedule
  <2>1. /\ pc[Current] = "blk_sched" /\ pc' = [pc EXCEPT ![Current] = "blk_unlock"] /\ Schedule
        /\ call' = call
    BY <1>9 DEF BlockSchedule, At, Goto, service
  <2>2. task_switches_postponed_flag = 0
    BY <1>0, <2>1 DEF PlaceInv, PostponedSwitchKept
  <2>3. CASE postpone_task_switches_counter = 0
    BY <1>0, <2>1, <2>2, <2>3, DispatchKeeps DEF Schedule, Joining
  <2>4. CASE postpone_task_switches_counter # 0
    <3>1. task_switches_postponed_flag' = 1
          /\ UNCHANGED <<current_task_TCB, state, lists>>
      BY <2>1, <2>4 DEF Schedule, runq
    <3>2. InStuff(Current) /\ state[Current] = Reason(call[Current])
      BY <2>1, <2>4 DEF LockInv, LockBalance, PlaceInv, BlockOK
    <3>3. \A t \in Thread, n \in ListName : Linked(t, n)' <=> Linked(t, n)
      BY <3>1 DEF Linked
    <3>4. ListsOK'
      BY <3>1 DEF PlaceInv, ListsOK, Linked
    <3>5. ListMatchesState'
      BY <1>0, <2>1, <3>1, <3>3 DEF PlaceInv, ListMatchesState, ListName, Joining
    <3>6. NoThreadLost'
      BY <1>0, <2>1, <3>1, <3>3 DEF PlaceInv, NoThreadLost, ListName, Linking
    <3>7. BlockOK'
      BY <1>0, <2>1, <3>1, <3>2 DEF PlaceInv, BlockOK
    <3>8. PostponedSwitchKept'
      BY <1>0, <2>1, <3>1, <3>2 DEF PostponedSwitchKept, InStuff, Reason, BlockedLabel
    <3> QED BY <3>4, <3>5, <3>6, <3>7, <3>8 DEF PlaceInv
  <2> QED BY <2>3, <2>4
<1>10. CASE BlockUnlock
  <2>1. /\ pc[Current] = "blk_unlock"
        /\ UNCHANGED <<current_task_TCB, state, lists, task_switches_postponed_flag>>
        /\ \/ call[Current] = "pause" /\ pc' = [pc EXCEPT ![Current] = "run"]
           \/ call[Current] # "pause" /\ pc' = [pc EXCEPT ![Current] = "stuff_post"] /\ call' = call
    BY <1>10 DEF BlockUnlock, At, Goto, Return, In, runq, stuff, service
  <2>2. CASE task_switches_postponed_flag = 0
    <3>1. state[Current] = "RUNNING"
      BY <2>1, <2>2 DEF PlaceInv, PostponedSwitchKept
    <3> QED BY <1>0, <2>1, <2>2, <3>1, QuietKeeps DEF Joining
  <2>3. CASE task_switches_postponed_flag = 1
    <3>1. InStuff(Current) /\ call[Current] # "pause"
      BY <2>3 DEF PlaceInv, PostponedSwitchKept, InStuff, StuffCall
    <3>2. \A t \in Thread, n \in ListName : Linked(t, n)' <=> Linked(t, n)
      BY <2>1 DEF Linked
    <3>3. ListsOK'
      BY <2>1 DEF PlaceInv, ListsOK, Linked
    <3>4. ListMatchesState'
      BY <1>0, <2>1, <3>1, <3>2 DEF PlaceInv, ListMatchesState, ListName, Joining
    <3>5. NoThreadLost'
      BY <1>0, <2>1, <3>2 DEF PlaceInv, NoThreadLost, ListName, Linking
    <3>6. BlockOK'
      BY <1>0, <2>1, <2>3, <3>1 DEF PlaceInv, BlockOK
    <3>7. PostponedSwitchKept'
      BY <1>0, <2>1, <2>3, <3>1 DEF PlaceInv, PostponedSwitchKept, InStuff, BlockedLabel
    <3> QED BY <3>3, <3>4, <3>5, <3>6, <3>7 DEF PlaceInv
  <2> QED BY <1>0, <2>2, <2>3
<1>11. CASE UnlockPostpone
  <2>1. pc[Current] = "stuff_post" /\ pc' = [pc EXCEPT ![Current] = "stuff_irq"]
    BY <1>11 DEF UnlockPostpone, At, Goto
  <2>2. postpone_task_switches_counter = 1
    BY <1>0, <2>1 DEF LockInv, LockBalance, CallOK, InStuff
  <2>3. CASE task_switches_postponed_flag = 0
    <3>1. state[Current] = "RUNNING"
      BY <2>1, <2>3 DEF PlaceInv, PostponedSwitchKept
    <3>2. UNCHANGED <<current_task_TCB, state, lists, task_switches_postponed_flag>>
      BY <1>11, <2>3 DEF UnlockPostpone, runq
    <3> QED BY <1>0, <2>1, <2>3, <3>1, <3>2, QuietKeeps DEF Joining
  <2>4. CASE task_switches_postponed_flag # 0
    <3>1. Dispatch /\ task_switches_postponed_flag' = 0
      BY <1>11, <2>2, <2>4 DEF UnlockPostpone
    <3> QED BY <1>0, <2>1, <3>1, DispatchKeeps DEF Joining
  <2> QED BY <2>3, <2>4
<1>12. CASE WalkWake \/ WalkNext
  <2>1. /\ isr[Current] = "walk" /\ UNCHANGED <<current_task_TCB, pc, call, task_switches_postponed_flag>>
    BY <1>12 DEF WalkWake, WalkNext, Handling, stuff, service
  <2>2. lists["sleeping"] # << >> /\ Head(lists["sleeping"]) \in Thread
    BY <1>0, <2>1 DEF LockInv, HandlerOK, ListName
  <2>3. pc[Current] \notin BlockedLabel \cup LockedLabel /\ ~Joining(Current)
    BY <2>1, HandlerPlace
  <2>4. state[Current] = "RUNNING" /\ task_switches_postponed_flag = 0
    BY <2>3, CurrentPlace
  <2>5. CASE WalkWake
    <3>1. IsHead(Head(lists["sleeping"]), "sleeping") /\ Wake(Head(lists["sleeping"]), "sleeping")
      BY <2>2, <2>5 DEF WalkWake, Unblock, IsHead
    <3> QED BY <2>1, <2>2, <2>3, <3>1, WakeKeeps DEF BlockedLabel
  <2>6. CASE WalkNext
    <3>1. lists' = Rotate(lists, "sleeping") /\ state' = state
      BY <2>6 DEF WalkNext
    <3>2. /\ \A m \in ListName : NoRepeat(lists'[m])
          /\ \A t \in Thread : \A m \in ListName : Linked(t, m)' <=> Linked(t, m)
      BY <2>2, <3>1, RotateLinks DEF LockInv, TypeOK, PlaceInv, ListsOK, ListName
    <3>3. ListsOK'
      BY <3>2 DEF PlaceInv, ListsOK, ListName, Thread
    <3>4. ListMatchesState'
      BY <2>1, <3>1, <3>2 DEF PlaceInv, ListMatchesState, ListName, Joining
    <3>5. NoThreadLost'
      BY <2>1, <3>1, <3>2 DEF PlaceInv, NoThreadLost, ListName, Linking
    <3>6. BlockOK' /\ PostponedSwitchKept'
      BY <1>0, <2>1, <2>3, <2>4, <3>1 DEF PlaceInv, BlockOK, PostponedSwitchKept, BlockedLabel
    <3> QED BY <3>3, <3>4, <3>5, <3>6 DEF PlaceInv
  <2> QED BY <1>12, <2>5, <2>6
<1>13. CASE HookTail
  <2>1. isr[Current] = "tail" /\ pc' = pc /\ call' = call
    BY <1>13 DEF HookTail, Handling, service
  <2>2. pc[Current] \notin BlockedLabel \cup LockedLabel /\ ~InStuff(Current) /\ ~Joining(Current)
    BY <2>1, HandlerPlace
  <2>3. postpone_task_switches_counter = 0 /\ state[Current] = "RUNNING"
        /\ task_switches_postponed_flag = 0
    BY <2>2, CurrentPlace DEF LockInv, LockBalance
  <2>4. CASE Schedule
    BY <2>1, <2>2, <2>3, <2>4, DispatchKeeps DEF Schedule, BlockedLabel, LockedLabel, BlockLabel
  <2>5. CASE UNCHANGED <<current_task_TCB, state, lists, task_switches_postponed_flag>>
    BY <2>1, <2>2, <2>3, <2>5, QuietKeeps DEF BlockedLabel
  <2> QED BY <1>13, <2>4, <2>5 DEF HookTail, runq
<1>30. CASE UNCHANGED vars
  <2>1. UNCHANGED <<current_task_TCB, state, lists, pc, call, task_switches_postponed_flag>>
    BY <1>30 DEF vars, runq, stuff, service
  <2> QED BY <2>1, <1>30 DEF vars, runq, stuff, service, PlaceInv, ListsOK, ListMatchesState, NoThreadLost, BlockOK,
     PostponedSwitchKept, Linked, Linking, Joining, InStuff
<1> QED BY <1>1, <1>2, <1>3, <1>4, <1>5, <1>6, <1>7, <1>8, <1>9, <1>10, <1>11, <1>12, <1>13, <1>30
    DEF Next, ThreadCall, KernelStep, HandlerStep

\* PlaceInv holds when the kernel starts its tasks.
LEMMA InitPlaceInv == Init => PlaceInv
<1> SUFFICES ASSUME Init PROVE PlaceInv
  OBVIOUS
<1> USE SchedulerAssumption
<1>1. /\ lists["ready"] = Boot /\ lists["paused"] = <<Clean>> /\ lists["sleeping"] = << >>
      /\ lists["terminated"] = << >> /\ lists["waiting"] = << >>
  BY DEF Init, ListName
<1>2. \A t : /\ Occurs(t, lists["paused"]) <=> t = Clean
             /\ ~Occurs(t, lists["sleeping"]) /\ ~Occurs(t, lists["terminated"])
             /\ ~Occurs(t, lists["waiting"])
  BY <1>1 DEF Occurs
<1>3. \A t : Occurs(t, Boot) => t \in Task
  BY DEF Occurs
<1>4. /\ \A t \in Thread : state[t] = IF t = Idle THEN "RUNNING"
                                       ELSE IF t = Clean \/ Occurs(t, Boot) THEN "READY" ELSE "NONE"
      /\ current_task_TCB = Idle /\ task_switches_postponed_flag = 0
      /\ \A t \in Thread : pc[t] = IF t = Idle THEN "run" ELSE "start"
      /\ \A t \in Thread : call[t] = "none"
  BY DEF Init, Occurs
<1>5. ListsOK
  <2>1. \A n \in ListName : NoRepeat(lists[n])
    <3>1. NoRepeat(Boot) /\ NoRepeat(<< >>) /\ NoRepeat(<<Clean>>)
      BY DEF NoRepeat
    <3> QED BY <1>1, <3>1 DEF ListName
  <2> QED BY <1>1, <1>3, <2>1 DEF ListsOK, Linked
<1>6. ListMatchesState
  BY <1>1, <1>2, <1>3, <1>4 DEF ListMatchesState, Linked, Thread
<1>7. NoThreadLost
  BY <1>1, <1>2, <1>3, <1>4 DEF NoThreadLost, Linked, Thread, Current
<1>8. BlockOK /\ PostponedSwitchKept
  BY <1>4 DEF BlockOK, PostponedSwitchKept, Thread, Current, BlockedLabel
<1> QED BY <1>5, <1>6, <1>7, <1>8 DEF PlaceInv

\* Every step keeps WalkOK, and ends a walk only when no sleeper that is due
\* is left on the list.
LEMMA WalkStep ==
  LockInv /\ PlaceInv /\ LockInv' /\ WalkOK /\ WalkWakesAllDue /\ [Next]_vars
    => WalkOK' /\ WalkWakesAllDue'
<1> SUFFICES ASSUME LockInv, PlaceInv, LockInv', WalkOK, WalkWakesAllDue, [Next]_vars
             PROVE  WalkOK' /\ WalkWakesAllDue'
  OBVIOUS
<1> USE DEF Current
<1> DEFINE s == lists["sleeping"]
<1>0. /\ Current \in Thread /\ isr \in [Thread -> {"none", "walk", "tail", "unlock"}]
      /\ lists \in [ListName -> Seq(Thread)] /\ s \in Seq(Thread) /\ "sleeping" \in ListName
      /\ Current' \in Thread
  BY DEF LockInv, TypeOK, ListName
<1>1. CASE TimerIRQ
  <2>1. CASE isr' = [isr EXCEPT ![Current] = "tail"] /\ s = << >>
    BY <1>0, <1>1, <2>1 DEF TimerIRQ, runq, WalkOK, WalkWakesAllDue, Linked, Occurs
  <2>2. CASE isr' = [isr EXCEPT ![Current] = "walk"] /\ s # << >> /\ anchor' = Head(s)
    <3>1. isr'[Current'] = "walk" /\ s' = s /\ s[1] = anchor' /\ 1 \in 1..Len(s)
      BY <1>0, <1>1, <2>2 DEF TimerIRQ, runq
    <3> QED BY <3>1 DEF WalkOK, WalkWakesAllDue
  <2> QED BY <1>1, <2>1, <2>2 DEF TimerIRQ
<1>2. CASE WalkWake
  <2>1. isr[Current] = "walk" /\ current_task_TCB' = current_task_TCB /\ s' \in Seq(Thread)
    BY <1>0, <1>2 DEF WalkWake, Handling, LockInv, TypeOK
  <2>2. CASE s' = << >> /\ isr' = [isr EXCEPT ![Current] = "tail"]
    BY <1>0, <2>1, <2>2 DEF WalkOK, WalkWakesAllDue, Linked, Occurs
  <2>3. CASE s' # << >> /\ anchor' = Head(s') /\ isr' = isr
    <3>1. isr'[Current'] = "walk" /\ (s')[1] = anchor' /\ 1 \in 1..Len(s')
      BY <1>0, <2>1, <2>3
    <3> QED BY <3>1 DEF WalkOK, WalkWakesAllDue
  <2> QED BY <1>2, <2>2, <2>3 DEF WalkWake, WalkEnd
<1>3. CASE WalkNext
  <2>1. /\ isr[Current] = "walk" /\ current_task_TCB' = current_task_TCB /\ left' = left
        /\ left[Head(s)] > 0 /\ s # << >>
    BY <1>3 DEF WalkNext, Handling, LockInv, HandlerOK
  <2>2. s' = Append(Tail(s), Head(s))
    BY <1>0, <1>3, <2>1, RotateType DEF WalkNext
  <2>3. PICK k \in 1..Len(s) : s[k] = anchor /\ (k # 1 => \A i \in k..Len(s) : left[s[i]] > 0)
    BY <2>1 DEF WalkOK
  <2>4. /\ Len(s') = Len(s) /\ Len(s) \in Nat \ {0} /\ s[1] = Head(s)
        /\ \A i \in 1..(Len(s) - 1) : (s')[i] = s[i + 1]
        /\ (s')[Len(s)] = Head(s)
    BY <1>0, <2>1, <2>2
  <2>9. s' \in Seq(Thread) /\ Head(s') = (s')[1]
    <3>1. s' \in Seq(Thread)
      BY <1>0 DEF LockInv, TypeOK
    <3>2. \A r \in Seq(Thread) : r # << >> => Head(r) = r[1]
      OBVIOUS
    <3>3. s' # << >>
      BY <2>4, <3>1
    <3> QED BY <3>1, <3>2, <3>3
  <2> DEFINE j == IF k = 1 THEN Len(s) ELSE k - 1
             q == s'
  <2> HIDE DEF s, q
  <2>5. j \in 1..Len(s) /\ q[j] = anchor
    BY <2>3, <2>4 DEF q
  <2>6. \A i \in j..Len(s) : left[q[i]] > 0
    <3> SUFFICES ASSUME NEW i \in j..Len(s) PROVE left[q[i]] > 0
      OBVIOUS
    <3>1. CASE i = Len(s)
      BY <2>1, <2>4, <3>1 DEF q
    <3>2. CASE i # Len(s)
      <4>1. k # 1 /\ i + 1 \in k..Len(s) /\ i \in 1..(Len(s) - 1)
        BY <2>3, <2>4, <3>2
      <4> QED BY <2>3, <2>4, <4>1 DEF q
    <3> QED BY <3>1, <3>2
  <2>7. CASE Head(q) = anchor /\ isr' = [isr EXCEPT ![Current] = "tail"]
    <3>1. j = 1
      <4>1. \A i1, i2 \in 1..Len(q) : q[i1] = q[i2] => i1 = i2
        BY <1>0, PlaceStep DEF PlaceInv, ListsOK, NoRepeat, q, s
      <4>2. q[1] = anchor /\ 1 \in 1..Len(q) /\ Len(q) = Len(s)
        BY <2>4, <2>7, <2>9 DEF q
      <4> QED BY <4>1, <4>2, <2>5
    <3>2. \A t \in Thread : Occurs(t, q) => left[t] > 0
      BY <2>4, <2>6, <3>1 DEF Occurs, q
    <3> QED BY <1>0, <2>1, <2>7, <3>2 DEF WalkOK, WalkWakesAllDue, Linked, q, s
  <2>8. CASE isr' = isr /\ anchor' = anchor
    <3>1. /\ isr'[Current'] = "walk" /\ j \in 1..Len(q) /\ q[j] = anchor'
          /\ j # 1 => \A i \in j..Len(q) : left'[q[i]] > 0
      BY <2>1, <2>4, <2>5, <2>6, <2>8 DEF q
    <3> QED BY <3>1 DEF WalkOK, WalkWakesAllDue, q, s
  <2> QED BY <1>3, <2>7, <2>8 DEF WalkNext, WalkEnd, handler, q, s
<1>4. CASE HookTail \/ HookReturn \/ ThreadCall \/ KernelStep
  <2>1. isr'[Current'] \notin {"walk", "tail"}
    <3>1. CASE HookTail \/ HookReturn
      BY <1>0, <3>1 DEF HookTail, HookReturn, LockInv, HandlerOK
    <3>2. CASE ThreadCall \/ KernelStep
      <4>1. isr[Current] = "none" /\ isr' = isr
        BY <3>2 DEF ThreadCall, SectionEnter, PauseCall, UnblockCall, SleepCall, ExitCall, Fork,
           KernelStep, StartUp, SectionLeave, CleanCall, SleepPast, SleepSet, ExitWakeClean, Reclaim,
           ReclaimDone, BlockLock, BlockState, BlockLink, BlockSchedule, BlockUnlock, UnblockLock,
           UnblockMove, UnblockUnlock, UnlockPostpone, UnlockIrq, StuffEnter, MayCall, At, handler
      <4> QED BY <1>0, <4>1 DEF LockInv, HandlerOK
    <3> QED BY <1>4, <3>1, <3>2
  <2> QED BY <2>1 DEF WalkOK, WalkWakesAllDue
<1>5. CASE UNCHANGED vars
  BY <1>5 DEF vars, runq, handler, WalkOK, WalkWakesAllDue, Linked
<1> QED BY <1>1, <1>2, <1>3, <1>4, <1>5 DEF Next, HandlerStep

-----------------------------------------------------------------------------
\* The invariants that the runs check follow from PlaceInv.
LEMMA PlaceImplies ==
  LockInv /\ PlaceInv => LinkedOnce /\ ListMatchesState /\ NoThreadLost /\ PostponedSwitchKept
<1> SUFFICES ASSUME LockInv, PlaceInv PROVE LinkedOnce
  BY DEF PlaceInv
<1>1. SUFFICES ASSUME NEW m \in ListName, NEW n \in ListName,
                      NEW i \in 1..Len(lists[m]), NEW j \in 1..Len(lists[n]),
                      lists[m][i] = lists[n][j]
               PROVE  m = n /\ i = j
  BY DEF LinkedOnce
<1> DEFINE t == lists[m][i]
<1>2. t \in Thread /\ Linked(t, m) /\ Linked(t, n)
  BY <1>1 DEF LockInv, TypeOK, Linked, Occurs
<1> HIDE DEF t
<1>3. m = n
  BY <1>2 DEF PlaceInv, ListMatchesState, ListsOK, ListName, Joining
<1>4. i = j
  BY <1>1, <1>3 DEF PlaceInv, ListsOK, NoRepeat
<1> QED BY <1>3, <1>4

\* The only step that gives a thread's stack back is the clean task's, and
\* the thread is then TERMINATED and past its last switch.
LEMMA ReclaimStep ==
  ASSUME LockInv, PlaceInv, [Next]_vars, NEW t \in Thread, state[t] # "NONE", state'[t] = "NONE"
  PROVE  state[t] = "TERMINATED" /\ t # Current /\ pc[t] = "stuff_irq" /\ isr[t] = "none"
<1> USE DEF Current
<1>0. state \in [Thread -> State] /\ Current \in Thread /\ lists \in [ListName -> Seq(Thread)] /\ pc[t] \in Label
  BY DEF LockInv, TypeOK
<1>1. CASE Reclaim
  <2> DEFINE s == lists["terminated"]
  <2>1. s # << >> /\ state' = [state EXCEPT ![Head(s)] = "NONE"] /\ pc[Current] = "body"
    BY <1>1 DEF Reclaim, At
  <2>2. t = Head(s) /\ s \in Seq(Thread) /\ s[1] = Head(s) /\ 1 \in 1..Len(s)
    BY <1>0, <2>1 DEF ListName
  <2>3. /\ call[t] = "exit" /\ isr[t] = "none" /\ pc[t] \in ExitLabel
    BY <2>2 DEF LockInv, TerminatedOK
  <2>4. state[t] = "TERMINATED"
    BY <2>2 DEF PlaceInv, ListMatchesState, Linked, Occurs
  <2>5. t # Current
    BY <2>1, <2>3 DEF ExitLabel
  <2>6. Held(t) = 1 /\ ~InStuff(t)
    BY <2>5 DEF LockInv, LockBalance
  <2>7. pc[t] \in {"stuff_irq", "wild"}
    BY <2>3, <2>6 DEF InStuff, StuffCall
  <2>8. pc[t] # "wild"
    BY <2>3, <2>6 DEF Held, LockedLabel, BlockLabel, UnblockLabel
  <2> QED BY <2>3, <2>4, <2>5, <2>7, <2>8
<1>2. CASE \/ TimerIRQ \/ HookReturn \/ WalkNext \/ SectionEnter \/ PauseCall \/ UnblockCall \/ SleepCall \/ ExitCall
           \/ StartUp \/ SectionLeave \/ CleanCall \/ SleepPast \/ SleepSet \/ ExitWakeClean
           \/ ReclaimDone \/ BlockLock \/ BlockLink \/ BlockUnlock \/ UnblockLock \/ UnblockUnlock \/ UnlockIrq
           \/ UNCHANGED vars
  BY <1>2 DEF TimerIRQ, HookReturn, WalkNext, SectionEnter, PauseCall, UnblockCall, SleepCall, ExitCall, StartUp,
       SectionLeave, CleanCall, SleepPast, SleepSet, ExitWakeClean, ReclaimDone, BlockLock, BlockLink, BlockUnlock, UnblockLock,
       UnblockUnlock, UnlockIrq, StuffEnter, runq, vars
<1>3. CASE Fork \/ BlockState
  BY <1>0, <1>3 DEF Fork, BlockState, Reason
<1>4. CASE UnblockMove \/ WalkWake
  BY <1>0, <1>4 DEF UnblockMove, WalkWake, Unblock, Wake
<1>5. CASE BlockSchedule \/ UnlockPostpone \/ HookTail
  <2>1. Dispatch \/ state' = state
    BY <1>5 DEF BlockSchedule, UnlockPostpone, HookTail, Schedule, runq
  <2> QED BY <1>0, <2>1 DEF Dispatch, runq
<1> QED BY <1>1, <1>2, <1>3, <1>4, <1>5 DEF Next, ThreadCall, KernelStep, HandlerStep

\* Every step of the kernel is a step of the round robin, or leaves the
\* running thread and the ready list alone.
LEMMA RoundRobinStep ==
  LockInv /\ PlaceInv /\ [Next]_vars => [RR!Next]_<<current_task_TCB, Ready>>
<1> SUFFICES ASSUME LockInv, PlaceInv, [Next]_vars PROVE [RR!Next]_<<current_task_TCB, Ready>>
  OBVIOUS
<1> USE DEF Current
<1>0. /\ state \in [Thread -> State] /\ Current \in Thread /\ Idle \in Thread
      /\ lists \in [ListName -> Seq(Thread)] /\ "ready" \in ListName /\ Ready \in Seq(Thread)
  BY DEF LockInv, TypeOK, ListName, Thread, Ready
<1>1. ASSUME NEW t \in Thread, t # Idle, t # Current, ~Linked(t, "ready"),
             Ready' = Append(Ready, t), current_task_TCB' = current_task_TCB
      PROVE  RR!Next
  <2>1. ~RR!Queued(t)
    BY <1>1 DEF RR!Queued, Linked, Occurs, Ready
  <2> QED BY <1>1, <2>1 DEF RR!Next, RR!Arrive
<1>2. ASSUME NEW t \in Thread, NEW n \in {"sleeping", "paused"}, IsHead(t, n), Wake(t, n),
             current_task_TCB' = current_task_TCB, state[Current] = "RUNNING"
      PROVE  RR!Next
  <2>1. n \in ListName /\ lists[n] # << >> /\ t = Head(lists[n]) /\ Linked(t, n)
    BY <1>0, <1>2, OccursHead DEF IsHead, Linked, ListName
  <2>2. t # Current /\ t # Idle /\ ~Linked(t, "ready")
    BY <1>2, <2>1 DEF PlaceInv, ListMatchesState, ListsOK, BlockOK
  <2>3. DropHead(lists, n) \in [ListName -> Seq(Thread)] /\ DropHead(lists, n)["ready"] = Ready
    BY <1>0, <2>1, DropHeadType DEF Ready
  <2>4. Ready' = Append(Ready, t)
    <3> DEFINE ls == DropHead(lists, n)
    <3>1. lists' = AddTail(ls, "ready", t)
      BY <1>2 DEF Wake
    <3> HIDE DEF ls
    <3>2. ls \in [ListName -> Seq(Thread)] /\ ls["ready"] = Ready
      BY <2>3 DEF ls
    <3>3. AddTail(ls, "ready", t)["ready"] = Append(ls["ready"], t)
      BY <1>0, <3>2, AddTailType
    <3> QED BY <3>1, <3>2, <3>3 DEF Ready
  <2> QED BY <1>1, <1>2, <2>2, <2>4
<1>3. ASSUME Dispatch
      PROVE  RR!Next \/ UNCHANGED <<current_task_TCB, Ready>>
  <2>1. CASE Ready # << >> /\ Preempted
    <3>1. lists' = DropHead(AddTail(lists, "ready", Current), "ready")
          /\ current_task_TCB' = Head(Ready) /\ Current # Idle
      BY <1>3, <2>1 DEF Dispatch, SwitchTo, Preempted
    <3>2. Ready' = Append(Tail(Ready), Current)
      BY <2>1, <3>1, CurrentPlace, PreemptLinks DEF LockInv, TypeOK, PlaceInv, ListsOK
    <3> QED BY <2>1, <3>1, <3>2 DEF RR!Next, RR!Preempt
  <2>2. CASE Ready # << >> /\ ~Preempted
    <3>1. lists' = DropHead(lists, "ready") /\ current_task_TCB' = Head(Ready)
      BY <1>3, <2>2 DEF Dispatch, SwitchTo
    <3>2. Ready' = Tail(Ready)
      BY <1>0, <2>2, <3>1, DropHeadType DEF Ready
    <3> QED BY <2>2, <3>1, <3>2 DEF RR!Next, RR!GiveWay
  <2>3. CASE Ready = << >> /\ state[Current] = "RUNNING"
    BY <1>3, <2>3 DEF Dispatch, runq, Ready
  <2>4. CASE Ready = << >> /\ state[Current] # "RUNNING"
    <3>1. lists' = lists /\ current_task_TCB' = Idle /\ Current # Idle
      BY <1>3, <2>4 DEF Dispatch, SwitchTo, PlaceInv, BlockOK
    <3> QED BY <2>4, <3>1 DEF RR!Next, RR!GoIdle, Ready
  <2> QED BY <2>1, <2>2, <2>3, <2>4
<1>4. CASE \/ TimerIRQ \/ HookReturn \/ SectionEnter \/ PauseCall \/ UnblockCall \/ SleepCall \/ ExitCall
           \/ StartUp \/ SectionLeave \/ CleanCall \/ SleepPast \/ SleepSet \/ ExitWakeClean
           \/ ReclaimDone \/ BlockLock \/ BlockUnlock \/ UnblockLock \/ UnblockUnlock \/ UnlockIrq
           \/ BlockState \/ UNCHANGED vars
  BY <1>4 DEF TimerIRQ, HookReturn, SectionEnter, PauseCall, UnblockCall, SleepCall, ExitCall, StartUp,
       SectionLeave, CleanCall, SleepPast, SleepSet, ExitWakeClean, ReclaimDone, BlockLock, BlockUnlock, UnblockLock,
       UnblockUnlock, UnlockIrq, BlockState, StuffEnter, runq, vars, Ready
<1>5. CASE WalkNext \/ Reclaim \/ BlockLink
  <2>1. CASE WalkNext
    <3>1. lists["sleeping"] # << >> /\ "sleeping" \in ListName
      BY <2>1 DEF WalkNext, Handling, LockInv, HandlerOK, ListName
    <3> QED BY <1>0, <2>1, <3>1, RotateType DEF WalkNext, Ready
  <2>2. CASE Reclaim
    BY <1>0, <2>2, DropHeadType DEF Reclaim, Ready, ListName
  <2>3. CASE BlockLink
    BY <1>0, <2>3, AddTailType DEF BlockLink, Ready, ListName, ListOf
  <2> QED BY <1>5, <2>1, <2>2, <2>3
<1>6. CASE Fork
  <2>1. PICK t \in Task : state[t] = "NONE" /\ lists' = AddTail(lists, "ready", t)
    BY <1>6 DEF Fork
  <2>2. t \in Thread /\ t # Idle /\ ~Linked(t, "ready") /\ t # Current
    BY <2>1, CurrentPlace, SchedulerAssumption DEF PlaceInv, ListMatchesState, Thread
  <2>3. Ready' = Append(Ready, t)
    BY <1>0, <2>1, <2>2, AddTailType DEF Ready
  <2> QED BY <1>1, <1>6, <2>2, <2>3 DEF Fork
<1>7. CASE UnblockMove
  <2>1. state[Current] = "RUNNING" /\ target[Current] \in Thread /\ current_task_TCB' = current_task_TCB
    BY <1>7, CurrentPlace DEF UnblockMove, At, BlockedLabel, LockInv, TypeOK
  <2> QED BY <1>2, <1>7, <2>1 DEF UnblockMove, Unblock, Ready
<1>8. CASE WalkWake
  <2>1. state[Current] = "RUNNING"
    BY <1>8, HandlerPlace, CurrentPlace DEF WalkWake, Handling
  <2>2. Head(lists["sleeping"]) \in Thread /\ current_task_TCB' = current_task_TCB
    BY <1>0, <1>8 DEF WalkWake, Handling, LockInv, HandlerOK, ListName
  <2> QED BY <1>2, <1>8, <2>1, <2>2 DEF WalkWake, Unblock, Ready
<1>9. CASE BlockSchedule \/ UnlockPostpone \/ HookTail
  <2>1. Dispatch \/ UNCHANGED <<current_task_TCB, lists>>
    BY <1>9 DEF BlockSchedule, UnlockPostpone, HookTail, Schedule, runq
  <2> QED BY <1>3, <2>1 DEF Ready
<1> QED BY <1>4, <1>5, <1>6, <1>7, <1>8, <1>9, <1>1 DEF Next, ThreadCall, KernelStep, HandlerStep

\* The kernel starts where the round robin starts: idle, with the boot tasks
\* queued.
LEMMA InitRoundRobin == Init => RR!Init
<1> SUFFICES ASSUME Init PROVE RR!Init
  OBVIOUS
<1>1. current_task_TCB = Idle /\ Ready = Boot
  BY DEF Init, Ready, ListName
<1>2. Boot \in Seq(Thread \ {Idle})
  BY SchedulerAssumption DEF Thread
<1> QED BY <1>1, <1>2, SchedulerAssumption DEF RR!Init

-----------------------------------------------------------------------------
\* PlaceInv and the walk's invariant hold in every reachable state.
THEOREM PlaceInvariant == Spec => [](PlaceInv /\ WalkOK /\ WalkWakesAllDue)
<1>1. Init => WalkOK /\ WalkWakesAllDue
  BY DEF Init, WalkOK, WalkWakesAllDue, Current, Thread
<1>2. LockInv /\ LockInv' /\ PlaceInv /\ WalkOK /\ WalkWakesAllDue /\ [Next]_vars
        => (PlaceInv /\ WalkOK /\ WalkWakesAllDue)'
  BY PlaceStep, WalkStep
<1> QED BY <1>1, <1>2, InitPlaceInv, LockInvariant, PTL DEF Spec

\* A TCB is linked at one place only, in all lists together (task_list in
\* task.c): its one pair of link fields is never in two lists, or twice in
\* one.
THEOREM NodeLinkedOnce == Spec => []LinkedOnce
BY LockInvariant, PlaceInvariant, PlaceImplies, PTL

\* A TCB is on the list its state names, on no list when it runs or does not
\* exist.
THEOREM ListsMatchStates == Spec => []ListMatchesState
BY LockInvariant, PlaceInvariant, PlaceImplies, PTL

\* No thread is lost: a thread that exists, is not the idle task and does not
\* run is on the list its state names, at every point of every interleaving
\* of the kernel's services with the timer.
THEOREM ThreadsKept == Spec => []NoThreadLost
BY LockInvariant, PlaceInvariant, PlaceImplies, PTL

\* A switch that was postponed under lock_stuff is owed by the running
\* thread, inside the very section that postponed it: it cannot be forgotten,
\* nor be left to another thread.
THEOREM SwitchKept == Spec => []PostponedSwitchKept
BY LockInvariant, PlaceInvariant, PlaceImplies, PTL

\* When the timer handler ends its walk of the sleeping list, which moves the
\* list pointer while it removes nodes, no sleeper whose time has come is
\* left on it.
THEOREM DueSleepersWoken == Spec => []WalkWakesAllDue
BY PlaceInvariant, PTL

\* kernel_clean_work frees a stack only of a TERMINATED thread that has made
\* its last switch, never the one that it still runs on.
THEOREM StackFreedSafely == Spec => StackFreedAfterLastSwitch
<1>1. LockInv /\ PlaceInv /\ [Next]_vars =>
        [\A t \in Thread : state[t] # "NONE" /\ state'[t] = "NONE"
           => /\ state[t] = "TERMINATED" /\ t # Current
              /\ pc[t] = "stuff_irq" /\ isr[t] = "none"]_vars
  BY ReclaimStep
<1> QED BY <1>1, LockInvariant, PlaceInvariant, PTL DEF Spec, StackFreedAfterLastSwitch

\* The scheduler implements the round robin of RoundRobin, its safety part: a
\* thread that becomes ready goes to the tail, the head is dispatched, and a
\* preempted thread goes to the tail.
THEOREM RoundRobinImplemented == Spec => RR!Init /\ RoundRobinSteps
<1> QED BY InitRoundRobin, RoundRobinStep, LockInvariant, PlaceInvariant, PTL DEF Spec, RoundRobinSteps
=============================================================================
