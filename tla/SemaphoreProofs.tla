--------------------------- MODULE SemaphoreProofs ---------------------------
(***************************************************************************)
(* Proofs about Semaphore over Scheduler, for every count of permits,      *)
(* every finite set of tasks, and every boot list, workload, slice length  *)
(* and sleep length.                                                       *)
(*                                                                         *)
(* The invariants of the scheduler (LockInv, PlaceInv) still hold when     *)
(* tasks acquire and release.  SemInv adds the semaphore's own: that       *)
(* threads wait only when no permit is free is inductive with WaiterOK,    *)
(* which says that a thread inside acquire_semaphore that is not running   *)
(* is blocked there; and that tasks never hold more permits than there     *)
(* are (PermitBound) needs PermitOK, which also counts the permit on its   *)
(* way from release_semaphore to the waiter it woke.                       *)
(***************************************************************************)
EXTENDS Semaphore, SchedulerProofs, FiniteSetTheorems

\* A step of the semaphore itself.
SemStep == AcquireCall \/ ReleaseCall \/ AcquireFree \/ AcquireWait \/ ReleaseToWaiter \/ ReleaseFree

\* A step of the composition is a step of the scheduler, which may give the
\* running task the permit it waited for, or a step of the semaphore.
LEMMA SemSteps ==
  [SemNext]_semVars =>
    \/ [Next]_vars /\ UNCHANGED <<current_count, stray>>
       /\ (\/ UNCHANGED holding
           \/ /\ Acquired /\ Next /\ holding[Current] < MaxCount
              /\ holding' = [holding EXCEPT ![Current] = @ + 1])
    \/ SemStep
BY DEF SemNext, SemKernelStep, Lifted, SemStep, Next, semVars

\* The semaphore's steps keep the lock invariant of the scheduler.
LEMMA SemLockStep == LockInv /\ SemStep => LockInv'
<1> SUFFICES ASSUME LockInv, SemStep PROVE LockInv'
  OBVIOUS
<1> USE DEF LockInv, Current
<1>1. CASE AcquireCall \/ ReleaseCall
  <2>0. PICK c \in {"acquire", "release"} : MayCall(c) /\ StuffEnter(c)
    BY <1>1 DEF AcquireCall, ReleaseCall
  <2> USE <2>0 DEF StuffEnter, At, Goto, Current, runq, locks, stuff, service, handler
  <2>1. TypeOK'
    BY DEF MayCall, StuffEnter, LockStuff, LockScheduler, Enter, TypeOK,
       Thread, State, Label, Call, LockBalance, Held, LockedLabel,
       BlockLabel, UnblockLabel, InStuff, StuffCall, DirectCall, CallOK,
       HandlerOK
  <2>2. CallOK'
    BY DEF MayCall, StuffEnter, LockStuff, LockScheduler, Enter, TypeOK,
       CallOK, Thread, BlockLabel, UnblockLabel, StuffCall
  <2>3. HandlerOK'
    BY DEF MayCall, StuffEnter, LockStuff, LockScheduler, Enter, TypeOK,
       CallOK, HandlerOK, Thread, LockedLabel, BlockLabel, UnblockLabel,
       InStuff, StuffCall, LockBalance, Held
  <2>4. TerminatedOK'
    <3>1. lists'["terminated"] = lists["terminated"]
      BY DEF StuffEnter
    <3>2. ASSUME NEW t \in Task, call[t] = "exit", isr[t] = "none", pc[t] \in ExitLabel
          PROVE  call'[t] = "exit" /\ isr'[t] = "none" /\ pc'[t] \in ExitLabel
      BY <3>2 DEF MayCall, StuffEnter, LockStuff, LockScheduler, Enter,
         TypeOK, CallOK, Thread, ExitLabel
    <3> QED BY <3>1, <3>2, TerminatedFrame
  <2>5. LockBalance'
    BY DEF MayCall, StuffEnter, LockStuff, LockScheduler, Enter, TypeOK,
       CallOK, LockBalance, HandlerOK, Held, Thread, LockedLabel,
       BlockLabel, UnblockLabel, InStuff, StuffCall
  <2> QED BY <2>1, <2>2, <2>3, <2>4, <2>5
<1>2. CASE AcquireFree \/ AcquireWait \/ ReleaseToWaiter \/ ReleaseFree
  <2> USE DEF At, Goto, In
  <2>1. /\ UNCHANGED <<current_task_TCB, state, time_slice_remaining, locks, stuff, left, call, handler>>
        /\ pc[Current] = "body" /\ call[Current] \in {"acquire", "release"} /\ isr[Current] = "none"
        /\ \E l \in {"stuff_post", "blk_enter", "unb_enter"} :
             /\ pc' = [pc EXCEPT ![Current] = l]
             /\ l = "blk_enter" => call[Current] = "acquire"
             /\ l = "unb_enter" => call[Current] = "release"
    BY <1>2 DEF AcquireFree, AcquireWait, ReleaseToWaiter, ReleaseFree, runq, service
  <2>2. /\ lists' \in [ListName -> Seq(Thread)] /\ target' \in [Thread -> Thread]
        /\ \A n \in ListName : n # "waiting" => lists'[n] = lists[n]
    <3>0. /\ lists \in [ListName -> Seq(Thread)] /\ "waiting" \in ListName /\ Current \in Thread
          /\ target \in [Thread -> Thread]
      BY DEF TypeOK, ListName
    <3>1. CASE AcquireFree \/ ReleaseFree
      BY <3>0, <3>1 DEF AcquireFree, ReleaseFree, runq, service
    <3>2. CASE AcquireWait
      BY <3>0, <3>2, AddTailType DEF AcquireWait, service
    <3>3. CASE ReleaseToWaiter
      <4>1. /\ lists["waiting"] # << >> /\ Head(lists["waiting"]) \in Thread
            /\ target' = [target EXCEPT ![Current] = Head(lists["waiting"])]
            /\ lists' = DropHead(lists, "waiting") \/ lists' = Rotate(lists, "waiting")
        BY <3>0, <3>3 DEF ReleaseToWaiter
      <4> QED BY <3>0, <4>1, DropHeadType, RotateType
    <3> QED BY <1>2, <3>1, <3>2, <3>3
  <2> USE <2>1 DEF locks, stuff, handler
  <2>3. TypeOK'
    <3>1. pc' \in [Thread -> Label]
      BY DEF TypeOK, Label
    <3> QED BY <2>2, <3>1 DEF TypeOK
  <2>4. CallOK'
    BY DEF TypeOK, CallOK, BlockLabel, UnblockLabel, StuffCall
  <2>5. HandlerOK'
    BY <2>2 DEF TypeOK, HandlerOK, LockedLabel, BlockLabel,
       UnblockLabel, InStuff, StuffCall, ListName
  <2>6. TerminatedOK'
    <3>1. lists'["terminated"] = lists["terminated"]
      BY <2>2 DEF ListName
    <3>2. ASSUME NEW t \in Task, call[t] = "exit", isr[t] = "none", pc[t] \in ExitLabel
          PROVE  call'[t] = "exit" /\ isr'[t] = "none" /\ pc'[t] \in ExitLabel
      BY <3>2 DEF TypeOK, ExitLabel, Thread
    <3> QED BY <3>1, <3>2, TerminatedFrame
  <2>7. LockBalance'
    BY DEF TypeOK, LockBalance, Held, LockedLabel, BlockLabel, UnblockLabel, InStuff, StuffCall
  <2> QED BY <2>3, <2>4, <2>5, <2>6, <2>7
<1> QED BY <1>1, <1>2 DEF SemStep

\* The semaphore's steps keep the list invariant of the scheduler.
LEMMA SemPlaceStep == LockInv /\ PlaceInv /\ SemStep => PlaceInv'
<1> SUFFICES ASSUME LockInv, PlaceInv, SemStep PROVE PlaceInv'
  OBVIOUS
<1> USE DEF Current
<1>0. /\ Current \in Thread /\ pc \in [Thread -> Label] /\ lists \in [ListName -> Seq(Thread)]
      /\ "waiting" \in ListName
  BY DEF LockInv, TypeOK, ListName
<1>1. /\ pc[Current] \in {"run", "body"}
      /\ pc'[Current] \notin {"blk_list", "blk_sched", "blk_unlock", "stuff_irq", "blk_state"}
      /\ UNCHANGED <<current_task_TCB, state, task_switches_postponed_flag>>
      /\ \A t \in Thread \ {Current} : pc'[t] = pc[t]
  BY <1>0 DEF SemStep, AcquireCall, ReleaseCall, AcquireFree, AcquireWait, ReleaseToWaiter, ReleaseFree,
     MayCall, StuffEnter, Enter, At, Goto, runq, stuff
<1>2. state[Current] = "RUNNING" /\ task_switches_postponed_flag = 0
      /\ \A n \in ListName : ~Linked(Current, n)
  BY <1>1, CurrentPlace DEF BlockedLabel
<1>3. CASE lists' = lists
  BY <1>1, <1>2, <1>3, QuietKeeps DEF Joining
<1>4. ASSUME /\ \A m \in ListName : NoRepeat(lists'[m])
             /\ \A t \in Thread : \A m \in ListName : m # "waiting" => (Linked(t, m)' <=> Linked(t, m))
             /\ \A t \in Thread : Linked(t, "waiting")' =>
                  Linked(t, "waiting") \/ (t = Current /\ Joining(t)')
      PROVE  PlaceInv'
  <2>1. ListsOK'
    BY <1>4 DEF PlaceInv, ListsOK, ListName, Thread
  <2>2. ListMatchesState'
    BY <1>0, <1>1, <1>2, <1>4 DEF PlaceInv, ListMatchesState, ListName, Joining
  <2>3. NoThreadLost'
    BY <1>0, <1>1, <1>2, <1>4 DEF PlaceInv, NoThreadLost, ListName, Linking
  <2>4. BlockOK' /\ PostponedSwitchKept'
    BY <1>0, <1>1, <1>2 DEF PlaceInv, BlockOK, PostponedSwitchKept
  <2> QED BY <2>1, <2>2, <2>3, <2>4 DEF PlaceInv
<1>5. CASE AcquireWait
  <2>1. /\ \A m \in ListName : NoRepeat(lists'[m])
        /\ \A t \in Thread : \A m \in ListName :
             Linked(t, m)' <=> Linked(t, m) \/ (m = "waiting" /\ t = Current)
    BY <1>0, <1>2, <1>5, AddTailLinks DEF AcquireWait, LockInv, TypeOK, PlaceInv, ListsOK
  <2>2. \A t \in Thread : t = Current => Joining(t)'
    BY <1>0, <1>1, <1>2, <1>5 DEF Joining, AcquireWait, Goto, In, service
  <2> QED BY <1>0, <1>4, <2>1, <2>2
<1>6. CASE ReleaseToWaiter
  <2>1. /\ lists["waiting"] # << >>
        /\ lists' = DropHead(lists, "waiting") \/ lists' = Rotate(lists, "waiting")
    BY <1>6 DEF ReleaseToWaiter
  <2>2. \A m \in ListName : NoRepeat(lists[m])
    BY DEF PlaceInv, ListsOK
  <2>3. CASE lists' = DropHead(lists, "waiting")
    BY <1>0, <1>4, <2>1, <2>2, <2>3, DropHeadLinks DEF LockInv, TypeOK
  <2>4. CASE lists' = Rotate(lists, "waiting")
    BY <1>0, <1>4, <2>1, <2>2, <2>4, RotateLinks DEF LockInv, TypeOK
  <2> QED BY <2>1, <2>3, <2>4
<1>7. CASE AcquireCall \/ ReleaseCall \/ AcquireFree \/ ReleaseFree
  BY <1>3, <1>7 DEF AcquireCall, ReleaseCall, AcquireFree, ReleaseFree, StuffEnter, runq
<1> QED BY <1>5, <1>6, <1>7 DEF SemStep

\* A thread that is in acquire_semaphore and does not run is blocked there,
\* and so is the running one once it asked for a switch.
WaiterOK ==
  /\ \A t \in Thread \ {Current} : call[t] = "acquire" => state[t] = "WAITING_FOR_LOCK"
  /\ call[Current] = "acquire" /\ pc[Current] = "blk_unlock" => state[Current] = "WAITING_FOR_LOCK"

\* The running task has come out of acquire_semaphore's loop and not yet
\* returned: it is about to hold a permit.
Granted   == call[Current] = "acquire" /\ pc[Current] \in {"stuff_post", "stuff_irq"}
             /\ state[Current] = "RUNNING"
\* The running task has called release_semaphore and its permit is not yet
\* given back.
Returning == call[Current] = "release" /\ pc[Current] = "body"
\* The permits that tasks hold, and the one that is being taken or given
\* back, are within current_count, as long as no thread has released what it
\* did not hold.
PermitOK  == ~stray => Cardinality(Permits) + (IF Granted \/ Returning THEN 1 ELSE 0) <= current_count

\* The inductive invariant of the semaphore.
SemInv == SemTypeOK /\ WaitOnlyWhenFull /\ WaiterOK /\ PermitOK

\* There are finitely many permits to hold.
LEMMA PermitsFinite ==
  ASSUME SemTypeOK
  PROVE  IsFiniteSet(Permits) /\ Cardinality(Permits) \in Nat
<1>1. IsFiniteSet(Thread)
  <2>1. Thread = (Task \cup {Idle}) \cup {Clean}
    BY DEF Thread
  <2> QED BY <2>1, SemaphoreAssumption, FS_AddElement
<1>2. IsFiniteSet(1..MaxCount)
  BY SemaphoreAssumption, FS_Interval
<1>3. IsFiniteSet(Thread \X (1..MaxCount))
  BY <1>1, <1>2, FS_Product
<1>4. Permits \subseteq Thread \X (1..MaxCount)
  BY DEF Permits
<1> QED BY <1>3, <1>4, FS_Subset, FS_CardinalityType

\* A task that takes a permit adds one to the permits held.
LEMMA PermitTaken ==
  ASSUME SemTypeOK, NEW c \in Thread, holding[c] < MaxCount,
         holding' = [holding EXCEPT ![c] = @ + 1]
  PROVE  Cardinality(Permits') = Cardinality(Permits) + 1
<1> DEFINE p == <<c, holding[c] + 1>>
<1>1. holding \in [Thread -> 0..MaxCount] /\ holding[c] \in 0..MaxCount
  BY DEF SemTypeOK
<1>2. p \in Thread \X (1..MaxCount) /\ p \notin Permits
  BY <1>1, SemaphoreAssumption DEF Permits
<1>3. Permits' = Permits \cup {p}
  <2>1. ASSUME NEW q \in Thread \X (1..MaxCount)
        PROVE  q \in Permits' <=> q \in Permits \/ q = p
    <3>1. PICK t \in Thread, k \in 1..MaxCount : q = <<t, k>>
      BY <2>1
    <3>2. CASE t = c
      <4>1. holding'[t] = holding[c] + 1 /\ k \in Nat
        BY <1>1, <3>2, SemaphoreAssumption
      <4>2. k <= holding[c] + 1 <=> k <= holding[c] \/ k = holding[c] + 1
        BY <1>1, <4>1
      <4> QED BY <3>1, <3>2, <4>1, <4>2 DEF Permits
    <3>3. CASE t # c
      BY <1>1, <3>1, <3>3 DEF Permits
    <3> QED BY <3>2, <3>3
  <2>2. Permits \subseteq Thread \X (1..MaxCount) /\ Permits' \subseteq Thread \X (1..MaxCount)
    BY DEF Permits
  <2> QED BY <1>2, <2>1, <2>2
<1> QED BY <1>2, <1>3, PermitsFinite, FS_AddElement

\* A task that gives a permit back takes one from the permits held.
LEMMA PermitGiven ==
  ASSUME SemTypeOK, NEW c \in Thread, holding[c] > 0,
         holding' = [holding EXCEPT ![c] = @ - 1]
  PROVE  Cardinality(Permits') = Cardinality(Permits) - 1
<1> DEFINE p == <<c, holding[c]>>
<1>1. holding \in [Thread -> 0..MaxCount] /\ holding[c] \in 0..MaxCount
  BY DEF SemTypeOK
<1>2. p \in Thread \X (1..MaxCount) /\ p \in Permits
  BY <1>1, SemaphoreAssumption DEF Permits
<1>3. Permits' = Permits \ {p}
  <2>1. ASSUME NEW q \in Thread \X (1..MaxCount)
        PROVE  q \in Permits' <=> q \in Permits /\ q # p
    <3>1. PICK t \in Thread, k \in 1..MaxCount : q = <<t, k>>
      BY <2>1
    <3>2. CASE t = c
      <4>1. holding'[t] = holding[c] - 1 /\ k \in Nat
        BY <1>1, <3>2, SemaphoreAssumption
      <4>2. k <= holding[c] - 1 <=> k <= holding[c] /\ k # holding[c]
        BY <1>1, <4>1
      <4> QED BY <3>1, <3>2, <4>1, <4>2 DEF Permits
    <3>3. CASE t # c
      BY <1>1, <3>1, <3>3 DEF Permits
    <3> QED BY <3>2, <3>3
  <2>2. Permits \subseteq Thread \X (1..MaxCount) /\ Permits' \subseteq Thread \X (1..MaxCount)
    BY DEF Permits
  <2> QED BY <1>2, <2>1, <2>2
<1> QED BY <1>2, <1>3, PermitsFinite, FS_RemoveElement

\* No step of the scheduler touches the list of waiters.
LEMMA WaitingFrame ==
  ASSUME LockInv, [Next]_vars
  PROVE  lists'["waiting"] = lists["waiting"]
<1> USE DEF Current
<1>0. lists \in [ListName -> Seq(Thread)] /\ Current \in Thread
      /\ "waiting" \in ListName /\ "ready" \in ListName
  BY DEF LockInv, TypeOK, ListName
<1>1. ASSUME NEW n \in ListName, n # "waiting", NEW u \in Thread, lists' = AddTail(lists, n, u)
      PROVE  lists'["waiting"] = lists["waiting"]
  BY <1>0, <1>1, AddTailType
<1>2. ASSUME NEW n \in ListName, n # "waiting", lists[n] # << >>,
             lists' = DropHead(lists, n) \/ lists' = Rotate(lists, n)
      PROVE  lists'["waiting"] = lists["waiting"]
  BY <1>0, <1>2, DropHeadType, RotateType
<1>3. ASSUME NEW n \in {"sleeping", "paused"}, NEW t \in Thread, IsHead(t, n), Wake(t, n)
      PROVE  lists'["waiting"] = lists["waiting"]
  <2>1. n \in ListName /\ lists[n] # << >>
    BY <1>0, <1>3 DEF IsHead, ListName
  <2> DEFINE ls == DropHead(lists, n)
  <2>2. ls \in [ListName -> Seq(Thread)] /\ ls["waiting"] = lists["waiting"]
    BY <1>0, <1>3, <2>1, DropHeadType
  <2>3. lists' = AddTail(ls, "ready", t)
    BY <1>3 DEF Wake
  <2> HIDE DEF ls
  <2>4. \A m \in ListName : AddTail(ls, "ready", t)[m]
                            = IF m = "ready" THEN Append(ls["ready"], t) ELSE ls[m]
    BY <1>0, <2>2, AddTailType
  <2> QED BY <1>0, <2>2, <2>3, <2>4
<1>4. ASSUME Dispatch
      PROVE  lists'["waiting"] = lists["waiting"]
  <2>1. CASE Ready # << >> /\ lists' = DropHead(AddTail(lists, "ready", Current), "ready")
    <3> DEFINE c  == Current
               ls == AddTail(lists, "ready", c)
    <3>0. c \in Thread
      BY <1>0
    <3>3. lists' = DropHead(ls, "ready")
      BY <2>1
    <3> HIDE DEF c
    <3>1. /\ ls \in [ListName -> Seq(Thread)] /\ ls["waiting"] = lists["waiting"]
          /\ ls["ready"] = Append(lists["ready"], c)
      <4>1. \A m \in ListName : ls[m] = IF m = "ready" THEN Append(lists["ready"], c) ELSE lists[m]
        BY <1>0, <3>0, AddTailType
      <4>2. ls \in [ListName -> Seq(Thread)]
        BY <1>0, <3>0, AddTailType
      <4> QED BY <1>0, <4>1, <4>2
    <3>2. Append(lists["ready"], c) # << >>
      <4>1. lists["ready"] \in Seq(Thread)
        BY <1>0
      <4> QED BY <3>0, <4>1, AppendNotEmpty
    <3> HIDE DEF ls
    <3>4. \A m \in ListName : DropHead(ls, "ready")[m] = IF m = "ready" THEN Tail(ls["ready"]) ELSE ls[m]
      BY <1>0, <3>1, <3>2, DropHeadType
    <3> QED BY <1>0, <3>1, <3>3, <3>4
  <2>2. CASE Ready # << >> /\ lists' = DropHead(lists, "ready")
    BY <1>0, <1>2, <2>2 DEF Ready
  <2> QED BY <1>4, <2>1, <2>2 DEF Dispatch, runq
<1>5. CASE Fork
  BY <1>0, <1>1, <1>5 DEF Fork, Thread
<1>6. CASE Reclaim
  BY <1>0, <1>2, <1>6 DEF Reclaim, ListName
<1>7. CASE BlockLink
  BY <1>0, <1>1, <1>7 DEF BlockLink, ListOf, ListName
<1>8. CASE UnblockMove
  BY <1>3, <1>8 DEF UnblockMove, Unblock, LockInv, TypeOK
<1>9. CASE WalkWake
  <2>1. Head(lists["sleeping"]) \in Thread
    BY <1>0, <1>9 DEF WalkWake, Handling, LockInv, HandlerOK, ListName
  <2> QED BY <1>3, <1>9, <2>1 DEF WalkWake, Unblock
<1>10. CASE WalkNext
  BY <1>0, <1>2, <1>10 DEF WalkNext, Handling, LockInv, HandlerOK, ListName
<1>11. CASE BlockSchedule \/ UnlockPostpone \/ HookTail
  BY <1>4, <1>11 DEF BlockSchedule, UnlockPostpone, HookTail, Schedule, runq
<1>12. CASE \/ TimerIRQ \/ HookReturn \/ SectionEnter \/ PauseCall \/ UnblockCall \/ SleepCall \/ ExitCall
           \/ StartUp \/ SectionLeave \/ CleanCall \/ SleepPast \/ SleepSet \/ ExitWakeClean
           \/ ReclaimDone \/ BlockLock \/ BlockUnlock \/ UnblockLock \/ UnblockUnlock \/ UnlockIrq
           \/ BlockState \/ UNCHANGED vars
  BY <1>12 DEF TimerIRQ, HookReturn, SectionEnter, PauseCall, UnblockCall, SleepCall, ExitCall, StartUp,
       SectionLeave, CleanCall, SleepPast, SleepSet, ExitWakeClean, ReclaimDone, BlockLock, BlockUnlock, UnblockLock,
       UnblockUnlock, UnlockIrq, BlockState, StuffEnter, runq, vars
<1> QED BY <1>5, <1>6, <1>7, <1>8, <1>9, <1>10, <1>11, <1>12 DEF Next, ThreadCall, KernelStep, HandlerStep

\* What a step of the scheduler may do to the threads that do not run.
LEMMA OthersFrame ==
  ASSUME LockInv, PlaceInv, [Next]_vars, NEW r \in Thread, r # Current
  PROVE  /\ state[r] = "WAITING_FOR_LOCK" => state'[r] = "WAITING_FOR_LOCK"
         /\ \/ pc'[r] = pc[r] /\ call'[r] = call[r]
            \/ pc'[r] = "start" /\ call'[r] = "none"
<1> USE DEF Current
<1>0. /\ Current \in Thread /\ pc \in [Thread -> Label] /\ call \in [Thread -> Call]
      /\ state \in [Thread -> State] /\ lists \in [ListName -> Seq(Thread)]
  BY DEF LockInv, TypeOK
<1>1. CASE Reclaim
  <2> DEFINE dead == Head(lists["terminated"])
  <2>1. /\ lists["terminated"] # << >> /\ state' = [state EXCEPT ![dead] = "NONE"]
        /\ pc' = [pc EXCEPT ![dead] = "start"] /\ call' = [call EXCEPT ![dead] = "none"]
    BY <1>1 DEF Reclaim
  <2>2. dead \in Thread /\ Linked(dead, "terminated")
    BY <1>0, <2>1, OccursHead DEF Linked, ListName
  <2>3. state[dead] = "TERMINATED"
    BY <2>2 DEF PlaceInv, ListMatchesState
  <2> HIDE DEF dead
  <2> QED BY <1>0, <2>1, <2>2, <2>3
<1>2. CASE UnblockMove \/ WalkWake
  <2>1. pc'[r] = pc[r] /\ call' = call
    BY <1>0, <1>2 DEF UnblockMove, WalkWake, Goto, service
  <2>2. ASSUME NEW t, NEW n \in {"sleeping", "paused"}, IsHead(t, n), Wake(t, n)
        PROVE  state[r] = "WAITING_FOR_LOCK" => state'[r] = "WAITING_FOR_LOCK"
    <3>1. t \in Thread /\ Linked(t, n)
      BY <1>0, <2>2, OccursHead DEF IsHead, Linked, ListName
    <3>2. state[t] # "WAITING_FOR_LOCK"
      BY <3>1 DEF PlaceInv, ListMatchesState
    <3> QED BY <1>0, <2>2, <3>1, <3>2 DEF Wake
  <2>3. \E t : Unblock(t)
    BY <1>2 DEF UnblockMove, WalkWake
  <2> QED BY <2>1, <2>2, <2>3 DEF Unblock
<1>3. CASE BlockSchedule \/ UnlockPostpone \/ HookTail
  <2>1. pc'[r] = pc[r] /\ call' = call
    BY <1>0, <1>3 DEF BlockSchedule, UnlockPostpone, HookTail, Goto, service
  <2>2. Dispatch \/ state' = state
    BY <1>3 DEF BlockSchedule, UnlockPostpone, HookTail, Schedule, runq
  <2>3. CASE Ready # << >> /\ Dispatch
    <3>1. Head(Ready) \in Thread /\ Linked(Head(Ready), "ready")
      BY <1>0, <2>3, OccursHead DEF Ready, Linked, ListName
    <3>2. state[Head(Ready)] = "READY"
      BY <3>1 DEF PlaceInv, ListMatchesState
    <3> QED BY <1>0, <2>1, <2>3, <3>2 DEF Dispatch
  <2>4. CASE Ready = << >> /\ Dispatch
    BY <1>0, <2>1, <2>4 DEF Dispatch, runq, PlaceInv, BlockOK
  <2> QED BY <2>1, <2>2, <2>3, <2>4
<1>4. CASE Fork \/ BlockState
  BY <1>0, <1>4 DEF Fork, BlockState, Goto, service
<1>5. CASE \/ TimerIRQ \/ HookReturn \/ WalkNext \/ SectionEnter \/ PauseCall \/ UnblockCall \/ SleepCall
           \/ ExitCall \/ StartUp \/ SectionLeave \/ CleanCall \/ SleepPast \/ SleepSet \/ ExitWakeClean
           \/ ReclaimDone \/ BlockLock \/ BlockLink \/ BlockUnlock \/ UnblockLock \/ UnblockUnlock
           \/ UnlockIrq \/ UNCHANGED vars
  BY <1>0, <1>5 DEF TimerIRQ, HookReturn, WalkNext, SectionEnter, PauseCall, UnblockCall, SleepCall,
     ExitCall, StartUp, SectionLeave, CleanCall, SleepPast, SleepSet, ExitWakeClean, ReclaimDone,
     BlockLock, BlockLink, BlockUnlock, UnblockLock, UnblockUnlock, UnlockIrq, StuffEnter, Enter,
     Return, Goto, runq, service, vars
<1> QED BY <1>1, <1>2, <1>3, <1>4, <1>5 DEF Next, ThreadCall, KernelStep, HandlerStep

\* What a context switch does to the waiters.
LEMMA SwitchFrame ==
  ASSUME LockInv, PlaceInv, WaiterOK, [Next]_vars, LockInv', current_task_TCB' # current_task_TCB,
         call'[Current] = "acquire" => state'[Current] = "WAITING_FOR_LOCK"
  PROVE  WaiterOK' /\ ~Granted' /\ ~Returning'
<1> USE DEF Current
<1>0. /\ Current \in Thread /\ Current' \in Thread
  BY DEF LockInv, TypeOK
<1> DEFINE u == Current'
<1>1. call[u] = "acquire" => state[u] = "WAITING_FOR_LOCK"
  BY <1>0 DEF WaiterOK
<1>2. ~InStuff(u)
  BY <1>0 DEF LockInv, LockBalance
<1>3. /\ state[u] = "WAITING_FOR_LOCK" => state'[u] = "WAITING_FOR_LOCK"
      /\ \/ pc'[u] = pc[u] /\ call'[u] = call[u]
         \/ pc'[u] = "start" /\ call'[u] = "none"
  BY <1>0, OthersFrame
<1>4. ~Granted' /\ ~Returning' /\ ~(call'[u] = "acquire" /\ pc'[u] = "blk_unlock")
  BY <1>1, <1>2, <1>3 DEF Granted, Returning, InStuff, StuffCall
<1>5. \A t \in Thread \ {u} : call'[t] = "acquire" => state'[t] = "WAITING_FOR_LOCK"
  <2>1. ASSUME NEW t \in Thread, t # Current, call'[t] = "acquire"
        PROVE  state'[t] = "WAITING_FOR_LOCK"
    BY <2>1, OthersFrame DEF WaiterOK
  <2> QED BY <2>1
<1> QED BY <1>4, <1>5 DEF WaiterOK

\* A step of the scheduler keeps WaiterOK and puts no permit on its way; the
\* unlock that ends acquire_semaphore takes the one that was.
LEMMA GrantStep ==
  ASSUME LockInv, PlaceInv, WaiterOK, [Next]_vars, LockInv'
  PROVE  /\ WaiterOK' /\ (Granted' => Granted) /\ (Returning' => Returning)
         /\ Acquired /\ UnlockIrq => Granted /\ ~Granted' /\ ~Returning'
<1> USE DEF Current
<1>0. /\ Current \in Thread /\ pc \in [Thread -> Label] /\ call \in [Thread -> Call]
      /\ state \in [Thread -> State]
  BY DEF LockInv, TypeOK
<1>1. ASSUME current_task_TCB' = current_task_TCB,
             call'[Current] = "acquire" /\ pc'[Current] = "blk_unlock"
               => state'[Current] = "WAITING_FOR_LOCK"
      PROVE  WaiterOK'
  <2>1. ASSUME NEW t \in Thread, t # Current, call'[t] = "acquire"
        PROVE  state'[t] = "WAITING_FOR_LOCK"
    BY <2>1, OthersFrame DEF WaiterOK
  <2> QED BY <1>1, <2>1 DEF WaiterOK
<1>2. CASE BlockSchedule
  <2>1. /\ pc[Current] = "blk_sched" /\ pc' = [pc EXCEPT ![Current] = "blk_unlock"]
        /\ Schedule /\ call' = call /\ state[Current] = Reason(call[Current])
    BY <1>2 DEF BlockSchedule, At, Goto, service, PlaceInv, BlockOK
  <2>2. CASE current_task_TCB' # current_task_TCB
    <3>1. call[Current] # "acquire"
      BY <2>1, <2>2 DEF Schedule, runq, LockInv, LockBalance, InStuff, StuffCall
    <3> QED BY <2>1, <2>2, <3>1, SwitchFrame DEF Acquired, At
  <2>3. CASE current_task_TCB' = current_task_TCB
    <3>1. call[Current] = "acquire" => state'[Current] = "WAITING_FOR_LOCK"
      BY <2>1 DEF Schedule, runq, LockInv, LockBalance, InStuff, StuffCall, Reason
    <3> QED BY <1>0, <1>1, <2>1, <2>3, <3>1 DEF Granted, Returning, Acquired, At
  <2> QED BY <2>2, <2>3
<1>3. CASE UnlockPostpone
  <2>1. /\ pc[Current] = "stuff_post" /\ pc' = [pc EXCEPT ![Current] = "stuff_irq"] /\ call' = call
    BY <1>3 DEF UnlockPostpone, At, Goto, service
  <2>2. task_switches_postponed_flag # 0 =>
          task_switches_postponed_flag = 1 /\ state[Current] = Reason(call[Current])
    BY DEF LockInv, TypeOK, PlaceInv, BlockOK
  <2>3. CASE current_task_TCB' # current_task_TCB
    <3>1. Dispatch /\ state[Current] = Reason(call[Current])
      BY <1>3, <2>2, <2>3 DEF UnlockPostpone, runq
    <3>2. Ready # << >> => Head(Ready) # Current
      BY <2>3, <3>1 DEF Dispatch, SwitchTo, runq
    <3>3. call[Current] = "acquire" => state'[Current] = "WAITING_FOR_LOCK"
      BY <1>0, <3>1, <3>2 DEF Dispatch, Preempted, Reason, runq, PlaceInv, BlockOK
    <3> QED BY <2>1, <2>3, <3>3, SwitchFrame DEF Acquired, At
  <2>4. CASE current_task_TCB' = current_task_TCB
    <3>1. state'[Current] = "RUNNING" => state[Current] = "RUNNING"
      <4>1. CASE Dispatch /\ Ready # << >>
        <5>1. Current = Head(Ready)
          BY <2>4, <4>1 DEF Dispatch, SwitchTo
        <5>2. Linked(Current, "ready")
          BY <1>0, <4>1, <5>1, OccursHead DEF Linked, Ready, LockInv, TypeOK, ListName
        <5> QED BY <5>2, CurrentPlace
      <4>2. CASE Dispatch /\ Ready = << >>
        BY <1>0, <2>4, <4>2 DEF Dispatch, SwitchTo, runq, PlaceInv, BlockOK
      <4>3. CASE UNCHANGED runq
        BY <4>3 DEF runq
      <4> QED BY <1>3, <4>1, <4>2, <4>3 DEF UnlockPostpone
    <3> QED BY <1>0, <1>1, <2>1, <2>4, <3>1 DEF Granted, Returning, Acquired, At
  <2> QED BY <2>3, <2>4
<1>4. CASE HookTail
  <2>1. isr[Current] = "tail" /\ pc' = pc /\ call' = call
    BY <1>4 DEF HookTail, Handling, service
  <2>2. pc[Current] \notin LockedLabel /\ ~InStuff(Current)
    BY <2>1, HandlerPlace
  <2>3. ~(call[Current] \in {"acquire", "release"})
    BY <1>0, <2>2 DEF LockInv, CallOK, InStuff, StuffCall, LockedLabel
  <2>4. CASE current_task_TCB' # current_task_TCB
    BY <2>1, <2>3, <2>4, SwitchFrame DEF Acquired, At
  <2>5. CASE current_task_TCB' = current_task_TCB
    BY <1>1, <2>1, <2>3, <2>5 DEF Granted, Returning, Acquired, At
  <2> QED BY <2>4, <2>5
<1>5. CASE TimerIRQ \/ HookReturn \/ WalkWake \/ WalkNext
  <2>1. /\ isr[Current] # "none" \/ ~masked
        /\ pc' = pc /\ call' = call /\ current_task_TCB' = current_task_TCB
    BY <1>5 DEF TimerIRQ, HookReturn, WalkWake, WalkNext, Handling, service, runq
  <2>2. pc[Current] \notin LockedLabel /\ ~InStuff(Current)
    BY <2>1, HandlerPlace
  <2>3. ~(call[Current] \in {"acquire", "release"})
    BY <1>0, <2>2 DEF LockInv, CallOK, InStuff, StuffCall, LockedLabel
  <2> QED BY <1>1, <2>1, <2>3 DEF Granted, Returning, Acquired, In
<1>6. CASE UnlockIrq
  <2>1. /\ pc[Current] = "stuff_irq" /\ current_task_TCB' = current_task_TCB
        /\ \/ pc'[Current] = "run" /\ call'[Current] = "none"
           \/ pc'[Current] = "wild"
    BY <1>0, <1>6 DEF UnlockIrq, At, Goto, Return, runq
  <2>2. state[Current] = "RUNNING"
    BY <2>1, CurrentPlace DEF BlockedLabel
  <2> QED BY <1>1, <2>1, <2>2 DEF Granted, Returning, Acquired, In
<1>7. CASE BlockUnlock
  <2>1. /\ pc[Current] = "blk_unlock" /\ current_task_TCB' = current_task_TCB /\ state' = state
        /\ \/ pc'[Current] = "run"
           \/ pc'[Current] = "stuff_post" /\ call' = call
    BY <1>0, <1>7 DEF BlockUnlock, At, Goto, Return, runq, service
  <2> QED BY <1>1, <2>1 DEF Granted, Returning, Acquired, At, WaiterOK
<1>8. CASE SectionEnter \/ PauseCall \/ UnblockCall \/ SleepCall \/ ExitCall \/ CleanCall \/ StartUp
           \/ SectionLeave
  <2>1. /\ pc[Current] # "stuff_irq" /\ current_task_TCB' = current_task_TCB
        /\ call'[Current] \notin {"acquire", "release"}
           \/ pc'[Current] \notin {"blk_unlock", "stuff_post", "stuff_irq", "body"}
    BY <1>0, <1>8 DEF SectionEnter, PauseCall, UnblockCall, SleepCall, ExitCall, CleanCall, StartUp,
       SectionLeave, StuffEnter, MayCall, Enter, Return, At, Goto, runq
  <2> QED BY <1>1, <2>1 DEF Granted, Returning, Acquired, At
<1>9. CASE SleepPast \/ SleepSet \/ ExitWakeClean \/ ReclaimDone \/ BlockLock \/ BlockState \/ BlockLink
           \/ UnblockLock \/ UnblockMove \/ UnblockUnlock
  <2>1. /\ pc[Current] # "stuff_irq" /\ current_task_TCB' = current_task_TCB
        /\ \/ call'[Current] \notin {"acquire", "release"}
           \/ pc'[Current] \notin {"blk_unlock", "stuff_post", "stuff_irq", "body"}
           \/ call'[Current] = "release" /\ pc'[Current] = "stuff_post"
    BY <1>0, <1>9 DEF SleepPast, SleepSet, ExitWakeClean, ReclaimDone, BlockLock, BlockState, BlockLink,
       UnblockLock, UnblockMove, UnblockUnlock, Return, At, In, Goto, runq, service, LockInv, CallOK, UnblockLabel
  <2> QED BY <1>1, <2>1 DEF Granted, Returning, Acquired, At
<1>10. CASE Fork \/ Reclaim \/ UNCHANGED vars
  <2>1. /\ current_task_TCB' = current_task_TCB
        /\ \/ pc'[Current] \notin {"blk_unlock", "stuff_post", "stuff_irq", "body"}
           \/ call'[Current] = "clean"
           \/ UNCHANGED vars
        /\ pc[Current] \in {"run", "body"} \/ UNCHANGED vars
    BY <1>0, <1>10 DEF Fork, MayCall, At, Reclaim, In, runq, service, vars, LockInv, TypeOK
  <2>2. UNCHANGED vars => ~UnlockIrq
    BY <1>0 DEF UnlockIrq, At, Goto, Return, vars, runq
  <2>3. CASE UNCHANGED vars
    BY <1>1, <2>2, <2>3 DEF WaiterOK, Granted, Returning, vars, runq, service
  <2>4. CASE ~(UNCHANGED vars)
    BY <1>1, <2>1, <2>4 DEF Granted, Returning, Acquired, At
  <2> QED BY <2>3, <2>4
<1> QED BY <1>2, <1>3, <1>4, <1>5, <1>6, <1>7, <1>8, <1>9, <1>10 DEF Next, ThreadCall, KernelStep, HandlerStep

\* The last step of acquire_semaphore is one of the scheduler.
LEMMA AcquiredStep ==
  ASSUME LockInv, Acquired, Next
  PROVE  UnlockIrq
<1> USE DEF Current, Acquired, At, In
<1>1. masked
  <2>1. irq_disable_counter = Held(Current) /\ (masked <=> irq_disable_counter > 0) /\ isr[Current] = "none"
    BY DEF LockInv, LockBalance
  <2>2. Held(Current) = 1
    BY <2>1 DEF Held, LockedLabel, InStuff
  <2> QED BY <2>1, <2>2
<1>2. ~ThreadCall /\ ~HandlerStep /\ ~TimerIRQ
  BY <1>1 DEF ThreadCall, SectionEnter, PauseCall, UnblockCall, SleepCall, ExitCall, Fork, MayCall,
     HandlerStep, WalkWake, WalkNext, HookTail, HookReturn, Handling, TimerIRQ
<1>3. KernelStep
  BY <1>2 DEF Next
<1> QED BY <1>3 DEF KernelStep, StartUp, SectionLeave, CleanCall, SleepPast, SleepSet, ExitWakeClean, Reclaim,
     ReclaimDone, BlockLock, BlockState, BlockLink, BlockSchedule, BlockUnlock, UnblockLock, UnblockMove,
     UnblockUnlock, UnlockPostpone

\* Every step of the composition keeps SemInv.
LEMMA SemInvStep ==
  LockInv /\ PlaceInv /\ SemInv /\ [SemNext]_semVars /\ LockInv' => SemInv'
<1> SUFFICES ASSUME LockInv, PlaceInv, SemInv, [SemNext]_semVars, LockInv' PROVE SemInv'
  OBVIOUS
<1> USE SemaphoreAssumption DEF SemaphoreAssumption, Current
<1>0. /\ current_count \in 0..MaxCount /\ holding \in [Thread -> 0..MaxCount] /\ stray \in BOOLEAN
      /\ Current \in Thread /\ pc \in [Thread -> Label] /\ call \in [Thread -> Call]
      /\ Cardinality(Permits) \in Nat /\ TypeOK'
      /\ lists \in [ListName -> Seq(Thread)]
  BY PermitsFinite DEF SemInv, SemTypeOK, LockInv, TypeOK
<1>1. CASE /\ [Next]_vars /\ UNCHANGED <<current_count, stray>>
           /\ \/ UNCHANGED holding
              \/ /\ Acquired /\ Next /\ holding[Current] < MaxCount
                 /\ holding' = [holding EXCEPT ![Current] = @ + 1]
  <2>1. WaiterOK' /\ (Granted' => Granted) /\ (Returning' => Returning)
        /\ (Acquired /\ UnlockIrq => Granted /\ ~Granted' /\ ~Returning')
    BY <1>1, GrantStep DEF SemInv
  <2>2. WaitOnlyWhenFull'
    BY <1>1, WaitingFrame DEF SemInv, WaitOnlyWhenFull
  <2>3. CASE UNCHANGED holding
    <3>1. SemTypeOK'
      BY <1>0, <1>1, <2>3 DEF SemTypeOK
    <3>2. Permits' = Permits
      BY <2>3 DEF Permits
    <3>3. PermitOK'
      BY <1>0, <1>1, <2>1, <3>2 DEF SemInv, PermitOK
    <3> QED BY <2>1, <2>2, <3>1, <3>3 DEF SemInv
  <2>4. CASE Acquired /\ Next /\ holding[Current] < MaxCount
             /\ holding' = [holding EXCEPT ![Current] = @ + 1]
    <3>1. Granted /\ ~Granted' /\ ~Returning'
      BY <2>1, <2>4, AcquiredStep
    <3>2. Cardinality(Permits') = Cardinality(Permits) + 1
      BY <1>0, <2>4, PermitTaken DEF SemInv
    <3>3. PermitOK'
      BY <1>0, <1>1, <3>1, <3>2 DEF SemInv, PermitOK
    <3>4. holding' \in [Thread -> 0..MaxCount]
      BY <1>0, <2>4
    <3>5. SemTypeOK'
      BY <1>0, <1>1, <3>4 DEF SemTypeOK
    <3> QED BY <2>1, <2>2, <3>3, <3>5 DEF SemInv
  <2> QED BY <1>1, <2>3, <2>4
<1>2. CASE SemStep
  <2>1. /\ UNCHANGED <<current_task_TCB, state>> /\ \A t \in Thread \ {Current} : call'[t] = call[t]
        /\ pc'[Current] # "blk_unlock" /\ pc[Current] \in {"run", "body"}
    BY <1>0, <1>2 DEF SemStep, AcquireCall, ReclaimDone, ReleaseCall, AcquireFree, AcquireWait, ReleaseToWaiter,
       ReleaseFree, MayCall, StuffEnter, Enter, At, Goto, runq, service
  <2>2. WaiterOK'
    BY <2>1 DEF SemInv, WaiterOK
  <2>3. state[Current] = "RUNNING" /\ ~Granted
    BY <2>1, CurrentPlace DEF BlockedLabel, Granted
  <2>4. CASE AcquireCall
    <3>1. UNCHANGED <<current_count, holding, stray, lists>> /\ pc'[Current] = "body" /\ call'[Current] = "acquire"
      BY <1>0, <2>4 DEF AcquireCall, StuffEnter, Enter, Goto, runq
    <3>2. Permits' = Permits /\ ~Granted' /\ ~Returning'
      BY <2>1, <3>1 DEF Permits, Granted, Returning
    <3> QED BY <1>0, <2>2, <3>1, <3>2 DEF SemInv, SemTypeOK, WaitOnlyWhenFull, PermitOK
  <2>5. CASE ReleaseCall
    <3>1. /\ UNCHANGED <<current_count, lists>> /\ pc'[Current] = "body" /\ call'[Current] = "release"
          /\ pc[Current] = "run" /\ stray' = (stray \/ holding[Current] = 0)
          /\ holding' = [holding EXCEPT ![Current] = IF @ > 0 THEN @ - 1 ELSE 0]
      BY <1>0, <2>5 DEF ReleaseCall, MayCall, At, StuffEnter, Enter, Goto, runq
    <3>2. SemTypeOK'
      <4>1. holding' \in [Thread -> 0..MaxCount]
        BY <1>0, <3>1
      <4>2. stray' \in BOOLEAN
        BY <3>1
      <4> QED BY <1>0, <3>1, <4>1, <4>2 DEF SemTypeOK
    <3>3. PermitOK'
      <4>1. CASE holding[Current] = 0
        BY <3>1, <4>1 DEF PermitOK
      <4>2. CASE holding[Current] # 0
        <5>1. holding[Current] > 0
          BY <1>0, <4>2
        <5>2. holding' = [holding EXCEPT ![Current] = @ - 1]
          BY <1>0, <3>1, <5>1
        <5>3. Cardinality(Permits') = Cardinality(Permits) - 1
          BY <1>0, <5>1, <5>2, PermitGiven DEF SemInv
        <5>4. ~stray' => ~stray
          BY <3>1
        <5>5. ~stray => Cardinality(Permits) <= current_count
          BY <1>0 DEF SemInv, PermitOK
        <5>6. ~Granted'
          BY <2>1, <3>1 DEF Granted
        <5> QED BY <1>0, <3>1, <5>3, <5>4, <5>5, <5>6 DEF PermitOK
      <4> QED BY <4>1, <4>2
    <3> QED BY <2>2, <3>1, <3>2, <3>3 DEF SemInv, WaitOnlyWhenFull
  <2>6. CASE AcquireFree
    <3>1. /\ current_count < MaxCount /\ current_count' = current_count + 1
          /\ UNCHANGED <<holding, stray, lists>> /\ call'[Current] = "acquire"
      BY <2>6 DEF AcquireFree, In, runq, service
    <3>2. Permits' = Permits /\ ~Returning'
      BY <2>1, <3>1 DEF Permits, Returning
    <3>3. lists'["waiting"] = << >>
      BY <1>0, <3>1 DEF SemInv, WaitOnlyWhenFull
    <3>4. ~stray => Cardinality(Permits) <= current_count
      BY <1>0 DEF SemInv, PermitOK
    <3>5. PermitOK'
      BY <1>0, <3>1, <3>2, <3>4 DEF PermitOK
    <3> QED BY <1>0, <2>2, <3>1, <3>3, <3>5 DEF SemInv, SemTypeOK, WaitOnlyWhenFull
  <2>7. CASE AcquireWait
    <3>1. /\ current_count >= MaxCount /\ UNCHANGED <<current_count, holding, stray>>
          /\ call'[Current] = "acquire" /\ pc'[Current] = "blk_enter"
      BY <1>0, <2>7 DEF AcquireWait, In, Goto, service
    <3>2. Permits' = Permits /\ ~Returning' /\ ~Granted'
      BY <2>1, <3>1 DEF Permits, Returning, Granted
    <3>3. current_count' = MaxCount
      BY <1>0, <3>1
    <3> QED BY <1>0, <2>2, <3>1, <3>2, <3>3 DEF SemInv, SemTypeOK, WaitOnlyWhenFull, PermitOK
  <2>8. CASE ReleaseToWaiter
    <3>1. /\ lists["waiting"] # << >> /\ UNCHANGED <<current_count, holding, stray>>
          /\ pc'[Current] = "unb_enter"
      BY <1>0, <2>8 DEF ReleaseToWaiter, Goto
    <3>2. Permits' = Permits /\ ~Returning' /\ ~Granted'
      BY <2>1, <3>1 DEF Permits, Returning, Granted
    <3> QED BY <1>0, <2>2, <3>1, <3>2 DEF SemInv, SemTypeOK, WaitOnlyWhenFull, PermitOK
  <2>9. CASE ReleaseFree
    <3>1. /\ lists'["waiting"] = << >> /\ UNCHANGED <<holding, stray>>
          /\ call[Current] = "release" /\ call' = call /\ pc[Current] = "body" /\ pc'[Current] = "stuff_post"
          /\ current_count' = IF current_count > 0 THEN current_count - 1 ELSE 0
      BY <1>0, <2>9 DEF ReleaseFree, At, In, Goto, runq, service
    <3>2. Permits' = Permits /\ Returning /\ ~Returning' /\ ~Granted'
      BY <2>1, <3>1 DEF Permits, Returning, Granted
    <3>3. ~stray => Cardinality(Permits) + 1 <= current_count
      BY <3>2 DEF SemInv, PermitOK
    <3>4. PermitOK'
      BY <1>0, <3>1, <3>2, <3>3 DEF PermitOK
    <3> QED BY <1>0, <2>2, <3>1, <3>4 DEF SemInv, SemTypeOK, WaitOnlyWhenFull
  <2> QED BY <1>2, <2>4, <2>5, <2>6, <2>7, <2>8, <2>9 DEF SemStep
<1> QED BY <1>1, <1>2, SemSteps

\* The invariants hold when the kernel starts its tasks.
LEMMA SemInitInv == SemInit => LockInv /\ PlaceInv /\ SemInv
<1> SUFFICES ASSUME SemInit PROVE SemInv
  BY InitLockInv, InitPlaceInv DEF SemInit
<1> USE SemaphoreAssumption DEF SemaphoreAssumption
<1>1. TypeOK
  BY InitLockInv DEF SemInit, LockInv
<1>2. SemTypeOK
  <2>1. current_count \in 0..MaxCount
    BY DEF SemInit
  <2>2. holding \in [Thread -> 0..MaxCount]
    BY DEF SemInit
  <2> QED BY <1>1, <2>1, <2>2 DEF SemTypeOK, SemInit
<1>3. WaiterOK /\ WaitOnlyWhenFull /\ ~Granted /\ ~Returning
  <2>1. \A t \in Thread : call[t] = "none"
    BY DEF SemInit, Init
  <2>2. Current \in Thread
    BY <1>1 DEF TypeOK, Current
  <2>3. lists["waiting"] = << >>
    BY DEF SemInit, Init, ListName
  <2> QED BY <2>1, <2>2, <2>3 DEF WaiterOK, WaitOnlyWhenFull, Granted, Returning
<1>4. Permits = {}
  BY DEF SemInit, Permits
<1>5. PermitOK
  BY <1>3, <1>4, FS_EmptySet DEF PermitOK, SemInit
<1> QED BY <1>2, <1>3, <1>5 DEF SemInv

-----------------------------------------------------------------------------
\* The invariants of the scheduler and of the semaphore hold together in
\* every reachable state.
THEOREM SemInvariant == SemSpec => [](LockInv /\ PlaceInv /\ SemInv)
<1>1. LockInv /\ PlaceInv /\ SemInv /\ [SemNext]_semVars => (LockInv /\ PlaceInv /\ SemInv)'
  <2> SUFFICES ASSUME LockInv, PlaceInv, SemInv, [SemNext]_semVars
               PROVE  LockInv' /\ PlaceInv' /\ SemInv'
    OBVIOUS
  <2>1. [Next]_vars \/ SemStep
    BY SemSteps
  <2>2. LockInv' /\ PlaceInv'
    BY <2>1, LockInvStep, PlaceStep, SemLockStep, SemPlaceStep
  <2> QED BY <2>2, SemInvStep
<1> QED BY <1>1, SemInitInv, PTL DEF SemSpec

\* The count and the tasks' holdings stay within MaxCount.
THEOREM SemTypeCorrect == SemSpec => []SemTypeOK
<1>1. SemInv => SemTypeOK
  BY DEF SemInv
<1> QED BY <1>1, SemInvariant, PTL

\* A thread waits on the semaphore only while every permit is taken:
\* release_semaphore hands a permit to a waiter before it lets the count
\* fall.
THEOREM WaitersOnlyWhenFull == SemSpec => []WaitOnlyWhenFull
<1>1. SemInv => WaitOnlyWhenFull
  BY DEF SemInv
<1> QED BY <1>1, SemInvariant, PTL

\* As long as no thread releases a permit it does not hold, the tasks
\* together never hold more than max_count permits; with one permit this is
\* mutual exclusion of the mutex.
THEOREM PermitsBounded == SemSpec => []PermitBound
<1>1. SemInv => PermitBound
  <2> SUFFICES ASSUME SemInv, ~stray PROVE Cardinality(Permits) <= MaxCount
    BY DEF PermitBound
  <2>1. Cardinality(Permits) \in Nat /\ current_count \in 0..MaxCount
    BY PermitsFinite DEF SemInv, SemTypeOK
  <2> QED BY <2>1, SemaphoreAssumption DEF SemaphoreAssumption, SemInv, PermitOK
<1> QED BY <1>1, SemInvariant, PTL

\* Acquiring and releasing lose no thread and forget no switch: the
\* scheduler's list invariants hold of the composition.
THEOREM SemThreadsKept ==
  SemSpec => [](LinkedOnce /\ ListMatchesState /\ NoThreadLost /\ PostponedSwitchKept)
BY SemInvariant, PlaceImplies, PTL

\* Under the semaphore too the scheduler is the round robin of RoundRobin.
THEOREM SemRoundRobin == SemSpec => RR!Init /\ RoundRobinSteps
<1>1. LockInv /\ PlaceInv /\ [SemNext]_semVars => [RR!Next]_<<current_task_TCB, Ready>>
  <2> SUFFICES ASSUME LockInv, PlaceInv, SemStep
               PROVE  UNCHANGED <<current_task_TCB, Ready>>
    BY SemSteps, RoundRobinStep
  <2>1. lists \in [ListName -> Seq(Thread)] /\ "ready" \in ListName /\ "waiting" \in ListName
        /\ Current \in Thread
    BY DEF LockInv, TypeOK, ListName, Current
  <2>2. CASE AcquireWait
    BY <2>1, <2>2, AddTailType DEF AcquireWait, Ready
  <2>3. CASE ReleaseToWaiter
    <3>1. lists["waiting"] # << >> /\ current_task_TCB' = current_task_TCB
          /\ (lists' = DropHead(lists, "waiting") \/ lists' = Rotate(lists, "waiting"))
      BY <2>3 DEF ReleaseToWaiter
    <3>2. \A m \in ListName : DropHead(lists, "waiting")[m] =
                              IF m = "waiting" THEN Tail(lists["waiting"]) ELSE lists[m]
      BY <2>1, <3>1, DropHeadType
    <3>3. \A m \in ListName : m # "waiting" => Rotate(lists, "waiting")[m] = lists[m]
      BY <2>1, <3>1, RotateType
    <3>4. DropHead(lists, "waiting")["ready"] = lists["ready"]
      BY <2>1, <3>2
    <3>5. Rotate(lists, "waiting")["ready"] = lists["ready"]
      BY <2>1, <3>3
    <3> QED BY <3>1, <3>4, <3>5 DEF Ready
  <2>4. CASE AcquireCall \/ ReleaseCall \/ AcquireFree \/ ReleaseFree
    BY <2>4 DEF AcquireCall, ReleaseCall, AcquireFree, ReleaseFree, StuffEnter, runq, Ready
  <2> QED BY <2>2, <2>3, <2>4 DEF SemStep
<1>2. SemInit => RR!Init
  BY InitRoundRobin DEF SemInit
<1> QED BY <1>1, <1>2, SemInvariant, PTL DEF SemSpec, RoundRobinSteps
=============================================================================
