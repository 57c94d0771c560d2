------------------------------ MODULE Semaphore ------------------------------
(***************************************************************************)
(* A counting semaphore (kernel/arch/x86_64/sched/semaphore.c) used by the *)
(* tasks of the scheduler.  A mutex is the semaphore with MaxCount = 1.    *)
(* The waiting ring is lists["waiting"]: a thread waits in it with the same*)
(* tcb_list node that links it into the scheduler's lists.                 *)
(***************************************************************************)
EXTENDS Scheduler

CONSTANT MaxCount   \* max_count

ASSUME SemaphoreAssumption == MaxCount \in Nat \ {0} /\ IsFiniteSet(Task)

VARIABLES
  current_count,   \* permits in use
  holding,         \* history: the permits each thread has acquired and not released
  stray            \* history: some thread has released a permit it did not hold

semVars == <<vars, current_count, holding, stray>>

SemInit == /\ Init /\ current_count = 0
           /\ holding = [t \in Thread |-> 0] /\ stray = FALSE

AcquireCall ==
  /\ MayCall("acquire") /\ StuffEnter("acquire")
  /\ UNCHANGED <<current_count, holding, stray>>

ReleaseCall ==
  /\ MayCall("release") /\ StuffEnter("release")
  /\ stray' = (stray \/ holding[Current] = 0)
  /\ holding' = [holding EXCEPT ![Current] = IF @ > 0 THEN @ - 1 ELSE 0]
  /\ UNCHANGED current_count

\* Mutant: one permit more than max_count.
AcquireOneMore ==
  /\ At("body") /\ In("acquire") /\ current_count <= MaxCount
  /\ current_count' = current_count + 1
  /\ Goto("stuff_post")
  /\ UNCHANGED <<runq, locks, stuff, left, service, handler, holding, stray>>

AcquireFree ==
  /\ At("body") /\ In("acquire") /\ current_count < MaxCount
  /\ current_count' = current_count + 1
  /\ Goto("stuff_post")
  /\ UNCHANGED <<runq, locks, stuff, left, service, handler, holding, stray>>

AcquireWait ==
  /\ At("body") /\ In("acquire") /\ current_count >= MaxCount
  /\ lists' = AddTail(lists, "waiting", Current)
  /\ Goto("blk_enter")
  /\ UNCHANGED <<current_task_TCB, state, time_slice_remaining, locks, stuff,
                 left, service, handler, current_count, holding, stray>>

\* Mutant: the permit passed on to a waiter is counted as free, too.
ReleaseTwice ==
  /\ At("body") /\ In("release") /\ lists["waiting"] # << >>
  /\ target' = [target EXCEPT ![Current] = Head(lists["waiting"])]
  /\ lists' = IF Len(lists["waiting"]) = 1
              THEN DropHead(lists, "waiting") ELSE Rotate(lists, "waiting")
  /\ current_count' = current_count - 1
  /\ Goto("unb_enter")
  /\ UNCHANGED <<current_task_TCB, state, time_slice_remaining, locks, stuff,
                 left, call, handler, holding, stray>>

\* The list pointer moves off the first waiter, whose node stays linked to
\* the others: only a waiter that is alone leaves the ring.
ReleaseToWaiter ==
  /\ At("body") /\ In("release") /\ lists["waiting"] # << >>
  /\ target' = [target EXCEPT ![Current] = Head(lists["waiting"])]
  /\ lists' = IF Len(lists["waiting"]) = 1
              THEN DropHead(lists, "waiting") ELSE Rotate(lists, "waiting")
  /\ Goto("unb_enter")
  /\ UNCHANGED <<current_task_TCB, state, time_slice_remaining, locks, stuff,
                 left, call, handler, current_count, holding, stray>>

\* Mutant: the count has no floor.
ReleaseBelowZero ==
  /\ At("body") /\ In("release") /\ lists["waiting"] = << >>
  /\ current_count' = current_count - 1
  /\ Goto("stuff_post")
  /\ UNCHANGED <<runq, locks, stuff, left, service, handler, holding, stray>>

ReleaseFree ==
  /\ At("body") /\ In("release") /\ lists["waiting"] = << >>
  /\ current_count' = IF current_count > 0 THEN current_count - 1 ELSE 0
  /\ Goto("stuff_post")
  /\ UNCHANGED <<runq, locks, stuff, left, service, handler, holding, stray>>

\* acquire_semaphore returns to its caller with a permit.
Acquired == At("stuff_irq") /\ In("acquire")

\* A step of the scheduler with its effect on the permits.
Lifted(step) ==
  /\ step
  /\ holding' = IF Acquired /\ holding[Current] < MaxCount
                THEN [holding EXCEPT ![Current] = @ + 1] ELSE holding
  /\ UNCHANGED <<current_count, stray>>

SemKernelStep ==
  Lifted(KernelStep) \/ AcquireFree \/ AcquireWait \/ ReleaseToWaiter \/ ReleaseFree

SemNext ==
  \/ AcquireCall \/ ReleaseCall \/ SemKernelStep
  \/ Lifted(ThreadCall) \/ Lifted(TimerIRQ) \/ Lifted(HandlerStep)

SemSpec == SemInit /\ [][SemNext]_semVars

\* The fairness of FairSpec, with the two services of the semaphore.
FairSemSpec == /\ SemSpec
               /\ \A t \in Thread : SF_semVars(Current = t /\ SemKernelStep)
               /\ WF_semVars(Lifted(HandlerStep))
               /\ SF_semVars(Lifted(TimerIRQ))

-----------------------------------------------------------------------------
(* Properties.                                                              *)

SemTypeOK ==
  /\ TypeOK
  /\ current_count \in 0..MaxCount
  /\ holding \in [Thread -> 0..MaxCount]
  /\ stray \in BOOLEAN

\* A thread only waits while every permit is in use: acquire_semaphore tests
\* the count and joins the ring, and release_semaphore picks a waiter or
\* lowers the count, each as one step under lock_stuff.
WaitOnlyWhenFull == lists["waiting"] # << >> => current_count = MaxCount

\* The permits that are held: the k-th that t has acquired and not released.
Permits == {p \in Thread \X (1..MaxCount) : p[2] <= holding[p[1]]}

\* As long as threads release only what they hold, they never hold more than
\* MaxCount permits together (mutual exclusion for a mutex), however the timer
\* interleaves them.
PermitBound ==
  ~stray => Cardinality(Permits) <= MaxCount

\* A thread blocked on the semaphore can still be found: unless it is ready
\* or running again, it is in the ring release_semaphore takes waiters from.
NoWaiterStranded ==
  \A t \in Thread :
    state[t] = "WAITING_FOR_LOCK" /\ call[Current] # "release"
      => Linked(t, "waiting")
=============================================================================
