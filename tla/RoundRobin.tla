------------------------------ MODULE RoundRobin -----------------------------
(***************************************************************************)
(* What the scheduler of task.c promises: one CPU is handed round a FIFO   *)
(* queue of threads, and an idle thread has it when the queue is empty.    *)
(* Why a thread leaves or joins the queue is left open.                    *)
(***************************************************************************)
EXTENDS Sequences, Naturals

CONSTANTS Thread, Idle

VARIABLES running, queue

rrVars == <<running, queue>>

Queued(t) == \E i \in 1..Len(queue) : queue[i] = t

Init == /\ running = Idle
        /\ queue \in Seq(Thread \ {Idle})
        /\ \A i, j \in 1..Len(queue) : queue[i] = queue[j] => i = j

\* A thread becomes ready: it joins at the tail.
Arrive == /\ \E t \in Thread \ {Idle, running} :
               ~Queued(t) /\ queue' = Append(queue, t)
          /\ UNCHANGED running

\* The running thread's turn is over: it joins at the tail, the head runs.
Preempt == /\ queue # << >> /\ running # Idle
           /\ running' = Head(queue)
           /\ queue' = Append(Tail(queue), running)

\* The running thread blocks, or the idle thread gives way: the head runs.
GiveWay == /\ queue # << >>
           /\ running' = Head(queue)
           /\ queue' = Tail(queue)

\* The running thread blocks and no thread is ready.
GoIdle == /\ queue = << >> /\ running # Idle
          /\ running' = Idle
          /\ UNCHANGED queue

Next == Arrive \/ Preempt \/ GiveWay \/ GoIdle

Spec == Init /\ [][Next]_rrVars /\ WF_rrVars(Preempt \/ GiveWay)
=============================================================================
