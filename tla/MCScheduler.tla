----------------------------- MODULE MCScheduler -----------------------------
(* Small instances of the scheduler for TLC.                                *)
EXTENDS Scheduler

CONSTANTS a, b, c

BootAll == <<a, b, c>>

\* The services of the workload work() of kernel.c, without the semaphore; one
\* task may also terminate, another fork a free TCB.
CallsBlocking == [t \in Task |->
  {"sleep", "pause", "unblock", "section"}
    \cup (CASE t = a -> {"exit"} [] t = b -> {"fork"} [] OTHER -> {})]
=============================================================================
