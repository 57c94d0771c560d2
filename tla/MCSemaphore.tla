----------------------------- MODULE MCSemaphore -----------------------------
(* Small instances of the semaphore for TLC.                                *)
EXTENDS Semaphore

CONSTANTS a, b, c

BootAll == <<a, b, c>>

\* Every task acquires and releases; one also sleeps while it holds a permit.
CallsPermits == [t \in Task |->
  IF t = a THEN {"acquire", "release", "sleep"} ELSE {"acquire", "release"}]

CallsLive == [t \in Task |->
  CASE t = a -> {"acquire", "exit"}
    [] t = b -> {"acquire", "release"}
    [] OTHER -> {"acquire", "release", "sleep"}]
=============================================================================
