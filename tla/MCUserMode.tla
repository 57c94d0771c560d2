------------------------------ MODULE MCUserMode -----------------------------
(* The workload of kernel_main for TLC: init_fs ends in a loop, test_elf      *)
(* sleeps and becomes the shell in ring 3, which forks.                       *)
EXTENDS UserMode, TLC

CONSTANTS a, b, c, x, y, g

\* The characters are alike.
Keys == Permutations({x, y})

BootTwo == <<a, b>>

CallsShell == [t \in Task |->
  IF t = b THEN {"sleep", "fork"} \cup Started(shell \cup hello) ELSE {}]
=============================================================================
