----------------------------- MODULE MCInterrupts -----------------------------
(* The kernel's entries for TLC, and the numbers and texts that it prints.    *)
EXTENDS Interrupts

\* Zero, one digit and more, a carry in either base, and what is negative.
ArgumentMC == {0, 7, 10, 31, -1, -32}

TextMC == {<<"one", "two">>}
=============================================================================
