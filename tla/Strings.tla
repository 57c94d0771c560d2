-------------------------------- MODULE Strings -------------------------------
(* What the functions of libc/string that the kernel uses return or leave in   *)
(* their destination.  A string is an array of bytes with a zero in it.        *)
EXTENDS Integers, Sequences, FiniteSetsExt

Byte == 0..255

strlen(str) == Min({i \in 1..Len(str) : str[i] = 0}) - 1

memcmp(a, b, size) ==
  IF \A i \in 1..size : a[i] = b[i] THEN 0
  ELSE LET first == CHOOSE i \in 1..size :
                      a[i] # b[i] /\ \A j \in 1..(i - 1) : a[j] = b[j]
       IN  IF a[first] < b[first] THEN -1 ELSE 1

memset(value, size) == [i \in 1..size |-> value]

memcpy(dst, src, size) == [i \in DOMAIN dst |-> IF i <= size THEN src[i] ELSE dst[i]]
===============================================================================
