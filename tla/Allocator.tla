----------------------------- MODULE Allocator -------------------------------
(***************************************************************************)
(* What the callers of kmalloc and kfree rely on: a block that is handed   *)
(* out lies inside memory the heap owns and touches no other block, stays  *)
(* where it is until it is freed, and freeing it ends no other block.      *)
(***************************************************************************)
EXTENDS Integers

VARIABLES
  blocks,   \* the blocks in use: a region, and the bytes lo .. hi-1 of it
  extent    \* extent[r]: bytes of region r, 0 while the heap does not own it

vars == <<blocks, extent>>

Disjoint(b, c) == b.region # c.region \/ b.hi <= c.lo \/ c.hi <= b.lo

Init == /\ blocks = {}
        /\ extent \in [DOMAIN extent -> {0}]

\* A region that was not owned may be taken for the new block, no other may
\* change.
Alloc ==
  \E b \in blocks' \ blocks :
    /\ blocks' = blocks \cup {b}
    /\ \A c \in blocks : Disjoint(b, c)
    /\ 0 <= b.lo /\ b.lo < b.hi /\ b.hi <= extent'[b.region]
    /\ \E bytes \in {extent'[b.region]} : extent' = [extent EXCEPT ![b.region] = bytes]
    /\ extent[b.region] \in {0, extent'[b.region]}

\* The region goes with its last block.
Free ==
  \E b \in blocks :
    /\ blocks' = blocks \ {b}
    /\ extent' = IF \E c \in blocks' : c.region = b.region
                 THEN extent
                 ELSE [extent EXCEPT ![b.region] = 0]

Spec == Init /\ [][Alloc \/ Free]_vars
=============================================================================
