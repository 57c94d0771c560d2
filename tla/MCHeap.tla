------------------------------- MODULE MCHeap --------------------------------
(* Small instance of the heap for TLC.                                      *)
EXTENDS Heap

\* Sizes on both sides of a class, of a split and of a page: the last but one
\* needs two pages for the chunks around it, the last one two for itself.
MixedSizes == {20, 100, 232, 420, 800}
=============================================================================
