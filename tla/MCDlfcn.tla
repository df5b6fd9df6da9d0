------------------------------ MODULE MCDlfcn ------------------------------
(* Dlfcn for TLC: what the heap memory of a new handle may hold *)
EXTENDS Dlfcn

UsedHeap == {NULL} \cup Blocks    \* stale pointers of handles deleted before
=============================================================================
