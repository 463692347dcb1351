------------------------------- MODULE MCPool ---------------------------------
(* Model checking of PoolAllocator: a pool of room for up to seven blocks.   *)
EXTENDS PoolAllocator
=============================================================================
