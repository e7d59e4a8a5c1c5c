----------------------------- MODULE ChunkArray -----------------------------
(***************************************************************************)
(* The sizes of the pool and of the collector's chunk array                *)
(* (src/snek-memory.c), which the heap and the search of the array share.  *)
(***************************************************************************)
EXTENDS Integers

CONSTANTS
  Pool,       \* SNEK_POOL, in words: offsets are below it
  NChunk      \* SNEK_NCHUNK

ASSUME PoolAssumption  == Pool \in Nat \ {0}
ASSUME ChunkAssumption == NChunk \in Nat \ {0}
=============================================================================
