----------------------------- MODULE MCChunkLog -----------------------------
(***************************************************************************)
(* ChunkLog on a device of three chunks, in two geometries: two purges of  *)
(* two blocks and a control, or three purges of one block and a control.   *)
(* Chunk 0 has one purge less, as in the driver.  WEIGHT_LIFE outweighs    *)
(* WEIGHT_SPEED, so that the log prefers a chunk that is not empty and has *)
(* to relocate its blocks.                                                 *)
(***************************************************************************)
EXTENDS ChunkLog

OnlyWrites   == {"full"}
WholeBlocks  == {"full", "flush"}
PartialKinds == {"head", "tail", "inner", "flush", "final"}
WholeFinal   == {"full", "final"}
=============================================================================
