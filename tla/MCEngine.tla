----------------------------- MODULE MCEngine -----------------------------
(* A small instance of Engine. *)
EXTENDS Engine
CONSTANTS k1, k2, w1, w2
MCBatches == {{k1, k2}, {k1}}
MCBatch == {{k1}}
=============================================================================
