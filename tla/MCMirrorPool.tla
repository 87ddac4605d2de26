----------------------------- MODULE MCMirrorPool -----------------------------
(* Two creators: one with four files for two workers, one with two. *)
EXTENDS MirrorPool

CONSTANTS a1, a2, a3, a4, b1, b2

MCFiles == {a1, a2, a3, a4, b1, b2}
MCBatches == <<<<a1, a2, a3, a4>>, <<b1, b2>>>>
=============================================================================
