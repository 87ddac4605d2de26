----------------------------- MODULE MCKemonoFetch -----------------------------
(* A file of three blocks, three attempts, TEMP_DIR wiped at most once. *)
EXTENDS KemonoFetch
=============================================================================
