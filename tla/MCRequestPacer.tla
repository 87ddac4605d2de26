---------------------------- MODULE MCRequestPacer ----------------------------
(* Two threads, the two loops with two attempts and one, slots two ticks apart. *)
EXTENDS RequestPacer

MCMaxAttempts == [k \in Kinds |-> IF k = "read" THEN 2 ELSE 1]
=============================================================================
