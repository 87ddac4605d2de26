---------------------------- MODULE MCExternalFiles ----------------------------
(* A creator with two Drive files; and one with a Drive file, a Mega       *)
(* folder of two files, one of them with a rounded size, and a link to a   *)
(* single file.                                                            *)
EXTENDS ExternalFiles

CONSTANTS g1, g2, h1, m1, m2, n1

MCDriveFiles == <<<<g1, g2>>, <<h1>>>>
MCLinksOf == <<{}, {"folder", "file"}>>
MCGroup == [l \in {"folder", "file"} |-> IF l = "folder" THEN {m1, m2} ELSE {n1}]
=============================================================================
