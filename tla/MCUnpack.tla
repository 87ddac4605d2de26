-------------------------------- MODULE MCUnpack --------------------------------
(* Two Mega links to the same archive, whose password is in the text of    *)
(* one post only, and a third one whose password kemono knows, with a      *)
(* space in it that conf.read strips.                                      *)
EXTENDS Unpack

CONSTANTS link1, link2, link3,  \* archives
          Twice, Once,          \* contents
          X, Y, PaddedY         \* passwords

MCArchives == {link1, link2, link3}
MCContent == (link1 :> Twice) @@ (link2 :> Twice) @@ (link3 :> Once)
MCMembers == (Twice :> 2) @@ (Once :> 1)
MCPasswords == {Blank, X, Y, PaddedY}
MCOpens == (Twice :> {X}) @@ (Once :> {PaddedY})
MCApi == (Twice :> Absent) @@ (Once :> PaddedY)
MCScraped == (link1 :> X) @@ (link2 :> Absent) @@ (link3 :> Absent)
MCTrim == [p \in MCPasswords |-> IF p = PaddedY THEN Y ELSE p]

Symmetry == Permutations(Workers)
=============================================================================
