------------------------------ MODULE MCLibrary ------------------------------
(* Two attachments: an archive that is re-uploaded with one entry changed, *)
(* and a second one that is an archive, or a picture which is also in it.  *)
EXTENDS Library, TLC

CONSTANTS zip, zip2, img,           \* paths
          Z1, Z2, Y, A, B, U        \* contents

MCItems == 1..4
MCPaths == {zip, zip2, img}
MCPathOf == <<zip, zip, zip2, img>>
MCHashOf == <<Z1, Z2, Y, A>>
MCEntries == <<<<A, U>>, <<A, B>>, <<B>>, <<>>>>
MCArchives == {1, 2, 3}
MCHashes == {Z1, Z2, Y, A, B, U}
MCUnwanted == {U}

(* The shipped defaults, the opposite of both, an empty ALLOWED_EXTENSIONS. *)
MCDefaults == {[keepUnpacked |-> TRUE, keepFailed |-> FALSE, anyExtension |-> FALSE]}
MCConfigs == MCDefaults \cup
  {[keepUnpacked |-> FALSE, keepFailed |-> TRUE, anyExtension |-> FALSE],
   [keepUnpacked |-> TRUE, keepFailed |-> FALSE, anyExtension |-> TRUE]}

Symmetry == Permutations(Workers)
=============================================================================
