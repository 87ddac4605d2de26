------------------------------ MODULE MCReconcile ------------------------------
(* An archive, a picture that is in the archive too, and an external file.  *)
EXTENDS Reconcile, TLC

CONSTANTS zip, img,  \* paths
          Z, A,      \* contents
          drive      \* the identity of an external file

MCItems == 1..2
MCPaths == {zip, img}
MCPathOf == <<zip, img>>
MCHashOf == <<Z, A>>
MCEntries == <<<<A>>, <<>>>>
MCArchives == {1}
MCHashes == {Z, A}
(* Archives go once they are unpacked, or when that fails. *)
MCConfigs == {[keepUnpacked |-> FALSE, keepFailed |-> FALSE, anyExtension |-> FALSE]}
=============================================================================
