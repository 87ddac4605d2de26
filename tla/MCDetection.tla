------------------------------ MODULE MCDetection ------------------------------
(* Two pages of two posts, and a fifth post that comes later.  A file, an  *)
(* embedded image and a link are in two posts each; one of the link's      *)
(* posts is filtered out, one of the image's and one of another link's are *)
(* in the list without their content.                                      *)
EXTENDS Detection, TLC

CONSTANTS A, B, C, D,   \* hashes
          drive, mega   \* identities

MCPosts == 1..5
MCFiles == <<{A}, {A}, {C}, {D}, {}>>
MCEmbeds == <<{}, {B}, {B}, {}, {}>>
MCLinks == <<{drive}, {mega}, {}, {drive}, {mega}>>
MCTruncated == {2, 5}
MCWanted == {1, 2, 3, 5}
MCFirstPosts == <<4, 3, 2, 1>>
=============================================================================
