--------------------------- MODULE MCLocalStorage ---------------------------
(***************************************************************************)
(* Each upload has a path of its own; all thumbnails are of one image and  *)
(* write the same path.                                                    *)
(***************************************************************************)
EXTENDS LocalStorage, TLC

CONSTANT thumb

MCPath == [j \in Jobs |-> <<"object", IF j \in Thumbs THEN thumb ELSE j>>]

Symmetry == Permutations(Uploads) \cup Permutations(Thumbs)
=============================================================================
