---------------------------- MODULE MCImageStore ----------------------------
(***************************************************************************)
(* Instances of ImageStore for TLC: two uploads and one image from before, *)
(* which is both one-shot and expiring, so that its three ways to die race.*)
(* The two uploads offer the same bytes, so they also race as duplicates.  *)
(***************************************************************************)
EXTENDS ImageStore, FiniteSetsExt, TLC

CONSTANTS old, a, b, u1, r1, r2

SizeOf(i) == IF i = old THEN 2 ELSE 1
MCBytes == [S \in SUBSET Images |-> MapThenSumSet(SizeOf, S)]
MCSHA256 == [i \in Images |-> IF i = old THEN "h1" ELSE "h2"]
MCLegacyOwner == [i \in Legacy |-> u1]
MCQuotas == {[images |-> 2, bytes |-> 4], [images |-> 3, bytes |-> 3]}
OneQuota == {[images |-> 2, bytes |-> 4]}
\* The removers are alike, and so are the uploads.
Symmetry == {p @@ q : p \in Permutations({r1, r2}), q \in Permutations({a, b})}
=============================================================================
