----------------------------- MODULE MCImports -----------------------------
(***************************************************************************)
(* A folder whose files make two albums, with the same bytes in both; and  *)
(* a folder of two files too large for one batch, with a loose file.       *)
(***************************************************************************)
EXTENDS Imports

CONSTANTS x1, x2, x3

MCSize == [f \in Files |-> IF f = x1 THEN 1 ELSE 2]
MCPlans ==
  {<<[titled |-> TRUE, files |-> <<x1, x2, x1>>]>>,
   <<[titled |-> TRUE, files |-> <<x2, x3>>], [titled |-> FALSE, files |-> <<x1>>]>>}
=============================================================================
