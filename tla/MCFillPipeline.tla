--------------------------- MODULE MCFillPipeline ---------------------------
(* Instances of FillPipeline for TLC: the trades are interchangeable.        *)
EXTENDS FillPipeline, TLC

Symmetry == Permutations(Trades)
=============================================================================
