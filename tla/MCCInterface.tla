----------------------------- MODULE MCCInterface -----------------------------
(***************************************************************************)
(* Instances of CInterface: buffers for two elements and one dimension,    *)
(* and tensors that fit both, one or none of them.                         *)
(***************************************************************************)
EXTENDS CInterface, TLC

Symmetry ==
  Permutations(DTypes) \cup Permutations(Values) \cup Permutations(Addresses)

SomeShapes == {<<2>>, <<3>>, <<1, 1>>}
=============================================================================
