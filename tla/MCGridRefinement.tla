-------------------------- MODULE MCGridRefinement --------------------------
(* Instances of GridRefinement for TLC: profiles that agree, contract fast *)
(* or slowly from either side, drift apart, or do not contract, and        *)
(* rotations on both sides of the half turn.                               *)
EXTENDS GridRefinement

Profiles == [SCALAR |-> {<<0, 0, 0>>, <<-12, 0, 8>>, <<0, 1, 0>>, <<30, 24, 22>>, <<0, 1, 9>>},
             ORIENTATION |-> {<<0, 0, 0>>, <<39, 5, 1>>, <<22, 17, 14>>, <<0, 1, 9>>}]
SomeTolerances == {3, 24, 54}
SomeShifts == -6 .. 6
=============================================================================
