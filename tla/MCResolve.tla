----------------------------- MODULE MCResolve -----------------------------
(* Values of Resolve's constants: three definitions, each of which refers  *)
(* to nothing, to one, or to two; cycles of one, two and three, side by    *)
(* side and sharing a member.                                              *)
EXTENDS Resolve

MCBodies == {<<>>, <<0>>, <<1>>, <<2>>, <<3>>, <<0, 1>>, <<1, 2>>, <<2, 3>>, <<3, 1>>}
MCTopBodies == {<<>>, <<1>>, <<3, 2>>}
=============================================================================
