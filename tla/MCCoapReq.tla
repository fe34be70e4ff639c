----------------------------- MODULE MCCoapReq -----------------------------
(* Instances of CoapReq for TLC.                                           *)
EXTENDS CoapReq, TLC

\* No payload; just one block; two full blocks; three, the last one partial.
MCBodySizes == {Nil, 2, 4, 5}
MCRespBlocks == {0, 3}
MCMid == 1 .. 5
\* @mid = nil
MCNoMid == 0
=============================================================================
