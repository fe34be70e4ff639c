------------------------------- MODULE MCDtls -------------------------------
(* Dtls for TLC: the constants are numbers, given in the configurations.   *)
EXTENDS Dtls
=============================================================================
