------------------------------ MODULE MCAtPort ------------------------------
(* Instances of AtPort for TLC: the constants are in the .cfg files. *)
EXTENDS AtPort
=============================================================================
