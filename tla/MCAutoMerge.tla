---------------------------- MODULE MCAutoMerge -----------------------------
(* An instance of AutoMerge for TLC. *)
EXTENDS AutoMerge

\* The first of three commits on the branch breaks a Makefile, the second mends it
\* and the third breaks it again.
SecondIsGood == {2}
=============================================================================
