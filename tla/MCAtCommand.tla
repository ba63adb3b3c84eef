---------------------------- MODULE MCAtCommand -----------------------------
(* An instance of AtCommand for TLC. *)
EXTENDS AtCommand

\* The answer to the first command has "OK" in its data.
FirstIsChatty == {1}
=============================================================================
