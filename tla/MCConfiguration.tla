-------------------------- MODULE MCConfiguration --------------------------
(* Configuration with at most two edits; a field of the contract goes      *)
(* missing, or becomes a flag, which float() and int() read as a number.   *)
EXTENDS Configuration
=============================================================================
