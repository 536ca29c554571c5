--------------------------- MODULE MCStakeProgram ---------------------------
(***************************************************************************)
(* The program with any set of signers for each instruction, for TLC.      *)
(***************************************************************************)
EXTENDS StakeProperties, MCValues

=============================================================================
