---------------------------- MODULE MCSimulator -----------------------------
(***************************************************************************)
(* Values of the constants of Simulator that a .cfg cannot write down. The *)
(* signers are interchangeable: no action and no property tells them apart.*)
(***************************************************************************)
EXTENDS SimulatorProps

CONSTANTS s1, s2  \* signers

SignerSymmetry == Permutations(Signers)
=============================================================================
