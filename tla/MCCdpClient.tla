---------------------------- MODULE MCCdpClient -----------------------------
(* Instances of CdpClient for TLC.                                         *)
EXTENDS CdpClient, TLC

Symmetry == Permutations(Callers)
=============================================================================
