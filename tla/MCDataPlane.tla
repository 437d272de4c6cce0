----------------------------- MODULE MCDataPlane -----------------------------
(***************************************************************************)
(* Instances of the data plane for TLC.                                    *)
(***************************************************************************)
EXTENDS DataPlane, TLC

CPUSymmetry == Permutations(CPUs)
=============================================================================
