--------------------------- MODULE MCDotfilesSync ---------------------------
(* Values of the constants of DotfilesSync for TLC. *)
EXTENDS DotfilesSync

CONSTANTS laptop, desktop, zshrc, pacman_conf

ModelMachines == {laptop, desktop}
ModelFiles == {zshrc, pacman_conf}
ModelSensitive == {pacman_conf}

\* the machines are interchangeable
MachineSymmetry == Permutations(ModelMachines)
=============================================================================
