--------------------------- MODULE MCCredentials ----------------------------
(* Values of the constants of Credentials for TLC. *)
EXTENDS Credentials, TLC

CONSTANTS k1, k2, p1, p2

ModelKeys == {k1, k2}
ModelPasswords == {p1, p2}
ModelStyles == {"none", "block", "decoy"}

\* keys, and passwords, are interchangeable
NameSymmetry == Permutations(ModelKeys) \union Permutations(ModelPasswords)
=============================================================================
