---------------------------- MODULE MCLocalStore ----------------------------
EXTENDS LocalStore, TLC

CONSTANT dir

MCParent == [k \in Key |-> dir]

MCSymmetry == Permutations(Faulty) \cup Permutations(Data)

=============================================================================
