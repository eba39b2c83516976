--------------------------- MODULE MCAccountStore ---------------------------
(* AccountStore with two sign-ins on one device. *)
EXTENDS AccountStore, TLC

Shared == [f \in Families |-> CHOOSE d \in Devices : TRUE]

FamilySymmetry == Permutations(Families)
=============================================================================
