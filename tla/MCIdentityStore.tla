--------------------------- MODULE MCIdentityStore ---------------------------
(* Two pages of one origin and three calls, two of them beside one another, *)
(* one of each kind without the lock, and one fault or reload.              *)
EXTENDS IdentityStore, TLC

CONSTANTS t1, t2

MCSymmetry == Permutations(Tab)

=============================================================================
