----------------------------- MODULE MCMembership -----------------------------
(* Membership for TLC: users and requests are interchangeable.              *)
EXTENDS Membership, TLC

Symmetry == Permutations(Users) \cup Permutations(Requests)

===============================================================================
