------------------------------ MODULE MCLogin ------------------------------
(* Instances of Login for TLC. *)
EXTENDS Login, TLC

Symmetry ==
  Permutations(Person) \cup Permutations(Attempt) \cup Permutations(Account)
    \cup Permutations(Code) \cup Permutations(Session) \cup Permutations(Call)
=============================================================================
