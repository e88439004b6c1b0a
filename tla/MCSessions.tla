----------------------------- MODULE MCSessions -----------------------------
(* Instances of Sessions for TLC. *)
EXTENDS Sessions, TLC

Symmetry ==
  Permutations(Session) \cup Permutations(Account) \cup Permutations(Token)
    \cup Permutations(Call)
=============================================================================
