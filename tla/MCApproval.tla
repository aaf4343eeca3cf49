----------------------------- MODULE MCApproval -----------------------------
EXTENDS Approval, TLC
Symmetry == Permutations(Actions) \union Permutations(Requests)
=============================================================================
