--------------------------- MODULE MCMessageStore ---------------------------
EXTENDS MessageStore, TLC

\* Message ids are interchangeable.
Symmetry == Permutations(Msgs)
=============================================================================
