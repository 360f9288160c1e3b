-------------------------- MODULE MCKnowledgeIndex --------------------------
EXTENDS KnowledgeIndex, TLC
Symmetry == Permutations(Pages) \cup Permutations(Crawls) \cup Permutations(Edits)
=============================================================================
