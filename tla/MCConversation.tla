--------------------------- MODULE MCConversation ---------------------------
EXTENDS Conversation, TLC
Symmetry == Permutations(Requests) \cup Permutations(Editors) \cup Permutations(Experiments)
=============================================================================
