-------------------------- MODULE MCPublishJournal --------------------------
EXTENDS PublishJournal, TLC

Symmetry == Permutations(Tokens)
=============================================================================
