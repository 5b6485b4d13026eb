------------------------ MODULE MCRequirementLinks ------------------------
(* Requirements there at the start, and projects, are interchangeable.    *)
EXTENDS RequirementLinks, TLC

Interchangeable == Permutations(First) \cup Permutations(Projects)
=============================================================================
