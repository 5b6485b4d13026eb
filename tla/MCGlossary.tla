---------------------------- MODULE MCGlossary ----------------------------
(* One suggestion, of a spelling the mining may find too; the threads are  *)
(* interchangeable.                                                        *)
EXTENDS Glossary, TLC

CONSTANTS w1, w2
Suggested == {<<w1, Term>>}
Interchangeable == Permutations(Threads)
=============================================================================
