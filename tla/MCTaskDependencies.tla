------------------------- MODULE MCTaskDependencies -------------------------
EXTENDS TaskDependencies, TLC

Symmetry == Permutations(Tasks) \union Permutations(Requests)
\* Nothing is claimed of what follows a race: it is not explored.
NotRaced == ~raced
=============================================================================
