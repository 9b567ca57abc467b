-------------------------- MODULE MCAccountingRuns --------------------------
\* Instances of AccountingRuns: processes of a kind are interchangeable.
EXTENDS AccountingRuns, TLC

Processes == Permutations(Rebuilders) \cup Permutations(Cleaners)
=============================================================================
