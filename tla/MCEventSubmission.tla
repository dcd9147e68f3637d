------------------------ MODULE MCEventSubmission ------------------------
EXTENDS EventSubmission, TLC

\* No operation tells one agent, one event or one call from another.
Symmetric == Permutations(Agents) \cup Permutations(Calls)

==========================================================================
