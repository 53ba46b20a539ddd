----------------------------- MODULE MCTsStream -----------------------------
EXTENDS TsStream, TLC

Symmetry == Permutations(Transfers) \cup Permutations(EventThreads)

Everything == {"tune", "stop", "filter", "start"}
All == Everything \cup {"query"}
WithStart  == {"tune", "start", "stop"}
OnlyTune   == {"tune", "stop"}
=============================================================================
