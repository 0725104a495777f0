----------------------------- MODULE MCEventStream -----------------------------
EXTENDS EventStreamProps, TLC

ConsumerSymmetry == Permutations(Consumers)
=============================================================================
