------------------------------ MODULE MCBroker ------------------------------
EXTENDS Broker, TLC

Symmetry == Permutations(JobIds) \cup Permutations(Keys)
              \cup Permutations(Conns) \cup Permutations(TimerIds)
=============================================================================
