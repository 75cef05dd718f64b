-------------------------------- MODULE MCTx --------------------------------
(* Instances of SynccomTx for TLC: the faults considered, and the symmetry.  *)
EXTENDS SynccomTx, FiniteSets, TLC

\* A behaviour has one fault, and workers overlap only where it is not a purge:
\* a bound, to keep writes of several chunks within reach.
OneFault ==
    /\ bound.purges + bound.failures <= 1
    /\ bound.purges = 0 \/ Cardinality({w \in Workers : worker[w].pc # "idle"}) <= 1

\* The executions of the worker are interchangeable.
WorkerSymmetry == Permutations(Workers)

=============================================================================
