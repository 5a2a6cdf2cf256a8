---------------------- MODULE MCRollingFeatureEngine -----------------------
(* Instances of RollingFeatureEngine: see the .cfg files for the threads.  *)
EXTENDS RollingFeatureEngine, TLC

\* Ingesting threads are interchangeable, and so are entities and merchants.
Symmetry == Permutations(Ingesters) \cup Permutations(Entities)
=============================================================================
