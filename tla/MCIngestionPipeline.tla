------------------------ MODULE MCIngestionPipeline ------------------------
EXTENDS IngestionPipeline, TLC

\* The keys are interchangeable; no property names one.
MCSymmetry == Permutations(Keys)
=============================================================================
