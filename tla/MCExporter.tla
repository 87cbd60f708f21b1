----------------------------- MODULE MCExporter -----------------------------
EXTENDS Exporter, TLC

\* The workers are interchangeable; the run's properties name none.
MCSymmetry == Permutations(Workers)
=============================================================================
