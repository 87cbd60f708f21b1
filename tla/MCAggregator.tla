---------------------------- MODULE MCAggregator ----------------------------
EXTENDS Aggregator

\* A bucket is 2 units (10 s) and the lateness 1 (5 s).  A trade at 3 closes
\* bucket 0, one at 5 closes bucket 2, and one at 0 is late after either.
MCThreeTimes == {0, 3, 5}
MCZero == {0}
=============================================================================
