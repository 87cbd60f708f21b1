-------------------------------- MODULE Buckets --------------------------------
(***************************************************************************)
(* The buckets of event time that modules Aggregator and MarketViews share *)
(* (CANDLE_INTERVAL_MS and _bucket of services/aggregator).                *)
(***************************************************************************)
EXTENDS Integers

CONSTANT Interval   \* CANDLE_INTERVAL_MS

ASSUME IntervalOK == Interval \in Nat \ {0}

None == -1  \* Python's None for a time, a price or a bucket start; all are >= 0

Bucket(ts) == (ts \div Interval) * Interval
=============================================================================
