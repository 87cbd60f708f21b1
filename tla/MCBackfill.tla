---- MODULE MCBackfill ----
EXTENDS Backfill

\* Every object of two hours but the books of the second.
MCArchived == {<<"trades", 1>>, <<"books", 1>>, <<"trades", 2>>}

\* A backfill of everything.
MCModes == {<<"resample", "features", "targets">>}

\* One of the CronJobs is at an hour of the range.
MCScheduled == {<<1, "resample">>, <<2, "features">>}
====
