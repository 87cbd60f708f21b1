---------------------------- MODULE MCAnalytics ----------------------------
EXTENDS Analytics

\* Two contracts of consecutive events.
MCEventOf == [m \in Markets |-> IF m = "m" THEN 1 ELSE 2]
MCMaxAge == [i \in Inputs |-> 1]
=============================================================================
