---------------------------- MODULE LosslessFeed ----------------------------
(***************************************************************************)
(* What a lossless feed into a log promises: items are accepted in an order  *)
(* and reach the log in that order, each at least once.  Only an item that   *)
(* the log refused, with an error, may be overtaken.                         *)
(***************************************************************************)
EXTENDS Naturals

VARIABLES accepted,      \* how many items were accepted; item n is the n-th
          delivered,     \* the items that are in the log
          refused        \* the items that the log once refused

Init == accepted = 0 /\ delivered = {} /\ refused = {}

Accept ==
    /\ accepted' = accepted + 1
    /\ UNCHANGED <<delivered, refused>>

Deliver ==
    /\ \E n \in 1..accepted \ delivered :
           /\ 1..(n - 1) \subseteq delivered \cup refused
           /\ delivered' = delivered \cup {n}
    /\ UNCHANGED <<accepted, refused>>

Refuse ==
    /\ \E n \in 1..accepted : refused' = refused \cup {n}
    /\ UNCHANGED <<accepted, delivered>>

Spec == Init /\ [][Accept \/ Deliver \/ Refuse]_<<accepted, delivered, refused>>
=============================================================================
