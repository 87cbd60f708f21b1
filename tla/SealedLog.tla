----------------------------- MODULE SealedLog -----------------------------
(***************************************************************************)
(* What a producer of per-bucket rows promises its readers: buckets are     *)
(* sealed in time order, a sealed bucket never changes, and the row stream  *)
(* holds each bucket at most once, in the same order.                       *)
(***************************************************************************)
EXTENDS Integers, Sequences

CONSTANTS Buckets,  \* bucket starts
          Items     \* what a bucket is made of

VARIABLES sealed,   \* the sealed buckets with their items
          rows      \* the published ones, in the order of publication

Sealed == [bucket: Buckets, bars: SUBSET Items]

Init == sealed = {} /\ rows = <<>>

\* Seals one or more later buckets at once; the latest of them may be published.
Seal ==
    /\ sealed' \in SUBSET Sealed /\ sealed \subseteq sealed'
    /\ LET new == sealed' \ sealed
       IN /\ \A d \in new, e \in sealed : e.bucket < d.bucket
          /\ \A d, e \in new : d.bucket = e.bucket => d = e
          /\ \/ rows' = rows
             \/ \E d \in new : /\ \A e \in new : e.bucket <= d.bucket
                               /\ rows' = Append(rows, d)

Spec == Init /\ [][Seal]_<<sealed, rows>>
=============================================================================
