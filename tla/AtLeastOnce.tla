---------------------------- MODULE AtLeastOnce ----------------------------
(***************************************************************************)
(* What an archive of a stream promises: an entry is acknowledged only once *)
(* it is stored, and removed from the stream only once it is acknowledged;  *)
(* none of the three is ever undone.                                        *)
(***************************************************************************)
EXTENDS Naturals

CONSTANT Items

VARIABLES stored, acked, removed

Init == stored \in SUBSET Items /\ acked = {} /\ removed = {}

Store ==
    /\ stored' \in SUBSET Items /\ stored \subseteq stored'
    /\ UNCHANGED <<acked, removed>>

Ack ==
    /\ acked' \in SUBSET stored /\ acked \subseteq acked'
    /\ UNCHANGED <<stored, removed>>

Remove ==
    /\ removed' \in SUBSET acked /\ removed \subseteq removed'
    /\ UNCHANGED <<stored, acked>>

Spec == Init /\ [][Store \/ Ack \/ Remove]_<<stored, acked, removed>>
=============================================================================
