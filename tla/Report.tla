------------------------------- MODULE Report -------------------------------
(***************************************************************************)
(* What a reader of mqtt.c expects of a report: it is built, published,    *)
(* confirmed by the broker and then released, and the next one is built    *)
(* only after that.                                                        *)
(***************************************************************************)
VARIABLE phase  \* of the report at hand

Init == phase = "none"

Build   == phase = "none"      /\ phase' = "built"
Publish == phase = "built"     /\ phase' = "published"
Confirm == phase = "published" /\ phase' = "delivered"
Release == phase = "delivered" /\ phase' = "none"

Next == Build \/ Publish \/ Confirm \/ Release

InOrder == Init /\ [][Next]_phase

Spec == InOrder /\ WF_phase(Publish \/ Confirm \/ Release)
=============================================================================
