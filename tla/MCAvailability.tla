--------------------------- MODULE MCAvailability ---------------------------
(* Availability for model checking: one node, of either kind of source.    *)
EXTENDS Availability
=============================================================================
