--------------------------- MODULE MCAvailability ---------------------------
(* An instance of Availability for TLC. *)
EXTENDS Availability, TLC

CONSTANTS r1, r2

\* Unset or no number; negative; short.
MCRawWait == {[isNumber |-> FALSE, value |-> 0],
               [isNumber |-> TRUE, value |-> -1], [isNumber |-> TRUE, value |-> 1]}
=============================================================================
