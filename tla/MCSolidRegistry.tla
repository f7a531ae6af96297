--------------------------- MODULE MCSolidRegistry ---------------------------
(* Instances of SolidRegistry for TLC. *)
EXTENDS SolidRegistry, TLC

CONSTANTS alice, blank

\* One member under two spellings would only repeat a check; a blank identifier
\* takes the early return.
MCNormal == [i \in Id |-> IF i = blank THEN NoWebId ELSE i]
=============================================================================
