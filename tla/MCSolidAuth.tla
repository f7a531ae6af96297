----------------------------- MODULE MCSolidAuth -----------------------------
(* An instance of SolidAuth for TLC. *)
EXTENDS SolidAuth, TLC

CONSTANTS
    early, \* a proof issued at -1, before the process started
    again, \* a proof of the same id, issued at 0
    other, \* a proof of another id, issued at 0
    late   \* a third, issued at 1

MCIat == [p \in Proof |-> CASE p = early -> -1 [] p = late -> 1 [] OTHER -> 0]

MCJti == [p \in Proof |-> CASE p = other -> 2 [] p = late -> 3 [] OTHER -> 1]
=============================================================================
