---------------------------- MODULE MCPublication ----------------------------
(* Instances of Publication for TLC. *)
EXTENDS Publication, TLC

CONSTANTS
    alice,       \* a WebID, and its plain spelling
    ALICE,       \* the same WebID with its host in capitals
    bob,         \* another WebID
    a1, a2, s1, b1

\* Under a contract that lowers scheme and host.
MCNormal == [i \in Id |-> IF i = ALICE THEN alice ELSE i]

MCAuthor == [p \in Push |-> CASE p = s1 -> ALICE
                              [] p = b1 -> bob
                              [] OTHER -> alice]

=============================================================================
