---------------------------- MODULE CatalogIndex ----------------------------
(***************************************************************************)
(* What the catalog promises about publication (docs/ARCHITECTURE.md,      *)
(* "Publication semantics"), apart from how it is done: one snapshot per   *)
(* participant, replaced as a whole, by pushes that each end accepted,     *)
(* refused or failed.  A refused push never reaches the index.  A failed   *)
(* one (an error of the store, or no answer at all) may have reached it,   *)
(* or may still.  Publication.tla is shown to implement this module.       *)
(***************************************************************************)
CONSTANTS
    Id,      \* participant identifiers, as the pushes spell them
    Push,    \* pushes, each with a snapshot of its own
    Author,  \* who sends each push
    NoPush   \* the snapshot of a participant that never published

VARIABLES
    index,    \* the snapshot each participant's graph holds
    applied,  \* the pushes whose snapshot reached the index
    verdict,  \* what became of each push
    latest    \* history: the push last accepted for each participant

vars == <<index, applied, verdict, latest>>

Init ==
    /\ index = [i \in Id |-> NoPush]
    /\ applied = {}
    /\ verdict = [p \in Push |-> "open"]
    /\ latest = [i \in Id |-> NoPush]

\* The snapshot replaces its author's, at most once, in one step.
Apply(p) ==
    /\ verdict[p] \in {"open", "failed"}
    /\ p \notin applied
    /\ applied' = applied \cup {p}
    /\ index' = [index EXCEPT ![Author[p]] = p]
    /\ UNCHANGED <<verdict, latest>>

\* Whether i's graph shows p, or a push that failed and landed over it.
Shows(i, p) == index[i] = p \/ (index[i] \in Push /\ verdict[index[i]] = "failed")

Accept(p) ==
    /\ verdict[p] = "open"
    /\ p \in applied
    /\ Shows(Author[p], p)
    /\ verdict' = [verdict EXCEPT ![p] = "accepted"]
    /\ latest' = [latest EXCEPT ![Author[p]] = p]
    /\ UNCHANGED <<index, applied>>

Refuse(p) ==
    /\ verdict[p] = "open"
    /\ p \notin applied
    /\ verdict' = [verdict EXCEPT ![p] = "refused"]
    /\ UNCHANGED <<index, applied, latest>>

\* A push fails alone, or a crash takes every push in flight.
Fail(S) ==
    /\ \A p \in S : verdict[p] = "open"
    /\ verdict' = [p \in Push |-> IF p \in S THEN "failed" ELSE verdict[p]]
    /\ UNCHANGED <<index, applied, latest>>

Next ==
    \/ \E p \in Push : Apply(p) \/ Accept(p) \/ Refuse(p)
    \/ \E S \in SUBSET Push : Fail(S)

Spec == Init /\ [][Next]_vars

-----------------------------------------------------------------------------
(* A participant's graph holds a snapshot of its own that reached the      *)
(* store and was not refused, and never an accepted snapshot other than    *)
(* the last one accepted ("last-committed-write semantics").               *)
LatestAcceptedShown ==
    \A i \in Id :
        /\ index[i] # NoPush =>
              /\ Author[index[i]] = i
              /\ index[i] \in applied
              /\ verdict[index[i]] # "refused"
              /\ verdict[index[i]] = "accepted" => index[i] = latest[i]
        /\ index[i] = NoPush => latest[i] = NoPush
=============================================================================
