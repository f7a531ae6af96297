-------------------------- MODULE MCSparqlEndpoint --------------------------
(* An instance of SparqlEndpoint for TLC. *)
EXTENDS SparqlEndpoint, TLC

CONSTANTS q1, q2, q3

\* The words SELECT, LIMIT and "#" where they mean what they say and where not,
\* lines that end in one of the breaks or in both.
MCText == {
    <<"SELECT", "pattern", "LIMIT", "#", "word">>,
    <<"#", "SELECT", "\r", "\n", "PREFIX", "ex:", "<select>", "SELECT", "pattern">>,
    <<"PREFIX", "select:", "<iri>", "#", "ASK", "\n", "SELECT", "pattern", "LIMIT">>,
    <<"PREFIX", "select:", "<iri>", "ASK", "pattern">>,
    <<"#", "word", "\r", "SELECT", "word", "\n", "SELECT", "pattern">>,
    <<"#", "word", "\r", "SELECT", "word", "\n", "ASK", "pattern">>,
    <<"SELECT", "pattern", "SERVICE">>}
=============================================================================
