--------------------------- MODULE SparqlEndpoint ---------------------------
(***************************************************************************)
(* POST /sparql (catalog/modes/solid/sparql.py): bounded read access to    *)
(* the index.  The body is read on the event loop, chunk by chunk.  Then   *)
(* one of Slots slots is taken without waiting, and the query is prepared  *)
(* and executed on a thread of the pool.  The thread gives the slot back   *)
(* in a `finally`, before the event loop resumes the coroutine that        *)
(* answers; the two meet only in the result of the thread.                 *)
(*                                                                         *)
(* Sizes are counted in chunks.  The text of a query is a sequence of      *)
(* words: "#" opens a comment, "\n" and "\r" break lines, "open" and       *)
(* "close" are braces, "select:" is a prefix of that name, "LIMIT" a limit *)
(* the query has of its own, "MaxRows" the one that the endpoint adds,     *)
(* "\u" an escape.  The text has three readers: rdflib, which checks it;   *)
(* the pattern that locates its SELECT; and the index.  They do not end a  *)
(* comment at the same breaks.                                             *)
(***************************************************************************)
EXTENDS Integers, Sequences, FiniteSets

CONSTANTS
    Query,       \* requests to POST /sparql
    Text,        \* the queries they send
    Slots,       \* 2 in the code
    MaxBody,     \* SPARQL_MAX_REQUEST_BYTES
    MaxResponse  \* SPARQL_MAX_RESPONSE_BYTES

ASSUME SlotsAssumption == Slots \in Nat
ASSUME LimitsAssumption == MaxBody \in Nat /\ MaxResponse \in Nat
ASSUME TextAssumption == Text \subseteq Seq(STRING)
ASSUME QueryAssumption == IsFiniteSet(Query)

-----------------------------------------------------------------------------
(* prepare_query. *)

\* What ends a comment: for rdflib; for the pattern of line 28 and the index.
CheckerBreaks == {"\n"}
IndexBreaks == {"\n", "\r"}

\* A "#" opened a comment before i, and no break ended it since.
InComment(t, i, breaks) ==
    \E k \in 1 .. i - 1 : t[k] = "#" /\ \A m \in k .. i - 1 : t[m] \notin breaks

\* Where the words are that no comment hides.
Visible(t, breaks) ==
    {i \in DOMAIN t : t[i] \notin {"#", "\n", "\r"} /\ ~InComment(t, i, breaks)}

\* The nth of a set of positions.
Nth(S, n) == CHOOSE i \in S : Cardinality({k \in S : k <= i}) = n

\* The words that a parser sees.
Code(t, breaks) ==
    LET V == Visible(t, breaks) IN [n \in 1 .. Cardinality(V) |-> t[Nth(V, n)]]

First(S) == CHOOSE i \in S : \A k \in S : i <= k

Occurs(c, word) == {i \in DOMAIN c : c[i] = word}

Keywords(c) == {i \in DOMAIN c : c[i] \in {"SELECT", "ASK", "INSERT"}}

\* Declarations come first, names are declared before they are used, braces
\* balance.
Parses(t, breaks) ==
    LET c == Code(t, breaks)
    IN  /\ Keywords(c) # {}
        /\ \A i \in Occurs(c, "PREFIX") :
              /\ i + 2 <= Len(c)
              /\ c[i + 1] \in {"ex:", "select:"} /\ c[i + 2] \in {"<iri>", "<select>"}
              /\ \A k \in Keywords(c) : i < k
        /\ \A i \in Occurs(c, "ex:") \cup Occurs(c, "select:") :
              \E k \in 2 .. i : c[k] = c[i] /\ c[k - 1] = "PREFIX"
        /\ Cardinality(Occurs(c, "open")) = Cardinality(Occurs(c, "close"))

Form(t, breaks) == LET c == Code(t, breaks) IN c[First(Keywords(c))]

\* Lines 34-50, read by rdflib: a query of a form, and with clauses, that are
\* allowed.
Allowed(t) ==
    /\ Occurs(t, "\\u") = {}
    /\ Parses(t, CheckerBreaks)
    /\ Form(t, CheckerBreaks) \in {"SELECT", "ASK"}
    /\ \A word \in {"SERVICE", "FROM", "function"} :
          Occurs(Code(t, CheckerBreaks), word) = {}

\* Mutant of Start: _START does not skip comments.
StartAnywhere(t) == First({i \in DOMAIN t : t[i] \in {"SELECT", "select:"}})

\* Line 51: the first SELECT of the text outside of comments and IRIs, in any
\* case, as a word: the name of a prefix matches, too.
Start(t) ==
    First({i \in DOMAIN t : t[i] \in {"SELECT", "select:"} /\ ~InComment(t, i, IndexBreaks)})

Wrapped(t, s) ==
    SubSeq(t, 1, s - 1) \o <<"SELECT", "open", "\n">> \o SubSeq(t, s, Len(t))
        \o <<"\n", "close", "MaxRows">>

\* Mutant of Prepared: a query that has a limit of its own is let through.
PreparedUnlessLimited(t) ==
    IF Form(t, CheckerBreaks) = "ASK" \/ Occurs(t, "LIMIT") # {} THEN t ELSE Wrapped(t, Start(t))

Prepared(t) == IF Form(t, CheckerBreaks) = "ASK" THEN t ELSE Wrapped(t, Start(t))

-----------------------------------------------------------------------------
VARIABLES
    stage,   \* where each request is
    size,    \* chunks received: of its body, later of the index's answer
    text,    \* the query on the thread of each request
    free,    \* the value of the semaphore `slots`
    answer   \* the HTTP status of the answer, or of what the thread raised

vars == <<stage, size, text, free, answer>>

\* The request goes on to stage s, with what it held there let go.
Move(q, s) ==
    /\ stage' = [stage EXCEPT ![q] = s]
    /\ size' = [size EXCEPT ![q] = 0]

\* The same, with the status of the answer known.
Leave(q, s, status) == Move(q, s) /\ answer' = [answer EXCEPT ![q] = status]

Arrive(q) ==
    /\ stage[q] = "new"
    /\ Move(q, "receiving")
    /\ UNCHANGED <<text, free, answer>>

\* A chunk of the body comes in: lines 78-81.
ReceiveChunk(q) ==
    /\ stage[q] = "receiving"
    /\ IF size[q] = MaxBody
       THEN Leave(q, "done", 413)
       ELSE size' = [size EXCEPT ![q] = @ + 1] /\ UNCHANGED <<stage, answer>>
    /\ UNCHANGED <<text, free>>

\* The client goes away while it sends: nobody is answered.
Disconnect(q) ==
    /\ stage[q] = "receiving"
    /\ Move(q, "gone")
    /\ UNCHANGED <<text, free, answer>>

\* Lines 82-88: the body ends and is no JSON with a query; one that nests too
\* deeply for the parser raises what line 87 does not catch.
Malformed(q) ==
    /\ stage[q] = "receiving"
    /\ \E s \in {400, 500} : Leave(q, "done", s)
    /\ UNCHANGED <<text, free>>

\* Mutant of Acquire: the slot is taken when the thread starts, not here.
AcquireUnchecked(q) ==
    /\ stage[q] = "receiving"
    /\ free' = free - 1
    /\ Move(q, "pooled")
    /\ UNCHANGED <<text, answer>>

\* Line 89: a slot is taken at once, and execute waits for a thread.
Acquire(q) ==
    /\ stage[q] = "receiving"
    /\ free > 0
    /\ free' = free - 1
    /\ Move(q, "pooled")
    /\ UNCHANGED <<text, answer>>

\* Line 90: there is none.
AtCapacity(q) ==
    /\ stage[q] = "receiving"
    /\ free = 0
    /\ Leave(q, "done", 429)
    /\ UNCHANGED <<text, free>>

\* Mutant of Reject: the query is prepared before the try.
RejectOutsideTry(q) ==
    /\ stage[q] = "pooled"
    /\ Leave(q, "returned", 400)
    /\ UNCHANGED <<text, free>>

\* execute, on a thread: prepare_query raises.
Reject(q) ==
    /\ stage[q] = "pooled"
    /\ \E t \in Text : ~Allowed(t)
    /\ Leave(q, "releasing", 400)
    /\ UNCHANGED <<text, free>>

\* Or the prepared query is sent to the index.
SendQuery(q) ==
    /\ stage[q] = "pooled"
    /\ \E t \in {t \in Text : Allowed(t)} : text' = [text EXCEPT ![q] = t]
    /\ Move(q, "querying")
    /\ UNCHANGED <<free, answer>>

\* query_results is left with status s: the finally clause is next.
Executed(q, s) ==
    /\ Leave(q, "releasing", s)
    /\ text' = [text EXCEPT ![q] = <<>>]

\* Mutant of IndexChunk: the answer is collected without a limit.
IndexChunkUnlimited(q) ==
    /\ stage[q] = "querying"
    /\ size' = [size EXCEPT ![q] = (@ + 1) % (MaxResponse + 1)]
    /\ UNCHANGED <<stage, text, free, answer>>

\* A chunk of the answer: fuseki.py lines 83-86.
IndexChunk(q) ==
    /\ stage[q] = "querying"
    /\ IF size[q] = MaxResponse
       THEN Executed(q, 502)
       ELSE size' = [size EXCEPT ![q] = @ + 1] /\ UNCHANGED <<stage, text, answer>>
    /\ UNCHANGED free

\* The answer is complete and JSON, which takes a query that parses; or the
\* index found the query bad (400), failed (502) or timed out on a read (504).
IndexEnds(q) ==
    /\ stage[q] = "querying"
    /\ \E s \in {200, 400, 502, 504} :
          /\ s = 200 => Parses(Prepared(text[q]), IndexBreaks)
          /\ Executed(q, s)
    /\ UNCHANGED free

\* The finally clause, on the worker thread.
Release(q) ==
    /\ stage[q] = "releasing"
    /\ free' = free + 1
    /\ Move(q, "returned")
    /\ UNCHANGED <<text, answer>>

\* The coroutine resumes with the thread's result: lines 92-99.
Respond(q) ==
    /\ stage[q] = "returned"
    /\ Move(q, "done")
    /\ UNCHANGED <<text, free, answer>>

-----------------------------------------------------------------------------
Init ==
    /\ stage = [q \in Query |-> "new"]
    /\ size = [q \in Query |-> 0]
    /\ text = [q \in Query |-> <<>>]
    /\ free = Slots
    /\ answer = [q \in Query |-> 0]

\* What the client does, for as long as it likes.
ClientStep(q) ==
    Arrive(q) \/ ReceiveChunk(q) \/ Disconnect(q) \/ Malformed(q)
    \/ Acquire(q) \/ AtCapacity(q)

\* What the worker thread, the index and the event loop do.
ServerStep(q) ==
    Reject(q) \/ SendQuery(q) \/ IndexChunk(q) \/ IndexEnds(q) \/ Release(q) \/ Respond(q)

Next == \E q \in Query : ClientStep(q) \/ ServerStep(q)

Spec == Init /\ [][Next]_vars

\* Threads run, reads of the index time out, the event loop resumes what is
\* ready.  No fairness for clients.
FairSpec == Spec /\ \A q \in Query : WF_vars(ServerStep(q))

-----------------------------------------------------------------------------
(* What must hold. *)

Holding == {q \in Query : stage[q] \in {"pooled", "querying", "releasing"}}

(* Every variable of the endpoint keeps its shape; the semaphore stays     *)
(* within its bounds, so BoundedSemaphore.release never raises (line 73).  *)
TypeOK ==
    /\ stage \in [Query -> {"new", "receiving", "pooled", "querying", "releasing",
                            "returned", "done", "gone"}]
    /\ size \in [Query -> Nat]
    /\ \A q \in Query : size[q] <= IF stage[q] = "querying" THEN MaxResponse ELSE MaxBody
    /\ text \in [Query -> Text \cup {<<>>}]
    /\ free \in 0 .. Slots
    /\ answer \in [Query -> {0, 200, 400, 413, 429, 500, 502, 504}]

(* No path of execute, through any exception, loses a slot or returns it   *)
(* twice: the semaphore always counts the queries between lines 89 and 73. *)
SlotsConserved == free + Cardinality(Holding) = Slots

\* The queries the index is running, as it got them.
Running == {text[q] : q \in {q \in Query : stage[q] = "querying"}}

\* Both parsers see the same words of t.
ReadAlike(t) == Visible(t, CheckerBreaks) = Visible(t, IndexBreaks)

(* Whatever the index accepts to run for this endpoint is an ASK, or the   *)
(* number of its rows is limited by MaxRows, with or without a limit of    *)
(* its own, and also where the rewriting goes wrong (sparql.py:49-55).     *)
(* Excepted: an ASK, as rdflib reads it, of which the index reads more.    *)
RowsAreBounded ==
    \A t \in Running :
        LET c == Code(Prepared(t), IndexBreaks)
        IN  Parses(Prepared(t), IndexBreaks) =>
                \/ Form(Prepared(t), IndexBreaks) = "ASK"
                \/ c[Len(c)] = "MaxRows"
                \/ Form(t, CheckerBreaks) = "ASK" /\ ~ReadAlike(t)

(* The rewriting of the text does what a rewriting of the query that was   *)
(* checked would do: it wraps the SELECT of that query, and neither a      *)
(* comment before nor one after it swallows a part (sparql.py:27-55).      *)
(* Excepted: a text that the two parsers do not read alike; and a prefix   *)
(* of the name select, which the pattern takes for the keyword, but then   *)
(* the index finds the query bad.                                          *)
RewritingIsExact ==
    \A t \in Running :
        LET c == Code(t, CheckerBreaks)
        IN  Form(t, CheckerBreaks) = "SELECT" /\ ReadAlike(t) =>
                IF Occurs(c, "select:") = {}
                THEN Code(Prepared(t), IndexBreaks) =
                         Code(Wrapped(c, First(Occurs(c, "SELECT"))), IndexBreaks)
                ELSE ~Parses(Prepared(t), IndexBreaks)

(* The word from which a query is wrapped is one that was checked, and not *)
(* one of a comment: sparql.py:27, "Skip comments and IRIs while locating  *)
(* the already-validated query form".                                      *)
WrapsWhatWasChecked ==
    \A t \in Running :
        Form(t, CheckerBreaks) = "SELECT" => Start(t) \in Visible(t, CheckerBreaks)

(* A query that took a slot is answered, and its slot comes back, whatever *)
(* the index does; the bounds on time and size are what makes it so.       *)
AdmittedIsAnswered ==
    \A q \in Query : stage[q] = "pooled" ~> stage[q] = "done" /\ answer[q] # 0

\* The steps that are left, at most, to a request that took a slot.
Remaining(q) ==
    CASE stage[q] = "pooled" -> MaxResponse + 4
      [] stage[q] = "querying" -> MaxResponse - size[q] + 3
      [] stage[q] = "releasing" -> 2
      [] stage[q] = "returned" -> 1
      [] OTHER -> 0

(* What makes it so: once a request holds a slot, each of its steps brings *)
(* the answer nearer, the chunks of a trickling index included, and none   *)
(* of another request takes it farther (sparql.py:65-73; fuseki.py:83).    *)
AdmittedWorkRunsOut ==
    [][\A q \in Query : Remaining(q) # 0 =>
          \/ UNCHANGED <<stage[q], size[q]>>
          \/ Remaining(q)' < Remaining(q)]_vars
=============================================================================
