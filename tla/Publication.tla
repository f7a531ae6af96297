---------------------------- MODULE Publication ----------------------------
(***************************************************************************)
(* push_catalog (catalog/modes/solid/ingest.py): a participant replaces    *)
(* its graph in the central store.  The module extends SolidRegistry: its  *)
(* steps and the registry's are one specification, in which the handler    *)
(* awaits the registry check of the only worker (Checker) and the Fuseki   *)
(* store answers it.  The names SolidRegistry has taken carry a prefix     *)
(* here: PubInit, PubNext, PubSpec, PubTypeOK.                             *)
(*                                                                         *)
(* The handler is a coroutine of the only event loop of the only worker.   *)
(* Authentication, the registry check, validation and the PUT are blocking *)
(* calls: the coroutine holds the loop through them.  It gives the loop up *)
(* in one place, `await request.body()`, between the registry check and    *)
(* the validation, for as long as the client takes to send the body.       *)
(*                                                                         *)
(* The store is another process: it commits a PUT at some instant after it *)
(* was sent, also after the catalog timed out on it or died.               *)
(***************************************************************************)
EXTENDS SolidRegistry

CONSTANTS
    Push,    \* requests to POST /catalog, each with a body of its own
    Author,  \* the participant_id authentication finds for each
    NoPush   \* no push: an idle loop, an empty graph

ASSUME AuthorAssumption == Author \in [Push -> Id]
ASSUME NoPushAssumption == NoPush \notin Push
\* Authentication strips and requires a WebID: no author is blank.
ASSUME AuthorsAreNamed == \A p \in Push : Normal[Author[p]] # NoWebId

VARIABLES
    loop,      \* the push whose coroutine runs on the event loop
    stage,     \* where each push is in push_catalog
    answer,    \* the response computed for each push
    wire,      \* what became of the PUT of each push, at the store
    graphs,    \* Fuseki: the push whose snapshot each participant's graph holds
    admittedAt, \* history: the instant the registry check of each push sampled
    latest     \* history: the push last answered 200, per participant

regVars == vars   \* the variables of SolidRegistry
pushVars == <<loop, stage, answer, wire, graphs, admittedAt, latest>>
pubVars == <<regVars, pushVars>>

NoAnswer == [status |-> 0, at |-> "none"]

\* The coroutine returns a response (or raises) and the loop is free again.
Answer(p, status, at) ==
    /\ stage' = [stage EXCEPT ![p] = "done"]
    /\ answer' = [answer EXCEPT ![p] = [status |-> status, at |-> at]]
    /\ loop' = NoPush

\* The coroutine goes on to another stage without giving the loop up.
Continue(p, s) ==
    /\ stage' = [stage EXCEPT ![p] = s]
    /\ UNCHANGED <<loop, answer>>

-----------------------------------------------------------------------------
(* The handler. *)

\* The headers of a request are in: its task waits for the event loop.
Arrive(p) ==
    /\ stage[p] = "new"
    /\ stage' = [stage EXCEPT ![p] = "queued"]
    /\ UNCHANGED <<regVars, loop, answer, wire, graphs, admittedAt, latest>>

Begin(p) ==
    /\ stage[p] = "queued"
    /\ loop = NoPush
    /\ loop' = p
    /\ stage' = [stage EXCEPT ![p] = "auth"]
    /\ UNCHANGED <<regVars, answer, wire, graphs, admittedAt, latest>>

\* SolidAuthError: 401, or 503 when the proof cache is full or keys are missing.
AuthReject(p, status) ==
    /\ stage[p] = "auth"
    /\ Answer(p, status, "auth")
    /\ UNCHANGED <<regVars, wire, graphs, admittedAt, latest>>

\* An exception of authentication that is no SolidAuthError: the framework's 500.
AuthRaises(p) ==
    /\ stage[p] = "auth"
    /\ Answer(p, 500, "none")
    /\ UNCHANGED <<regVars, wire, graphs, admittedAt, latest>>

\* Authentication found the author; is_member is called at once.
AuthAccept(p) ==
    /\ stage[p] = "auth"
    /\ BeginCheck(Author[p])
    /\ Continue(p, "check")
    /\ UNCHANGED <<wire, graphs, admittedAt, latest>>

\* A blocking step of is_member, while the loop is held.
RegistryStep ==
    /\ CheckStep
    /\ UNCHANGED pushVars

CheckedAs(p, o) ==
    /\ stage[p] = "check"
    /\ pc[Checker] = "idle"
    /\ outcome[Checker] = o
    /\ UNCHANGED <<regVars, wire, graphs, latest>>

RegistryUnavailable(p) ==
    /\ CheckedAs(p, "unavailable")
    /\ Answer(p, 422, "registry")
    /\ UNCHANGED admittedAt

\* Mutant of NotRegistered: a refusal is only logged.
IgnoreRefusal(p) ==
    /\ CheckedAs(p, "refused")
    /\ Continue(p, "body")
    /\ admittedAt' = [admittedAt EXCEPT ![p] = startedAt[Checker]]

NotRegistered(p) ==
    /\ CheckedAs(p, "refused")
    /\ Answer(p, 403, "registry")
    /\ UNCHANGED admittedAt

Admit(p) ==
    /\ CheckedAs(p, "granted")
    /\ Continue(p, "body")
    /\ admittedAt' = [admittedAt EXCEPT ![p] = startedAt[Checker]]

\* `await request.body()`: the whole body is buffered already, no suspension.
BodyBuffered(p) ==
    /\ stage[p] = "body"
    /\ Continue(p, "validate")
    /\ UNCHANGED <<regVars, wire, graphs, admittedAt, latest>>

\* Mutant of AwaitBody: the body is read with a blocking call.
BlockOnBody(p) ==
    /\ stage[p] = "body"
    /\ Continue(p, "waiting")
    /\ UNCHANGED <<regVars, wire, graphs, admittedAt, latest>>

\* `await request.body()` suspends: the loop is free for other pushes.
AwaitBody(p) ==
    /\ stage[p] = "body"
    /\ stage' = [stage EXCEPT ![p] = "waiting"]
    /\ loop' = NoPush
    /\ UNCHANGED <<regVars, answer, wire, graphs, admittedAt, latest>>

\* The client sends the rest of the body.
BodyArrives(p) ==
    /\ stage[p] = "waiting"
    /\ stage' = [stage EXCEPT ![p] = "ready"]
    /\ UNCHANGED <<regVars, loop, answer, wire, graphs, admittedAt, latest>>

\* The client goes away: ClientDisconnect ends the handler, nobody is answered.
Disconnect(p) ==
    /\ stage[p] = "waiting"
    /\ stage' = [stage EXCEPT ![p] = "lost"]
    /\ UNCHANGED <<regVars, loop, answer, wire, graphs, admittedAt, latest>>

\* Mutant of Resume: the coroutine goes on in a thread of its own.
ResumeAnywhere(p) ==
    /\ stage[p] = "ready"
    /\ loop' = p
    /\ stage' = [stage EXCEPT ![p] = "validate"]
    /\ UNCHANGED <<regVars, answer, wire, graphs, admittedAt, latest>>

Resume(p) ==
    /\ stage[p] = "ready"
    /\ loop = NoPush
    /\ loop' = p
    /\ stage' = [stage EXCEPT ![p] = "validate"]
    /\ UNCHANGED <<regVars, answer, wire, graphs, admittedAt, latest>>

\* .decode("utf-8") raises outside every try: the framework answers 500.
Undecodable(p) ==
    /\ stage[p] = "validate"
    /\ Answer(p, 500, "none")
    /\ UNCHANGED <<regVars, wire, graphs, admittedAt, latest>>

\* Mutant of Invalid: the payload is validated once it is stored.
InvalidAfterPut(p) ==
    /\ stage[p] = "put"
    /\ Answer(p, 422, "validation")
    /\ UNCHANGED <<regVars, wire, graphs, admittedAt, latest>>

Invalid(p) ==
    /\ stage[p] = "validate"
    /\ Answer(p, 422, "validation")
    /\ UNCHANGED <<regVars, wire, graphs, admittedAt, latest>>

\* Mutant of StoreUnreachable: it invents a status of its own.
StoreUnreachable504(p) ==
    /\ stage[p] = "validate"
    /\ Answer(p, 504, "store")
    /\ UNCHANGED <<regVars, wire, graphs, admittedAt, latest>>

\* Serialisation or the connection to the store fails: no PUT was sent.
StoreUnreachable(p) ==
    /\ stage[p] = "validate"
    /\ Answer(p, 502, "store")
    /\ UNCHANGED <<regVars, wire, graphs, admittedAt, latest>>

\* Mutant of SendPut: the PUT is awaited, and the loop free meanwhile.
SendPutAsync(p) ==
    /\ stage[p] = "validate"
    /\ stage' = [stage EXCEPT ![p] = "put"]
    /\ loop' = NoPush
    /\ wire' = [wire EXCEPT ![p] = "sent"]
    /\ UNCHANGED <<regVars, answer, graphs, admittedAt, latest>>

\* The valid snapshot goes out in one Graph Store PUT on the author's graph.
SendPut(p) ==
    /\ stage[p] = "validate"
    /\ Continue(p, "put")
    /\ wire' = [wire EXCEPT ![p] = "sent"]
    /\ UNCHANGED <<regVars, graphs, admittedAt, latest>>

\* The store answered 200, 201, 202 or 204.
PutSucceeded(p) ==
    /\ stage[p] = "put"
    /\ wire[p] = "applied"
    /\ Answer(p, 200, "store")
    /\ latest' = [latest EXCEPT ![Author[p]] = p]
    /\ UNCHANGED <<regVars, wire, graphs, admittedAt>>

\* The store answered an error, or httpx gave up waiting for its answer,
\* whether or not the store had committed or will.
PutFailed(p) ==
    /\ stage[p] = "put"
    /\ Answer(p, 502, "store")
    /\ UNCHANGED <<regVars, wire, graphs, admittedAt, latest>>

-----------------------------------------------------------------------------
(* The store, the rest of the process, and the machine. *)

\* Fuseki commits the transaction of one PUT.
Commit(p) ==
    /\ wire[p] = "sent"
    /\ wire' = [wire EXCEPT ![p] = "applied"]
    /\ graphs' = [graphs EXCEPT ![Author[p]] = p]
    /\ UNCHANGED <<regVars, loop, stage, answer, admittedAt, latest>>

\* Fuseki aborts it: an error status, or the store died before the commit.
Abort(p) ==
    /\ wire[p] = "sent"
    /\ wire' = [wire EXCEPT ![p] = "aborted"]
    /\ UNCHANGED <<regVars, loop, stage, answer, graphs, admittedAt, latest>>

\* Time passes, administrators edit the registry, /status and /ready probe it.
Elsewhere ==
    /\ \/ Tick
       \/ RegistryEdit
       \/ \E c \in Probe : BeginProbe(c) \/ LoadStep(c)
    /\ UNCHANGED pushVars

InFlight == {p \in Push : stage[p] \notin {"new", "done", "lost"}}

\* The catalog process dies and restarts: its coroutines and caches are gone,
\* the graphs and the PUTs on their way to the store are not.
Crash ==
    /\ Restart
    /\ loop' = NoPush
    /\ stage' = [p \in Push |-> IF p \in InFlight THEN "lost" ELSE stage[p]]
    /\ UNCHANGED <<answer, wire, graphs, admittedAt, latest>>

-----------------------------------------------------------------------------
PubInit ==
    /\ Init
    /\ loop = NoPush
    /\ stage = [p \in Push |-> "new"]
    /\ answer = [p \in Push |-> NoAnswer]
    /\ wire = [p \in Push |-> "none"]
    /\ graphs = [i \in Id |-> NoPush]
    /\ admittedAt = [p \in Push |-> -1]
    /\ latest = [i \in Id |-> NoPush]

\* What the coroutine does between two points where it waits for something.
HandlerStep(p) ==
    \/ \E status \in {401, 503} : AuthReject(p, status)
    \/ AuthRaises(p)
    \/ AuthAccept(p)
    \/ RegistryUnavailable(p)
    \/ NotRegistered(p)
    \/ Admit(p)
    \/ BodyBuffered(p)
    \/ AwaitBody(p)
    \/ Undecodable(p)
    \/ Invalid(p)
    \/ StoreUnreachable(p)
    \/ SendPut(p)
    \/ PutSucceeded(p)
    \/ PutFailed(p)

Scheduled(p) == Begin(p) \/ Resume(p)

ClientStep(p) == Arrive(p) \/ BodyArrives(p) \/ Disconnect(p)

StoreStep(p) == Commit(p) \/ Abort(p)

PubNext ==
    \/ \E p \in Push : HandlerStep(p) \/ Scheduled(p) \/ ClientStep(p) \/ StoreStep(p)
    \/ RegistryStep
    \/ Elsewhere
    \/ Crash

\* Blocking calls end, and the loop runs what is ready.  A timeout of httpx bounds
\* the connection and each read, not the whole of a call: that the replies of the
\* registry, the issuer and the store come to an end is assumed of those servers.
\* No fairness for the client, for the commits of the store, the probes or the
\* clock.
Fairness ==
    /\ WF_pubVars(RegistryStep)
    /\ \A p \in Push : WF_pubVars(HandlerStep(p)) /\ WF_pubVars(Scheduled(p))

PubSpec == PubInit /\ [][PubNext]_pubVars

FairSpec == PubSpec /\ Fairness

-----------------------------------------------------------------------------
(* What must hold. *)

Stages == {"new", "queued", "auth", "check", "body", "waiting", "ready",
           "validate", "put", "done", "lost"}

\* The stages in which a coroutine holds the event loop.
HoldingStages == {"auth", "check", "body", "validate", "put"}

(* Every variable keeps its shape: in particular a push is only ever       *)
(* answered with a status the handler names, or the 500 of the framework.  *)
PubTypeOK ==
    /\ TypeOK
    /\ loop \in Push \cup {NoPush}
    /\ stage \in [Push -> Stages]
    /\ answer \in [Push -> [status : {0, 200, 401, 403, 422, 500, 502, 503},
                            at : {"none", "auth", "registry", "validation", "store"}]]
    /\ wire \in [Push -> {"none", "sent", "applied", "aborted"}]
    /\ graphs \in [Id -> Push \cup {NoPush}]
    /\ admittedAt \in [Push -> Instant]
    /\ latest \in [Id -> Push \cup {NoPush}]

(* One coroutine runs at a time, the blocking calls included: two pushes   *)
(* are never between admission and answer on the same stretch of handler   *)
(* code, and a check under way is the one the holder of the loop awaits.   *)
OneHandlerRuns ==
    /\ \A p \in Push : stage[p] \in HoldingStages <=> loop = p
    /\ pc[Checker] # "idle" => loop # NoPush /\ stage[loop] = "check"

\* r listed p's author at some instant within Ttl of the check, or after it.
SeenNear(p, r) ==
    LET seen == LastListed(r, Normal[Author[p]])
    IN  /\ seen >= 0
        /\ seen >= admittedAt[p] \/ seen + Ttl > admittedAt[p]

(* Nothing is sent to the store for a push whose author was not a listed   *)
(* member, at most Ttl before the check that admitted that very push: not  *)
(* for one that resumes after others were checked, nor after a restart.    *)
StoredWasMember ==
    \A p \in Push : wire[p] # "none" =>
        /\ Normal[Author[p]] \in WebId
        /\ \E r \in Resource : SeenNear(p, r)

VerdictOf(p) ==
    CASE answer[p].status = 200 -> "accepted"
      [] answer[p].status = 502 \/ stage[p] = "lost" -> "failed"
      [] answer[p].status = 0 /\ stage[p] # "lost" -> "open"
      [] OTHER -> "refused"

Index == INSTANCE CatalogIndex WITH
    index <- graphs,
    applied <- {p \in Push : wire[p] = "applied"},
    verdict <- [p \in Push |-> VerdictOf(p)]

(* The handler, the store and their failures implement the abstract index: *)
(* one replacement per push, of its author's graph only, never for a       *)
(* refused push, and visible when 200 is answered (docs/ARCHITECTURE.md).  *)
ImplementsIndex == Index!Spec

(* An accepted snapshot is displaced only by a later accepted one or by a  *)
(* push whose outcome the catalog never learnt or has not answered yet.    *)
LatestAcceptedShown == Index!LatestAcceptedShown

(* A push is decided, or gives way while its client is slow: a client that *)
(* withholds its body keeps nobody else's push from being answered.  (A    *)
(* server that trickles a reply for ever would: see Fairness.)             *)
NobodyStarves ==
    \A p \in Push :
        /\ stage[p] = "queued" ~> stage[p] \in {"waiting", "done", "lost"}
        /\ stage[p] = "ready" ~> stage[p] \in {"done", "lost"}

\* How far the coroutine on the loop is from giving it up: the load of its
\* check has at most `todo` resources to fetch.  Elsewhere no loop is held.
Distance ==
    CASE stage[loop] = "auth" -> 8
      [] stage[loop] = "check" -> (CASE pc[Checker] = "compare" -> 7
                                     [] pc[Checker] = "container" -> 6
                                     [] pc[Checker] = "resources" -> 5
                                     [] OTHER -> 4)
      [] stage[loop] = "body" -> 3
      [] stage[loop] = "validate" -> 2
      [] stage[loop] = "put" -> 1
      [] OTHER -> 9

(* Whatever happens while a coroutine holds the event loop takes it nearer *)
(* to its release, or leaves it where it is: an edit of the registry, a    *)
(* probe that loads it, a client or the store neither sends it back nor    *)
(* makes the load of its check longer (push_catalog; load_members).        *)
HolderAdvances ==
    [][loop # NoPush /\ loop' = loop =>
          \/ UNCHANGED <<stage[loop], pc[Checker], todo[Checker]>>
          \/ Distance' < Distance
          \/ Distance' = Distance /\ todo'[Checker] \subseteq todo[Checker]]_pubVars

-----------------------------------------------------------------------------
(* What the documentation says and the code does not do. *)

(* docs/DEPLOYMENT.md: positive TTLs "introduce that much revocation       *)
(* delay".  Violated by a push that was admitted, waits for its body, and  *)
(* is stored long after its author left the registry.                      *)
RevocationReachesTheStore ==
    [][\A p \in Push : SendPut(p) =>
          \E r \in Resource : LastListed(r, Normal[Author[p]]) + Ttl >= clock]_pubVars
=============================================================================
