# A TLA+ model of the Solid federated catalog

This directory holds TLA+ modules that model the catalog of this repository, TLC
configurations that check them on small instances, and proofs that TLAPS checks
for every value of their constants. `PROJECT.json` lists the components, the
runs, the theorems, the hazards of the code and, under `map`, the lines each
definition stands for.

## 1. The system

Participants keep DCAT catalogues on Solid pods. A participant's browser posts
its catalogue to the central catalog, a FastAPI process with one uvicorn worker.
The process authenticates the participant, checks its membership in a registry
(an LDP container on a further pod), validates the RDF and replaces the
participant's named graph in Fuseki. Anybody may then query the graphs.

| Component | State it keeps | Operations | Talks to |
|---|---|---|---|
| `SolidRegistryCheck` (modes/solid/registry.py) | membership cache, its expiry | `is_member`, `registry_reachable`, `load_members` | registry pod over HTTP, resource by resource |
| `push_catalog` (modes/solid/ingest.py) | the locals of its coroutine | `POST /catalog` | auth, registry check, validation, store |
| `FusekiClient`, `SolidStore` | a connection | PUT of a graph, queries | Fuseki, another process |
| `OidcSolidAuth` (modes/solid/auth.py) | issuer keys, accepted DPoP proofs | `authenticate` | OIDC issuer |
| `/sparql` (modes/solid/sparql.py) | two slots | bounded SELECT and ASK | Fuseki, on a pool thread |
| startup, `/ready`, `/status` (core/app.py, modes/solid/discovery.py) | none but locals | `_startup_checks`, `get_status` | registry check and store |
| `/datasets`, `/datasets/detail` (modes/solid/discovery.py) | none | `list_datasets`, `get_dataset`: one query each | store |
| contract loader, deployment guard, configuration check | what the process read at its start | `load_registry_contract`, `validate_deployment`, `check_config.py` | `.env`, the contract file, Compose |
| SHACL validation, RDF helpers | none | pure functions on RDF | rdflib, pyshacl |
| EDC mode | none | a stub | - |
| catalog UI (ui/app.js; sparql.js, status.js) | selected dataset, filter, list | `refresh`, `selectDataset`, search | `/datasets`, `/datasets/detail`, `/sparql`, `/status` |
| publisher UI (App.tsx and below) | session, catalogue, result, error | login, load, publish | pods, `POST /catalog` |
| developer tools, scripts | none | straight-line I/O | - |

### What is hard in it

* *The event loop.* `push_catalog` is a coroutine whose calls block: it holds the
  only event loop through authentication, the registry check, validation and the
  PUT. It gives the loop up in exactly one place, `await request.body()`, between
  the membership decision and its use.
* *Threads.* `/status` and `/ready` run on pool threads and load the registry
  concurrently with pushes, into the same cache.
* *Time.* The TTL of the cache counts from a clock reading taken before the
  fetches; the decoding of a DPoP proof, its freshness and the pruning of the replay
  cache use three readings of a clock that may be set back.
* *Failure.* The store may commit a PUT the catalog has given up on; the process
  may die between the commit and the answer; one resource of the registry may be
  unreadable.
* *Limits.* Two query slots that every exception path must return; a bounded
  replay cache; a response limit that alone stops a trickling index.
* *The publisher's page.* A handler runs with the render it was clicked on, while
  the session library, a load and an earlier publication go on behind it.
* *The visitor's page.* Several requests are under way at a time and their answers
  arrive in any order, while what they answer from changes.
* *A rewriting of text.* `/sparql` decides about a query that is parsed, and bounds
  it by editing its text, and the two parsers that read it, rdflib before and the
  index after, do not agree on where a comment ends.
* *Four readers of one setting.* The operator's script, Compose, the guard and the
  component that uses a value each parse it by a rule of their own.

### What makes each part correct

* registry: a revoked member is refused after the TTL, a settled one is not
  refused;
* publication: only members admitted by their own check reach the store, a
  refused push never does, the last accepted snapshot is the one shown unless a
  failed push landed over it, slow clients block nobody;
* authentication: a proof is accepted once until the process has seen it expire, only
  accepted proofs use up the replay cache;
* SPARQL: slots are neither lost nor duplicated, admitted queries are answered, and
  what the index runs is the client's query with its rows bounded, for the texts that
  rdflib and the index read alike;
* discovery: what is listed is what each participant published last, and a page that
  was refreshed since then shows it;
* availability: the process serves only after contact with the store, gives up
  no earlier than it was told, ends up serving, and `/ready` answers from
  observations of its own call;
* publisher: a publication is made of a catalogue that parses, one that carries the
  credentials of a WebID names it, and each load from a URL and each publication shows
  its result or its own error (an unreadable file and a failed logout show nothing);
* configuration: a process that runs as production demands what the guard was
  written to demand, and an `.env` that the script clears also starts.

## 2. Modules

`CatalogIndex` is the abstract index. `Publication` extends `SolidRegistry` with the
handler and the store, and implements `CatalogIndex`. `SolidAuth`, `SparqlEndpoint`,
`Availability`, `Discovery`, `PublisherUI` and `Configuration` stand alone: they
share no state with the others but what appears there as a choice (the outcome of
authentication, the readiness of a dependency, the answer to a publication), as a
step (`Publish` of `Discovery` is an accepted push) or as a constant (the TTL, the
fail-closed flag).

**SolidRegistry** models registry.py. The caller `Checker` is `is_member`; the
callers in `Probe` are `registry_reachable` on pool threads. `pc`, `startedAt`,
`todo` and `members` are their position and locals in `load_members`. A load is
`FetchContainer`, one `FetchResource` or `ResourceUnreadable` per resource in
sorted order, and `Install`. `WriteResource` and `DeleteResource` are the
administrators of the pod, who may act between any two fetches. `changedAt`
records when each resource last began or ceased to list each WebID; no step of
the code reads it. Contract fields are constants: `FailClosed`, `Ttl`, and
`Normal`, which is `_normalize_webid` as a function of the spelling.

**Publication** models ingest.py. `loop` is the push that holds the event loop,
`stage` the place of each push in the handler, `answer` its response with the `stage`
field of the error. The registry check runs as steps of `SolidRegistry` (`BeginCheck`,
`CheckStep`), while the loop is held; the names which that module has taken carry a
prefix here (`PubInit`, `PubNext`, `PubSpec`, `PubTypeOK`). `AwaitBody` gives the loop
up, `Resume` takes it again. `wire` and `graphs` are the store, which commits or
aborts a PUT it was sent at any later time, also after `PutFailed` or `Crash`. A blank
identifier cannot get past authentication (`AuthorsAreNamed`), so the composition has
no `RefuseBlank`; the run `registry` has.

**CatalogIndex** states what a publication promises: a snapshot is applied at
most once, in one step, to its author's graph; an accepted push was applied and
is shown, or a failed push landed over it; a refused push is never applied.

**SolidAuth** models auth.py. A request carries the first check it would fail, in
code order, or none. `Tick` and `SetBack` move the wall clock between any two steps,
hence between the three readings of it: by PyJWT, which refuses a proof issued later
than its reading (`DecodeProof`), by line 246 (`ProofIsFresh`) and by line 257 (`Prune`).
`seen` is the replay cache, one entry per proof; `used`, `reused` and `pruned`, the
latest reading by which the process pruned it, are history. Two checks end in 401 or,
when a number or a character is beyond what the line expects, in an exception that is
no `SolidAuthError`: the 500 of the framework (`AuthRaises` of `Publication`).

**SparqlEndpoint** models sparql.py and `query_results` of fuseki.py. Sizes are counted
in chunks. A query is a sequence of tokens, as much of SPARQL as `prepare_query` tells
apart. A parser is represented by the characters that end a comment for it:
`CheckerBreaks` is rdflib's (line feed), `IndexBreaks` that of the pattern in line 28
and of the index (carriage return, too). `Parses`, `Form` and `Code` say what a parser
sees of a text, comments removed by ranking the `Visible` positions; `Allowed` asks
them for rdflib, `IndexEnds` for the index. `Start` and `Prepared` are what the regular
expression and the string it assembles do to the text (comments skipped by the one,
kept by the other). A body that nests too deeply for `json.loads` ends in the 500 of
the framework (`Malformed`).

**Availability** models `_startup_checks`, `get_status` and `/ready`, in the Solid
mode and in the EDC stub, and the container runtime that restarts the process
(`restart: unless-stopped`). `EnvFloat` is `_env_float`. Time is kept in count-down
timers, so that no bound on a clock ends the behaviours.

**Discovery** models the endpoints a visitor's page calls, the names of the graphs
(store.py) and app.js. `graphs` is the store, which `Publish` changes between any two
steps. A request is `Waiting` until the server answers it with what it reads then
(`AnswerStatus`, `AnswerList`, `AnswerDetail`), and the page takes the answer later
(`ReceiveStatus`, `ReceiveList`, `ReceiveDetail`), or an error for one that was never
answered. `GoOn` is the end of `Promise.all` in `refresh`, which fetches the details
of what is selected by then. A WebID is a name and a level of escaping, so that
`GraphUri` and `Owner` are what quote and unquote do to it. `clean` is history: the
page asks nothing of it, `RefreshedPageShowsIndex` does.

**PublisherUI** models App.tsx and the clients below it. `session` is the session
library's, `state` what the handlers have set, `screen` the render the user looks at
and clicks on: `SetLater` changes `state` after an await, `Render` shows it. A `job` is
one load or publication in flight, with the catalogue and the WebID header fixed
when it was clicked and the credentials it carries; one that is over has `ended` (a load),
was `answered` (a publication) or `failed`. `RestoreSession`, `Logout`
and `Expire` move the session on their own; `Deliver` is the catalogue's decision,
after which the answer may still be lost (`PublishFails`).

**Configuration** models what a start reads. `env` and `contract` are the files the
operator edits, `told` the verdict of check_config.py on the present `.env`,
`container` what was brought up and keeps through restarts, `settings` what the
running process has read. A value is represented by what its readers tell apart
(`padded oidc` is accepted by one and refused by another, `with user` is a URL
with a user name). Kinds of YAML values stand for the fields of the contract.

Modules named `MC...` give instances for TLC; `..._proofs` hold the proofs. An
operator introduced as "Mutant of" another is never part of a specification: it is
a plausible bug that some property is known to catch (`mutants` in PROJECT.json).

## 3. Runs

| Run | Checks | Instance and why it is enough |
|---|---|---|
| `registry` | types, `RevocationBound`, `AdmissionBound`, `CacheFresh`, and `IInv`, the inductive invariant of the proofs | two resources, one WebID and a blank id, one checker and one probe, TTL 2, clock to 3: loads of both callers overlap edits of both resources, caches expire and are replaced by older loads |
| `publication` | types (`PubTypeOK`), `OneHandlerRuns`, `StoredWasMember` | two participants, one under a spelling that normalisation changes, TTL 2, clock to 2, one resource: a check answered from the cache of another's |
| `publication_index` | `LatestAcceptedShown`, `ImplementsIndex`, `NobodyStarves`, `HolderAdvances` | two pushes of one participant and a probe; time adds nothing to these and stands still |
| `publication_delay` | `RevocationReachesTheStore`, violated | one push, TTL 1, clock to 3; see section 6 |
| `auth` | types, `AcceptedOnce`, `CapacityWellSpent`, `AuthEnds` | four proofs, two of them with one id, issued at instants -1 to 1, age limit 2, capacity 2, clock between 0 and 2: proofs that are not valid yet, entries and proofs that expire between two readings, a clock that is set back behind a pruning, a full cache |
| `sparql` | types, `SlotsConserved`, `RowsAreBounded`, `RewritingIsExact`, `AdmittedIsAnswered`, `AdmittedWorkRunsOut` | three queries for two slots, bodies and replies that reach their limits; seven texts: a limit of its own before a comment, keywords in a comment, an IRI and a prefix, an ASK, a forbidden clause, and two whose comments rdflib and the index end at different places |
| `sparql_breaks` | `WrapsWhatWasChecked`, violated | one query; see section 6 |
| `availability` | types, `ServesAfterContact`, `GivesUpLate`, `ReadyWasTrue`, `EventuallyServes` | two callers of `/ready` beside the startup loop, both modes; wait 3 and retry 2, so that the last sleep is cut by the deadline, and waits that are short, negative or no number |
| `discovery` | types, `TableIsCurrent`, `EachOwnsItsGraph`, `RefreshedPageShowsIndex` | three overlapping clicks, two publications by two WebIDs that differ in an escape only, two catalogues: one with two titles for a dataset (two rows), one published under somebody else's name beside a dataset without a title |
| `discovery_provenance` | `DetailIsOfItsGraph`, violated | see section 6 |
| `publisher` | types, `HeaderNamesSession`, `NothingFailsSilently` | three jobs, two WebIDs of which one has an account, a catalogue that parses and one that does not: a load and a publication that overlap with another publication and with every change of the session |
| `configuration` | types, `ProductionIsStrict`, `CheckedEnvStarts` | two edits anywhere in `.env` or the contract, from a filled-in `.env.example`, with checks, starts, crashes and restarts in between: each pair of settings that could disagree |

Bounds are the constants `MaxTime` (the clock stops there; nothing else does),
`MaxBody`, `MaxResponse` and `Capacity` (limits of the code, small), `MaxJobs` (loads
and publications of one page), `MaxPublish` (publications while a visitor looks),
`MaxEdits` (edits of the operator), `Tried` (kinds of YAML values he writes), `Text`,
`RawWait`, `Snapshot` and `Filter` (inputs), and the sets of participants, pushes,
proofs, queries, callers and clicks. A fail-open contract is run by
`publication_index`. Deadlock is not checked where a finite set of pushes, queries,
clicks or instants is used up in the end and a system without requests rightly does
nothing, and in `availability`, where time always passes; it is checked where the
process can always be started again.

### Fairness

Only what the scheduling justifies: threads run and HTTP calls end (`RegistryStep`,
`AuthStep`, `ServerStep`, `StartupStep`, and the PUT in `HandlerStep`). The last is an
assumption about the servers: httpx bounds the connection and each read, not a whole
call. `/sparql` has a limit on the size of a reply, which bounds the call
(`AdmittedWorkRunsOut`), and nothing is assumed of the index there beyond that a read
ends; the replies of the registry, the issuer, the readiness probes and the PUT have
none, and a server that sent such a reply a few bytes at a time would hold the event
loop, or the startup, for as long. `NobodyStarves`, `AuthEnds` and `EventuallyServes`
are about servers that do not. The event loop runs a coroutine that is ready
(`Scheduled`), a handler that holds the loop goes on (`HandlerStep`), time passes in
`Availability`, and the container runtime starts a process that exited (`Boots`,
whatever its settings). In the publisher's page, the browser ends every request and
shows every pending update (`JobEnds`, `Render`). Clients, users, operators,
administrators, the store's commits, the dependencies and crashes are never fair, and
`Discovery` assumes no fairness at all: what it says of a page holds when its answers
are there. With several pushes `Scheduled` is fair for each push: the asyncio ready
queue is first in, first out.

## 4. Proofs

All of it holds for finite or infinite sets and for every value of the constants
that meets the named assumptions of the modules. Each `..._proofs` module has an
inductive invariant, one lemma per action or kind of action, and one step for each
conjunct that the action can disturb. Why the properties alone are not inductive is
where the argument lies:

**SolidRegistry_proofs** (`TypeOK`, `RevocationBound`, `AdmissionBound`, `CacheFresh`).
What a check grants comes from the cache or from its own load, so the invariant `IInv`
bounds the age of both: what a load has accumulated was listed at or after its start
(`LoadFresh`), hence so is what it installs (`CacheFresh`), and the expiry counts from
that start. The other direction needs that a fail-closed load never forgets: whoever
was listed since before its start is still to be fetched or already accumulated
(`LoadComplete`), hence is in the cache it installs (`CacheComplete`).
`ListedIsContained`, `NothingAccumulated` and `PastInstants` are the facts about
containers, locals and history these rest on. The run `registry` checks `IInv`, too.

**Publication_proofs** (`PubTypeOK`, `OneHandlerRuns`, `StoredWasMember`,
`ImplementsIndex`, `LatestAcceptedShown`, `HolderAdvances`). `RegistryStepOrStutter`
says that whatever the composition does is a step of the registry check or none, so
`IInv` holds in it. `PubInv` adds what ties a push to its coroutine: the check under way
is about the author of the push that waits for it (`ChecksTheAuthor`), a push is
answered exactly when it is done (`AnsweredWhenDone`), only a push past all stages was
sent (`SentAtTheEnd`), and an applied snapshot is shown for as long as its push holds
the loop, but for a failed one that lands over it (`AppliedIsShown`). `HolderAdvances`
is the safety half of `NobodyStarves`, proved for every registry: `HandlerAdvances` and
`CheckAdvances` give for each step of the holder the stage or the phase of its load it
gets to, or the resource it need not fetch any more, and nothing else moves it. That the
holder takes its next step is fairness, and stays with TLC. `AdmittedWasMember` is
`StoredWasMember` from the check on; it takes the grant from `RevocationBound` and
survives because what a resource listed last only moves forward. For the refinement,
`StageMaps` and `StoreMaps` give for every action the step of `CatalogIndex` it is: an
answer is a verdict, a commit is `Apply`, a crash is `Fail` of all pushes in flight,
everything else is a stutter. That the index shows the latest accepted snapshot is
proved of the abstract module (`IndexShowsLatestAccepted`) and carried over.

**SolidAuth_proofs** (`TypeOK`, `AcceptedOnce`, `CapacityWellSpent`).
`ForgottenIsExpired`: what was accepted by this process and is no longer in the cache
had expired by a reading that pruned it. The clock may have been set back since, so
the invariant speaks of `pruned` and not of the clock: `PruneMovesForward` and
`NotUnexpired` are what survives any movement of it. While the clock is not set back,
`pruned` is at most the clock, and no proof id is accepted twice in the validity of the
proof that carried it first.
`ProofAtHand` says a request that gets so far has a proof.

**SparqlEndpoint_proofs** (`TypeOK`, `SlotsConserved`, `AdmittedWorkRunsOut`,
`RowsAreBounded`, `RewritingIsExact`). The first two together are inductive: a slot that
is taken adds one to `Holding` and one that is released takes one away (the cardinality
lemmas), every other step leaves the set as it is. `AdmittedWorkRunsOut` is the variant
behind `AdmittedIsAnswered`: what is left of a request never grows, and the limit on the
size of a reply is what bounds it. The two properties of the rewriting are facts about
texts of any length, whichever breaks they contain. rdflib sees no more of a text than
the pattern and the index do (`CheckerSeesLess`), so the pattern finds a keyword in
every text that was checked (`SelectIsSeen`), and what it wraps ends with the
endpoint's limit for the index, too; where both see the same (`SameCode`), the
rewriting is the one of the parsed query. What a parser sees of a text is the list of
its visible positions by rank, so the proofs compare sets of positions instead of going through the text word
by word: a set of positions has one such list (`ListExists`, `ListIsUnique`), the
visible positions of a wrapped text are those of the text, moved (`VisibleInWrapped`:
the line ends that the endpoint adds close what a comment left open), hence the code of
the wrapped text is the wrapped code (`CodeOfWrapped`) and ends with the endpoint's limit
(`SelectIsLimited`). A keyword is found where the parser finds it (`StartIsInCode`)
unless a prefix is named after it; then the added words land in its declaration and the
text no longer parses (`MisreadIsRefused`). `SentAreAllowed`: the index is sent nothing
that was not allowed, for which alone these lemmas hold.

**Availability_proofs** (`TypeOK`, `ServesAfterContact`, `GivesUpLate`,
`ReadyWasTrue`). What has been waited and what is left add up to the wait
(`TimersAgree`). A result holds nothing before its own call has read it (`ReadSoFar`),
what was read as up was up in that call (`ReadsAreTrue`), the hook reads the store as
up only by contacting it (`HookContacted`), and requests exist only while the
process serves (`HookThenRequests`).

**Discovery_proofs** (`TypeOK`, `TableIsCurrent`, `EachOwnsItsGraph`,
`RefreshedPageShowsIndex`). `GraphUriInverse` proves quote and unquote inverse to
each other on whole names, from which every participant's graph holds what it
published last (`GraphsHoldLast`). For the page, `CleanInv`: while no publication and
no failure has intervened, every answer under way is what the store would answer now
(`AnswersFresh`), a refresh waits as long as one of its requests does
(`RefreshWaits`), and whatever the page does not show is still on its way
(`ShownOrComing`).

**PublisherUI_proofs** (`TypeOK`, `HeaderNamesSession`). The header
comes from React state and the credentials from the library, so that they agree needs
a fact about both: while the library is logged in the page knows as whom, and so does
each render that has bound the session's fetch (`LoginIsKnown`). It holds because a
session begins only with the one restoration that is pending when the page is mounted,
before any render could bind an older one (`MountedOnce`).

**Configuration_proofs** (`TypeOK`, `ProductionIsStrict`, `CheckedEnvStarts`). What
runs has passed the guard with the environment it keeps (`RunsAsRead`); that the guard
and the readers agree on every value the guard lets through is a lemma without state
(`GuardAgreesWithReaders`). So is its counterpart for the script: an environment that
`check_config.py` passed and compose completed is refused only for what the script
does not read (`CheckedEnvIsAllowed`, from what composition leaves of `.env`,
`ComposedAsChecked`), and what the operator was told is about `.env` as it stands
(`ToldOfEnv`).

Only model-checked: liveness (`NobodyStarves`, `AuthEnds`, `AdmittedIsAnswered`,
`EventuallyServes`, `NothingFailsSilently`), which needs fairness and ENABLED and is out
of the prover's reach; of the first and the third the safety half is proved, as said
above. Of the violated properties nothing is proved. There
is no RECURSIVE operator in any module.

## 5. What is abstracted, and what is not modelled

* RDF, SHACL, JWT and HTTP are choices between the outcomes the code tells apart.
* Two consecutive assignments of `load_members` that install a cache are one
  step: CPython 3.11 does not hand over the interpreter lock between them.
* The claims of an access token, its expiry included, are one choice in `SolidAuth`; of
  the clock only the readings for the DPoP proof are modelled, in whole seconds.
* A refresh of the registry never half-succeeds without an exception; a server
  that answers 200 with a truncated body is the same as an edit.
* `limit-concurrency` of uvicorn and the size of the thread pool are not modelled:
  a request refused there never reaches the code modelled here.
* `SparqlEndpoint` has the words of SPARQL that the rewriting and the checks look
  for, and not its grammar: braces are counted, strings and escapes in IRIs are left
  out (an escape anywhere is refused before anything else).
* `Discovery` leaves out the order of the rows, the types of a dataset and its
  description. Of several graphs that describe a dataset any may come first. A
  publication is one step there; `Publication` has what it consists of.
* A render of the publisher's page shows all pending updates at once: the priorities
  of React 18 are left out. So are the target URL and the URL of the catalogue, which
  no property tells apart, and the bearer override: it replaces the credentials by a
  token the operator typed, which nothing relates to the WebID of the headers, so
  `HeaderNamesSession` speaks of publications without it. The session library is
  external.
* The case of letters is left out of `Configuration`: the readers of a setting ignore it
  where they compare words, except that `CATALOG_DEPLOYMENT` must be lower case. HTTPS is
  demanded of the registry's container, as the guard does, not of what it lists.
* The contract's path, and numeric settings other than the TTL and the startup wait, are left
  out; numbers that Python's `float()` refuses are one value, `text`.
* The endpoints of the EDC stub answer constants (501, no datasets) and are left out;
  its status, hence startup and readiness, is in `Availability`.
* Not modelled: validation (rdflib and pyshacl on RDF graphs; `dcat_serialize.py` is
  called by nothing), sparql.js and status.js (one request and one message each), the
  drawing of the graph in app.js, the publisher's preview and WebID resolver (pure
  functions on text and RDF whose result only decides whether a catalogue parses),
  the proxy, and the developer tools (straight-line input and output).

## 6. Where the documentation and the code disagree

* `RevocationReachesTheStore` (run `publication_delay`): docs/DEPLOYMENT.md equates
  the revocation delay with the TTL; a push already admitted waits for its body
  without limit and is then stored without another check.
* `DetailIsOfItsGraph` (run `discovery_provenance`): docs/REQUIREMENTS.md:740 asks that
  named-graph provenance remain distinguishable; `get_dataset` (discovery.py:93)
  answers with the statements of every graph that describes the dataset under the
  graph and the provider of the first row.
* `WrapsWhatWasChecked` (run `sparql_breaks`): the comment at sparql.py:27 says that
  the pattern locates "the already-validated query form"; it ends a comment at a
  carriage return or a line feed, rdflib, which validated, at a line feed only. After a
  carriage return inside a comment it may find a `SELECT` that was never validated, and
  so may the index. This is what `ReadAlike` excepts in `RowsAreBounded` (a text that
  is an ASK to rdflib and a SELECT to the index is sent without a limit, against
  docs/SPARQL.md:19) and in `RewritingIsExact`; a clause that docs/SPARQL.md:16 says is
  rejected is not seen there either. Lines that end in CR LF are read alike.

Four more were met, which no run shows because the code decides them in one line.
SOLID_MODE.md:143 promises pushes from a stale cache while the registry is down;
`is_member` passes `allow_stale=False` (docs/ARCHITECTURE.md agrees with the code).
DEPLOYMENT.md:32 says of `SOLID_REGISTRY_CACHE_TTL_SECONDS` "Default 0 rechecks
publication membership"; without the variable the catalog takes the contract's
default, 300 seconds (`.env.example` sets it to 0; catalog/README.md documents 300).
And docs/SPARQL.md:21 names 400 as the status of bad JSON; JSON that nests too deeply
for the parser raises `RecursionError`, which line 87 does not catch, and becomes a
bare 500. Likewise SOLID_MODE.md:110 promises `error`, `detail` and `stage` in each
rejection of a publication; a body that is not UTF-8 raises outside every `try`
(`Undecodable`), and so does, in authentication, an `iat` too large for the subtraction
at auth.py:246 or a token that line 253 cannot encode (`AuthRaises`).

Three behaviours are worth knowing although no document forbids them. A connection
that breaks after the catalogue has decided is shown as "Central catalogue could not
be reached" (App.tsx:79). On the visitor's page the details of a dataset selected
earlier may arrive after those of the one selected last and replace them (app.js:102),
which is what `RefreshedPageShowsIndex` excepts. And the rewriting of `/sparql` takes
a prefix named `select` for the keyword (sparql.py:51), after which the index refuses
the query.

## 7. Plan

1. *Done*: all modules of section 2, with the refinement of `CatalogIndex` checked and
   proved, and the proofs of section 4.
2. Left: several pages of `Discovery` beside `Publication` itself in place of
   `Publish`; it would add the instants between commit and answer, which no property
   of a page tells apart today.
