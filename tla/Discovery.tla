------------------------------ MODULE Discovery ------------------------------
(***************************************************************************)
(* What a visitor sees of the index: GET /status, /datasets and            *)
(* /datasets/detail (catalog/core/app.py, catalog/modes/solid/             *)
(* discovery.py), the names of the graphs (store.py) and the page that     *)
(* calls them (catalog/ui/app.js).  Each endpoint is one read of the       *)
(* store, on a thread of the pool; the page asks several at a time, and    *)
(* answers arrive in any order, while participants publish.                *)
(*                                                                         *)
(* A WebID is a name and how often the escapes of its path were escaped:   *)
(* quote and unquote are what add one and take one away.  A description of *)
(* a dataset is its titles and publishers, the optional parts of a row.    *)
(***************************************************************************)
EXTENDS Integers, FiniteSets

CONSTANTS
    Name, WebId,     \* participants, as their pushes spell them
    Dataset, Title,
    Snapshot,        \* catalogues that may be published
    Filter,          \* texts typed into the search box
    Job,             \* clicks, and the load of the page
    MaxPublish,      \* bound: publications in a behaviour
    None, Waiting, Error

Description == [titles : SUBSET Title, publishers : SUBSET WebId]

ASSUME WebIdAssumption == WebId \subseteq [name : Name, coded : Nat]
ASSUME SnapshotAssumption ==
    Snapshot \subseteq UNION {[D -> Description] : D \in SUBSET Dataset}
ASSUME PublishAssumption == MaxPublish \in Nat
ASSUME DatasetAssumption == IsFiniteSet(Dataset)

VARIABLES
    graphs,    \* the store: the snapshot in each named graph
    published, \* publications so far
    list, selected, filter,  \* `state` of app.js
    rows,      \* the table on the page, with the row that is marked
    count,     \* the number of datasets on the page
    detail,    \* the detail panel
    loading,   \* runs of refresh that await Promise.all
    begun,     \* the jobs that were started
    status, lists, details,  \* requests of each job: their answer, once there
    wanted,    \* the dataset whose details each job asked for
    last,      \* history: what each WebID published last
    clean      \* history: every request of the page is younger than the last
               \* publication, none failed, no two details overlapped

store == <<graphs, published, last>>
page == <<list, selected, filter, rows, count, detail>>
vars == <<store, page, loading, begun, status, lists, details, wanted, clean>>

-----------------------------------------------------------------------------
(* The names of the graphs: store.py. *)

\* Mutant of GraphUri: quote(participant_id, safe="%").
GraphUriKeepingEscapes(w) == [w EXCEPT !.coded = IF @ = 0 THEN 1 ELSE @]

\* graph_uri_for_participant: quote with safe="" escapes escapes, too.
GraphUri(w) == [w EXCEPT !.coded = @ + 1]

\* participant_from_graph_uri.
Owner(g) == [g EXCEPT !.coded = IF @ = 0 THEN 0 ELSE @ - 1]

Graph == {GraphUri(w) : w \in WebId}

\* A DatasetResult, and the statements of a DatasetDetail with its first row.
Row == [graph : Graph, dataset : Dataset, title : Title \cup {None}, provider : WebId]
Statement == ({"title"} \X Title) \cup ({"publisher"} \X WebId)
Detail == [row : Row, triples : SUBSET Statement]

-----------------------------------------------------------------------------
(* What the endpoints read: discovery.py. *)

\* An OPTIONAL pattern: one row for each match, or one that leaves it unbound.
OrNone(S) == IF S = {} THEN {None} ELSE S

\* The rows of one graph that belongs to owner.
RowsOf(g, s, owner) ==
    UNION {{[graph |-> g, dataset |-> d, title |-> t,
             provider |-> IF p = None THEN owner ELSE p] :
                t \in OrNone(s[d].titles), p \in OrNone(s[d].publishers)} :
           d \in DOMAIN s}

\* The rows of a store.
Index(gs) == UNION {RowsOf(g, gs[g], Owner(g)) : g \in Graph}

\* None, Waiting and Error are no answers.
Store == [Graph -> Snapshot \cup {<<>>}]
ASSUME AnswerAssumption ==
    /\ {None, Waiting, Error} \cap Nat = {} /\ Waiting # None
    /\ \A gs \in Store : Index(gs) \notin {None, Waiting}
    /\ None \notin Detail /\ Waiting \notin Detail

\* list_datasets, up to the order of the rows.
ListDatasets == Index(graphs)

Statements(s, d) ==
    {<<"title", t>> : t \in s[d].titles} \cup {<<"publisher", p>> : p \in s[d].publishers}

\* get_dataset: the first row names title, provider and graph, and of several
\* graphs any may come first; the triples are those of every graph.  Empty if
\* no graph has the dataset (404).
GetDataset(d) ==
    {[row |-> r, triples |-> UNION {Statements(graphs[g], d) :
                                      g \in {h \in Graph : d \in DOMAIN graphs[h]}}] :
     r \in {r \in ListDatasets : r.dataset = d}}

\* Mutant of DatasetCount: COUNT(?dataset), without DISTINCT.
DatasetCountRows == Cardinality(UNION {{g} \X DOMAIN graphs[g] : g \in Graph})

\* get_status: COUNT(DISTINCT ?dataset).
DatasetCount == Cardinality(UNION {DOMAIN graphs[g] : g \in Graph})

-----------------------------------------------------------------------------
(* The store: a push that was accepted replaces the graph of its author. *)

Publish(w, s) ==
    /\ published < MaxPublish
    /\ published' = published + 1
    /\ graphs' = [graphs EXCEPT ![GraphUri(w)] = s]
    /\ last' = [last EXCEPT ![w] = s]
    /\ clean' = FALSE
    /\ UNCHANGED <<page, loading, begun, status, lists, details, wanted>>

\* The server answers what it reads now; the answer is on its way to the page.
AnswerStatus(j) ==
    /\ status[j] = Waiting
    /\ status' = [status EXCEPT ![j] = DatasetCount]
    /\ UNCHANGED <<store, page, loading, begun, lists, details, wanted, clean>>

AnswerList(j) ==
    /\ lists[j] = Waiting
    /\ lists' = [lists EXCEPT ![j] = ListDatasets]
    /\ UNCHANGED <<store, page, loading, begun, status, details, wanted, clean>>

AnswerDetail(j) ==
    /\ details[j] = Waiting
    /\ \E x \in GetDataset(wanted[j]) : details' = [details EXCEPT ![j] = x]
    /\ UNCHANGED <<store, page, loading, begun, status, lists, wanted, clean>>

-----------------------------------------------------------------------------
(* The page: app.js. *)

\* renderRows.
Matches(r, f) == f = None \/ f \in {r.title, r.provider, r.dataset}
Render(l, f, s) == {<<r, r.dataset = s>> : r \in {r \in l : Matches(r, f)}}

Start(j) == j \notin begun /\ begun' = begun \cup {j}

Ask(j, d) ==
    /\ wanted' = [wanted EXCEPT ![j] = d]
    /\ details' = [details EXCEPT ![j] = Waiting]

Quiet == \A j \in Job : status[j] = None /\ lists[j] = None /\ details[j] = None

\* The search box.
Search(f) ==
    /\ filter' = f
    /\ rows' = Render(list, f, selected)
    /\ UNCHANGED <<store, list, selected, count, detail, loading, begun, status,
                   lists, details, wanted, clean>>

\* Mutant of SelectDataset: the table is not drawn again.
SelectUnmarked(j, d) ==
    /\ Start(j)
    /\ selected' = d
    /\ Ask(j, d)
    /\ UNCHANGED <<store, list, filter, rows, count, detail, loading, status, lists, clean>>

\* selectDataset, up to its fetch, by a click on a row.
SelectDataset(j, d) ==
    /\ Start(j)
    /\ selected' = d
    /\ rows' = Render(list, filter, d)
    /\ Ask(j, d)
    /\ clean' = (clean /\ \A k \in Job : details[k] # None => wanted[k] = d)
    /\ UNCHANGED <<store, list, filter, count, detail, loading, status, lists>>

\* refresh, up to Promise.all.
Refresh(j) ==
    /\ Start(j)
    /\ loading' = loading \cup {j}
    /\ status' = [status EXCEPT ![j] = Waiting]
    /\ lists' = [lists EXCEPT ![j] = Waiting]
    /\ clean' = (clean \/ Quiet)
    /\ UNCHANGED <<store, page, details, wanted>>

\* Mutant of GoOn: refresh does not fetch the details again.
GoOnToTheEnd(j, ok, other) ==
    /\ loading' = IF ok /\ other # None THEN loading ELSE loading \ {j}
    /\ UNCHANGED <<details, wanted>>

\* One of the two is there, other is what became of the other one.  After both,
\* in the same turn, the dataset that is selected by now is fetched again; an
\* error ends refresh at once, and not what else it began.
GoOn(j, ok, other) ==
    /\ loading' = IF ok /\ other # None THEN loading ELSE loading \ {j}
    /\ IF ok /\ other = None /\ j \in loading /\ selected # None
       THEN Ask(j, selected)
       ELSE UNCHANGED <<details, wanted>>

\* A request that the server did not answer fails; get_status turns a failing
\* query into a count of 0.
ReceiveStatus(j) ==
    /\ status[j] # None
    /\ \E n \in IF status[j] = Waiting THEN {0, Error} ELSE {status[j]} :
          /\ count' = IF n = Error THEN count ELSE n
          /\ GoOn(j, n # Error, lists[j])
    /\ status' = [status EXCEPT ![j] = None]
    /\ clean' = (clean /\ status[j] # Waiting)
    /\ UNCHANGED <<store, list, selected, filter, rows, detail, begun, lists>>

\* A failing query is a 500, whose body is no JSON.
ReceiveList(j) ==
    /\ lists[j] # None
    /\ list' = IF lists[j] = Waiting THEN list ELSE lists[j]
    /\ rows' = IF lists[j] = Waiting THEN rows ELSE Render(list', filter, selected)
    /\ GoOn(j, lists[j] # Waiting, status[j])
    /\ lists' = [lists EXCEPT ![j] = None]
    /\ clean' = (clean /\ lists[j] # Waiting)
    /\ UNCHANGED <<store, selected, filter, count, detail, begun, status>>

\* selectDataset, after its fetch: without an answer, or with a 404, the panel
\* stays as it is.
ReceiveDetail(j) ==
    /\ details[j] # None
    /\ detail' = IF details[j] = Waiting THEN detail ELSE details[j]
    /\ details' = [details EXCEPT ![j] = None]
    /\ wanted' = [wanted EXCEPT ![j] = None]
    /\ clean' = (clean /\ (details[j] # Waiting \/ GetDataset(wanted[j]) = {}))
    /\ UNCHANGED <<store, list, selected, filter, rows, count, loading, begun, status, lists>>

-----------------------------------------------------------------------------
\* The page is open and its first refresh under way.
Init ==
    /\ graphs = [g \in Graph |-> <<>>]
    /\ last = [w \in WebId |-> <<>>]
    /\ published = 0
    /\ list = {} /\ rows = {}
    /\ selected = None /\ filter = None /\ count = None /\ detail = None
    /\ \E j \in Job :
          /\ begun = {j} /\ loading = {j}
          /\ status = [k \in Job |-> IF k = j THEN Waiting ELSE None]
          /\ lists = [k \in Job |-> IF k = j THEN Waiting ELSE None]
    /\ details = [j \in Job |-> None]
    /\ wanted = [j \in Job |-> None]
    /\ clean = TRUE

Visit(j) == Refresh(j) \/ \E row \in rows : SelectDataset(j, row[1].dataset)

Serve(j) == AnswerStatus(j) \/ AnswerList(j) \/ AnswerDetail(j)

Receive(j) == ReceiveStatus(j) \/ ReceiveList(j) \/ ReceiveDetail(j)

Next ==
    \/ \E w \in WebId, s \in Snapshot : Publish(w, s)
    \/ \E f \in Filter \cup {None} : Search(f)
    \/ \E j \in Job : Visit(j) \/ Serve(j) \/ Receive(j)

Spec == Init /\ [][Next]_vars
-----------------------------------------------------------------------------
(* What must hold. *)

\* What is on its way to the page, or was asked for: counts, lists and details.
AnswersTyped ==
    /\ status \in [Job -> {None, Waiting} \cup 0 .. Cardinality(Dataset)]
    /\ lists \in [Job -> {None, Waiting} \cup SUBSET Row]
    /\ details \in [Job -> {None, Waiting} \cup Detail]
    /\ wanted \in [Job -> Dataset \cup {None}]

\* What the store and the page hold.
StateTyped ==
    /\ published \in 0 .. MaxPublish
    /\ graphs \in Store
    /\ last \in [WebId -> Snapshot \cup {<<>>}]
    /\ list \in SUBSET Row /\ rows \in SUBSET (Row \X BOOLEAN)
    /\ selected \in Dataset \cup {None} /\ filter \in Filter \cup {None}
    /\ count \in 0 .. Cardinality(Dataset) \cup {None}
    /\ detail \in Detail \cup {None}
    /\ begun \in SUBSET Job /\ loading \in SUBSET begun
    /\ clean \in BOOLEAN

(* Every variable keeps its shape: in particular no answer, and so never    *)
(* the page, counts more datasets than there are, however many graphs       *)
(* describe one, and what the page lists and details are rows and details   *)
(* that the endpoints return.                                               *)
TypeOK == StateTyped /\ AnswersTyped

(* The table is the list last received, filtered and marked by what was     *)
(* typed and clicked last: handlers interleave at every await, and each     *)
(* has to draw it again.                                                    *)
TableIsCurrent == rows = Render(list, filter, selected)

(* What /datasets answers is what each participant published last, and no   *)
(* more: WebIDs that differ in an escape do not share a graph, a            *)
(* publication replaces its author's rows and nobody else's, and a dataset  *)
(* without a publisher is listed under the WebID that published it.         *)
EachOwnsItsGraph ==
    ListDatasets = UNION {RowsOf(GraphUri(w), last[w], w) : w \in WebId}

(* Once every answer is there, a page that was refreshed since the last     *)
(* publication shows the index: its list, its count, and the details of the *)
(* dataset that is selected, unless that one has none any more.  Excepted,  *)
(* as the code promises nothing: answers that failed, and details of        *)
(* several datasets under way together.                                     *)
RefreshedPageShowsIndex ==
    clean /\ Quiet =>
        /\ list = UNION {RowsOf(GraphUri(w), last[w], w) : w \in WebId}
        /\ count = Cardinality({r.dataset : r \in list})
        /\ selected # None /\ GetDataset(selected) # {} => detail \in GetDataset(selected)

(* docs/REQUIREMENTS.md, demo 2: "Named-graph provenance remains            *)
(* distinguishable."  Every statement of a detail is in the graph it names. *)
DetailIsOfItsGraph ==
    \A d \in Dataset : \A x \in GetDataset(d) :
        x.triples = Statements(graphs[x.row.graph], d)
=============================================================================
