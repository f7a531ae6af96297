-------------------------- MODULE Discovery_proofs --------------------------
(***************************************************************************)
(* Proofs about Discovery.  What the page shows is right once it is quiet  *)
(* because, as long as it is clean, what has arrived and what is on its    *)
(* way are what the store holds, and whatever is not on the page yet is    *)
(* on its way.                                                             *)
(***************************************************************************)
EXTENDS Discovery, FiniteSetTheorems, TLAPS

\* The graph of each WebID holds what it published last.
GraphsHoldLast == \A w \in WebId : graphs[GraphUri(w)] = last[w]

\* Answers are of the present store, and details of the dataset selected.
AnswersFresh ==
    \A j \in Job :
        /\ status[j] \in {None, Waiting, DatasetCount}
        /\ lists[j] \in {None, Waiting, ListDatasets}
        /\ details[j] # None =>
              /\ wanted[j] = selected
              /\ details[j] # Waiting => details[j] \in GetDataset(selected)

\* A run of refresh waits as long as one of its requests does.
RefreshWaits ==
    \A j \in Job : status[j] # None \/ lists[j] # None => j \in loading

\* What the page does not show yet is on its way to it.
ShownOrComing ==
    /\ count = DatasetCount \/ \E j \in Job : status[j] # None
    /\ list = ListDatasets \/ \E j \in Job : lists[j] # None
    /\ \/ ~ Quiet
       \/ selected = None
       \/ GetDataset(selected) = {}
       \/ detail \in GetDataset(selected)

CleanInv == clean => AnswersFresh /\ RefreshWaits /\ ShownOrComing

IInv == StateTyped /\ AnswersTyped /\ TableIsCurrent /\ GraphsHoldLast /\ CleanInv
-----------------------------------------------------------------------------
(* What is read of a store. *)

(* graph_uri_for_participant and participant_from_graph_uri are inverse to *)
(* each other: no two WebIDs share a graph.                                *)
LEMMA GraphUriInverse ==
    /\ \A w \in WebId : GraphUri(w) \in Graph /\ Owner(GraphUri(w)) = w
    /\ \A g \in Graph : Owner(g) \in WebId /\ GraphUri(Owner(g)) = g
<1>1. ASSUME NEW w \in WebId
      PROVE  Owner(GraphUri(w)) = w
    <2>1. w \in [name : Name, coded : Nat]
        BY WebIdAssumption
    <2>2. w = [name |-> w.name, coded |-> w.coded] /\ w.coded \in Nat
        BY <2>1
    <2>3. GraphUri(w) = [name |-> w.name, coded |-> w.coded + 1]
        BY <2>2 DEF GraphUri
    <2>4. Owner(GraphUri(w)) = [name |-> w.name, coded |-> w.coded + 1 - 1]
        BY <2>2, <2>3 DEF Owner
    <2> QED BY <2>2, <2>4
<1> QED BY <1>1 DEF Graph

(* A snapshot describes some of the datasets. *)
LEMMA SnapshotShape ==
    ASSUME NEW s \in Snapshot \cup {<<>>}
    PROVE  /\ DOMAIN s \subseteq Dataset
           /\ \A d \in DOMAIN s : s[d] \in Description
<1>1. CASE s \in Snapshot
    BY <1>1, SnapshotAssumption
<1>2. CASE s = <<>>
    BY <1>2
<1> QED BY <1>1, <1>2

(* Every row is one that list_datasets may return. *)
LEMMA IndexShape ==
    ASSUME NEW gs \in Store
    PROVE  /\ Index(gs) \subseteq Row
           /\ {r.dataset : r \in Index(gs)} = UNION {DOMAIN gs[g] : g \in Graph}
<1>1. ASSUME NEW g \in Graph, NEW r \in RowsOf(g, gs[g], Owner(g))
      PROVE  r \in Row /\ r.dataset \in DOMAIN gs[g]
    <2>0. PICK d \in DOMAIN gs[g] :
               \E t \in OrNone(gs[g][d].titles), p \in OrNone(gs[g][d].publishers) :
                  r = [graph |-> g, dataset |-> d, title |-> t,
                       provider |-> IF p = None THEN Owner(g) ELSE p]
        BY DEF RowsOf
    <2>1. PICK t \in OrNone(gs[g][d].titles), p \in OrNone(gs[g][d].publishers) :
                  r = [graph |-> g, dataset |-> d, title |-> t,
                       provider |-> IF p = None THEN Owner(g) ELSE p]
        BY <2>0
    <2>2. gs[g] \in Snapshot \cup {<<>>}
        BY DEF Store
    <2>3. d \in Dataset /\ gs[g][d] \in Description
        BY <2>2, SnapshotShape
    <2>4. t \in Title \cup {None} /\ p \in WebId \cup {None}
        BY <2>3 DEF OrNone, Description
    <2>5. Owner(g) \in WebId
        BY GraphUriInverse
    <2> QED BY <2>1, <2>3, <2>4, <2>5 DEF Row
<1>2. ASSUME NEW g \in Graph, NEW d \in DOMAIN gs[g]
      PROVE  \E r \in RowsOf(g, gs[g], Owner(g)) : r.dataset = d
    <2>1. PICK t \in OrNone(gs[g][d].titles) : TRUE
        BY DEF OrNone
    <2>2. PICK p \in OrNone(gs[g][d].publishers) : TRUE
        BY DEF OrNone
    <2> DEFINE R(e) == {[graph |-> g, dataset |-> e, title |-> u,
                         provider |-> IF q = None THEN Owner(g) ELSE q] :
                           u \in OrNone(gs[g][e].titles), q \in OrNone(gs[g][e].publishers)}
    <2>3. PICK r \in R(d) : r.dataset = d
        <3>1. PICK x : x = [graph |-> g, dataset |-> d, title |-> t,
                            provider |-> IF p = None THEN Owner(g) ELSE p]
            OBVIOUS
        <3>2. \E u \in OrNone(gs[g][d].titles) : \E q \in OrNone(gs[g][d].publishers) :
                 x = [graph |-> g, dataset |-> d, title |-> u,
                      provider |-> IF q = None THEN Owner(g) ELSE q]
            BY <2>1, <2>2, <3>1
        <3>3. x \in R(d)
            BY <3>2
        <3>4. x.dataset = d
            BY <3>1
        <3> HIDE DEF R
        <3> QED BY <3>3, <3>4
    <2>4. RowsOf(g, gs[g], Owner(g)) = UNION {R(e) : e \in DOMAIN gs[g]}
        BY DEF RowsOf
    <2>5. r \in RowsOf(g, gs[g], Owner(g))
        <3> HIDE DEF R
        <3> QED BY <2>3, <2>4
    <2> QED BY <2>3, <2>5
<1>3. Index(gs) \subseteq Row
    BY <1>1 DEF Index
<1>4. ASSUME NEW d
      PROVE  d \in {r.dataset : r \in Index(gs)} <=> d \in UNION {DOMAIN gs[g] : g \in Graph}
    BY <1>1, <1>2 DEF Index
<1> QED BY <1>3, <1>4

(* get_status counts some of the datasets. *)
LEMMA CountShape ==
    ASSUME graphs \in Store
    PROVE  DatasetCount \in 0 .. Cardinality(Dataset)
<1> DEFINE D == UNION {DOMAIN graphs[g] : g \in Graph}
<1>1. ASSUME NEW g \in Graph
      PROVE  DOMAIN graphs[g] \subseteq Dataset
    BY SnapshotShape DEF Store
<1>2. D \subseteq Dataset
    BY <1>1
<1>3. /\ IsFiniteSet(D)
      /\ Cardinality(D) <= Cardinality(Dataset)
    BY <1>2, DatasetAssumption, FS_Subset
<1>4. Cardinality(D) \in Nat /\ Cardinality(Dataset) \in Nat
    BY <1>3, DatasetAssumption, FS_CardinalityType
<1> QED BY <1>3, <1>4 DEF DatasetCount

(* What get_dataset returns is a detail. *)
LEMMA DetailShape ==
    ASSUME graphs \in Store, NEW d
    PROVE  GetDataset(d) \subseteq Detail
<1>1. ASSUME NEW g \in Graph, d \in DOMAIN graphs[g]
      PROVE  Statements(graphs[g], d) \subseteq Statement
    <2>1. graphs[g] \in Snapshot \cup {<<>>}
        BY DEF Store
    <2>2. graphs[g][d] \in Description
        BY <1>1, <2>1, SnapshotShape
    <2> QED BY <2>2 DEF Statements, Statement, Description
<1> DEFINE T == UNION {Statements(graphs[g], d) : g \in {h \in Graph : d \in DOMAIN graphs[h]}}
<1>2. T \subseteq Statement
    BY <1>1
<1>3. ListDatasets \subseteq Row
    BY IndexShape DEF ListDatasets
<1>4. ASSUME NEW x \in GetDataset(d)
      PROVE  x \in Detail
    <2>1. PICK r \in ListDatasets : x = [row |-> r, triples |-> T]
        BY <1>4 DEF GetDataset
    <2> QED BY <2>1, <1>2, <1>3 DEF Detail
<1> QED BY <1>4
-----------------------------------------------------------------------------
(* Types. *)

(* The table holds rows, marked or not. *)
LEMMA RenderShape ==
    ASSUME NEW l \in SUBSET Row, NEW f, NEW s
    PROVE  Render(l, f, s) \in SUBSET (Row \X BOOLEAN)
<1>1. ASSUME NEW r
      PROVE  (r.dataset = s) \in BOOLEAN
    BY Zenon
<1>2. \A x \in Render(l, f, s) : \E r \in l, b \in BOOLEAN : x = <<r, b>>
    BY <1>1, Zenon DEF Render
<1> QED BY <1>2

(* Every handler asks for the details of a dataset, if for any. *)
LEMMA AskShape ==
    ASSUME AnswersTyped, NEW j \in Job, NEW d \in Dataset, Ask(j, d)
    PROVE  /\ wanted' \in [Job -> Dataset \cup {None}]
           /\ details' \in [Job -> {None, Waiting} \cup Detail]
BY DEF AnswersTyped, Ask

(* What refresh does after one of its answers. *)
LEMMA GoOnShape ==
    ASSUME StateTyped, AnswersTyped, NEW j \in Job, NEW ok, NEW other, GoOn(j, ok, other)
    PROVE  /\ wanted' \in [Job -> Dataset \cup {None}]
           /\ details' \in [Job -> {None, Waiting} \cup Detail]
           /\ loading' \in SUBSET begun
<1>1. loading' \in SUBSET begun
    BY DEF GoOn, StateTyped
<1>2. CASE selected \in Dataset /\ Ask(j, selected)
    BY <1>1, <1>2, AskShape
<1>3. CASE UNCHANGED <<details, wanted>>
    BY <1>1, <1>3 DEF StateTyped, AnswersTyped
<1> QED BY <1>2, <1>3 DEF GoOn, StateTyped

(* The first states are well typed. *)
LEMMA InitTyped == Init => StateTyped /\ AnswersTyped
<1> SUFFICES ASSUME Init PROVE StateTyped /\ AnswersTyped
    OBVIOUS
<1>1. PICK j \in Job : /\ begun = {j} /\ loading = {j}
                       /\ status = [k \in Job |-> IF k = j THEN Waiting ELSE None]
                       /\ lists = [k \in Job |-> IF k = j THEN Waiting ELSE None]
    BY DEF Init
<1>2. graphs \in Store /\ last \in [WebId -> Snapshot \cup {<<>>}] /\ published \in 0 .. MaxPublish
    BY PublishAssumption DEF Init, Store
<1>3. /\ list \in SUBSET Row /\ rows \in SUBSET (Row \X BOOLEAN)
      /\ selected \in Dataset \cup {None} /\ filter \in Filter \cup {None}
      /\ count \in 0 .. Cardinality(Dataset) \cup {None}
      /\ detail \in Detail \cup {None} /\ clean \in BOOLEAN
    BY DEF Init
<1>4. StateTyped
    BY <1>1, <1>2, <1>3 DEF StateTyped
<1>5. AnswersTyped
    BY <1>1 DEF AnswersTyped, Init
<1> QED BY <1>4, <1>5

(* Every step keeps the types. *)
LEMMA NextTyped ==
    ASSUME StateTyped, AnswersTyped, [Next]_vars
    PROVE  StateTyped' /\ AnswersTyped'
<1> USE DEF store, page
<1>1. ASSUME NEW w \in WebId, NEW s \in Snapshot, Publish(w, s)
      PROVE  StateTyped' /\ AnswersTyped'
    <2>1. published' \in 0 .. MaxPublish
        BY <1>1, PublishAssumption DEF Publish, StateTyped
    <2>2. graphs' \in Store /\ last' \in [WebId -> Snapshot \cup {<<>>}]
        BY <1>1 DEF Publish, StateTyped, Store
    <2>3. StateTyped'
        BY <1>1, <2>1, <2>2 DEF Publish, StateTyped
    <2> QED BY <1>1, <2>3 DEF Publish, AnswersTyped
<1>2. ASSUME NEW f \in Filter \cup {None}, Search(f)
      PROVE  StateTyped' /\ AnswersTyped'
    <2>1. rows' \in SUBSET (Row \X BOOLEAN)
        BY <1>2, RenderShape DEF Search, StateTyped
    <2>2. StateTyped'
        BY <1>2, <2>1 DEF Search, StateTyped
    <2> QED BY <1>2, <2>2 DEF Search, AnswersTyped
<1>3. ASSUME NEW j \in Job, Refresh(j)
      PROVE  StateTyped' /\ AnswersTyped'
    <2>1. loading' \in SUBSET begun' /\ begun' \in SUBSET Job /\ clean' \in BOOLEAN
        BY <1>3 DEF Refresh, Start, StateTyped, Quiet
    <2>2. StateTyped'
        BY <1>3, <2>1 DEF Refresh, StateTyped
    <2> QED BY <1>3, <2>2 DEF Refresh, AnswersTyped
<1>4. ASSUME NEW j \in Job, NEW row \in rows, SelectDataset(j, row[1].dataset)
      PROVE  StateTyped' /\ AnswersTyped'
    <2>1. row[1].dataset \in Dataset
        BY DEF StateTyped, Row
    <2>2. rows' \in SUBSET (Row \X BOOLEAN)
        BY <1>4, RenderShape DEF SelectDataset, StateTyped
    <2>3. /\ wanted' \in [Job -> Dataset \cup {None}]
          /\ details' \in [Job -> {None, Waiting} \cup Detail]
        BY <1>4, <2>1, AskShape DEF SelectDataset
    <2>4. loading' \in SUBSET begun' /\ begun' \in SUBSET Job /\ clean' \in BOOLEAN
        BY <1>4 DEF SelectDataset, Start, StateTyped
    <2>5. StateTyped'
        BY <1>4, <2>1, <2>2, <2>3, <2>4 DEF SelectDataset, StateTyped
    <2> QED BY <1>4, <2>3, <2>5 DEF SelectDataset, AnswersTyped
<1>5. ASSUME NEW j \in Job, AnswerStatus(j)
      PROVE  StateTyped' /\ AnswersTyped'
    <2>1. DatasetCount \in 0 .. Cardinality(Dataset)
        BY CountShape DEF StateTyped
    <2>2. StateTyped'
        BY <1>5 DEF AnswerStatus, StateTyped
    <2> QED BY <1>5, <2>1, <2>2 DEF AnswerStatus, AnswersTyped
<1>6. ASSUME NEW j \in Job, AnswerList(j)
      PROVE  StateTyped' /\ AnswersTyped'
    <2>1. ListDatasets \in SUBSET Row
        BY IndexShape DEF StateTyped, ListDatasets
    <2>2. StateTyped'
        BY <1>6 DEF AnswerList, StateTyped
    <2> QED BY <1>6, <2>1, <2>2 DEF AnswerList, AnswersTyped
<1>7. ASSUME NEW j \in Job, AnswerDetail(j)
      PROVE  StateTyped' /\ AnswersTyped'
    <2>1. GetDataset(wanted[j]) \subseteq Detail
        BY DetailShape DEF StateTyped
    <2>2. StateTyped'
        BY <1>7 DEF AnswerDetail, StateTyped
    <2> QED BY <1>7, <2>1, <2>2 DEF AnswerDetail, AnswersTyped
<1>8. ASSUME NEW j \in Job, ReceiveStatus(j)
      PROVE  StateTyped' /\ AnswersTyped'
    <2>1. PICK n \in IF status[j] = Waiting THEN {0, Error} ELSE {status[j]} :
             /\ count' = IF n = Error THEN count ELSE n
             /\ GoOn(j, n # Error, lists[j])
        BY <1>8 DEF ReceiveStatus
    <2>2. count' \in 0 .. Cardinality(Dataset) \cup {None}
        <3>1. Cardinality(Dataset) \in Nat
            BY DatasetAssumption, FS_CardinalityType
        <3> QED BY <1>8, <2>1, <3>1 DEF ReceiveStatus, StateTyped, AnswersTyped
    <2>3. /\ wanted' \in [Job -> Dataset \cup {None}]
          /\ details' \in [Job -> {None, Waiting} \cup Detail]
          /\ loading' \in SUBSET begun
        BY <2>1, GoOnShape
    <2>4. clean' \in BOOLEAN
        BY <1>8 DEF ReceiveStatus, StateTyped
    <2>5. StateTyped'
        BY <1>8, <2>2, <2>3, <2>4 DEF ReceiveStatus, StateTyped
    <2> QED BY <1>8, <2>3, <2>5 DEF ReceiveStatus, AnswersTyped
<1>9. ASSUME NEW j \in Job, ReceiveList(j)
      PROVE  StateTyped' /\ AnswersTyped'
    <2>1. list' \in SUBSET Row
        BY <1>9 DEF ReceiveList, StateTyped, AnswersTyped
    <2>2. rows' \in SUBSET (Row \X BOOLEAN)
        BY <1>9, <2>1, RenderShape DEF ReceiveList, StateTyped
    <2>3. /\ wanted' \in [Job -> Dataset \cup {None}]
          /\ details' \in [Job -> {None, Waiting} \cup Detail]
          /\ loading' \in SUBSET begun
        BY <1>9, GoOnShape DEF ReceiveList
    <2>4. clean' \in BOOLEAN
        BY <1>9 DEF ReceiveList, StateTyped
    <2>5. StateTyped'
        BY <1>9, <2>1, <2>2, <2>3, <2>4 DEF ReceiveList, StateTyped
    <2> QED BY <1>9, <2>3, <2>5 DEF ReceiveList, AnswersTyped
<1>10. ASSUME NEW j \in Job, ReceiveDetail(j)
       PROVE  StateTyped' /\ AnswersTyped'
    <2>1. detail' \in Detail \cup {None} /\ clean' \in BOOLEAN
        BY <1>10 DEF ReceiveDetail, StateTyped, AnswersTyped
    <2>2. StateTyped'
        BY <1>10, <2>1 DEF ReceiveDetail, StateTyped
    <2> QED BY <1>10, <2>2 DEF ReceiveDetail, AnswersTyped
<1>11. CASE UNCHANGED vars
    BY <1>11 DEF vars, StateTyped, AnswersTyped
<1> QED BY <1>1, <1>2, <1>3, <1>4, <1>5, <1>6, <1>7, <1>8, <1>9, <1>10, <1>11
        DEF Next, Visit, Serve, Receive

(* Every variable of Discovery keeps its shape, answers on their way       *)
(* included, and the page never counts more datasets than there are.       *)
THEOREM DiscoveryTypeCorrect == Spec => []TypeOK
<1>1. Init => TypeOK
    BY InitTyped DEF TypeOK
<1>2. TypeOK /\ [Next]_vars => TypeOK'
    BY NextTyped DEF TypeOK
<1> QED BY <1>1, <1>2, PTL DEF Spec
-----------------------------------------------------------------------------
(* The table and the index. *)

(* Every handler that changes the list, the search text or the selection    *)
(* draws the table again.                                                   *)
LEMMA NextTable == TableIsCurrent /\ [Next]_vars => TableIsCurrent'
<1> SUFFICES ASSUME TableIsCurrent, [Next]_vars PROVE TableIsCurrent'
    OBVIOUS
<1> USE DEF TableIsCurrent, store, page
<1>1. ASSUME NEW w \in WebId, NEW s \in Snapshot, Publish(w, s)
      PROVE  TableIsCurrent'
    BY <1>1 DEF Publish
<1>2. ASSUME NEW f \in Filter \cup {None}, Search(f)
      PROVE  TableIsCurrent'
    BY <1>2 DEF Search
<1>3. ASSUME NEW j \in Job, Refresh(j) \/ Serve(j)
      PROVE  TableIsCurrent'
    BY <1>3 DEF Refresh, Serve, AnswerStatus, AnswerList, AnswerDetail
<1>4. ASSUME NEW j \in Job, NEW d, SelectDataset(j, d)
      PROVE  TableIsCurrent'
    BY <1>4 DEF SelectDataset
<1>5. ASSUME NEW j \in Job, Receive(j)
      PROVE  TableIsCurrent'
    BY <1>5 DEF Receive, ReceiveStatus, ReceiveList, ReceiveDetail
<1>6. CASE UNCHANGED vars
    BY <1>6 DEF vars
<1> QED BY <1>1, <1>2, <1>3, <1>4, <1>5, <1>6 DEF Next, Visit

(* TableIsCurrent: the table is the list last received, filtered and marked *)
(* by what was typed and clicked last, in whatever order answers arrive.    *)
THEOREM TableStaysCurrent == Spec => []TableIsCurrent
<1>1. Init => TableIsCurrent
    BY DEF Init, TableIsCurrent, Render
<1> QED BY <1>1, NextTable, PTL DEF Spec

(* A push replaces the graph of its author, and no graph but that one. *)
LEMMA NextGraphs == StateTyped /\ GraphsHoldLast /\ [Next]_vars => GraphsHoldLast'
<1> SUFFICES ASSUME StateTyped, GraphsHoldLast, [Next]_vars PROVE GraphsHoldLast'
    OBVIOUS
<1>1. ASSUME NEW w \in WebId, NEW s \in Snapshot, Publish(w, s)
      PROVE  GraphsHoldLast'
    <2> SUFFICES ASSUME NEW v \in WebId PROVE graphs'[GraphUri(v)] = last'[v]
        BY DEF GraphsHoldLast
    <2>1. GraphUri(v) \in Graph /\ GraphUri(w) \in Graph
        BY GraphUriInverse
    <2>2. GraphUri(v) = GraphUri(w) <=> v = w
        BY GraphUriInverse
    <2>3. graphs \in [Graph -> Snapshot \cup {<<>>}] /\ last \in [WebId -> Snapshot \cup {<<>>}]
        BY DEF StateTyped, Store
    <2> QED BY <1>1, <2>1, <2>2, <2>3 DEF Publish, GraphsHoldLast
<1>2. CASE UNCHANGED <<graphs, last>>
    BY <1>2 DEF GraphsHoldLast
<1>3. \/ \E w \in WebId, s \in Snapshot : Publish(w, s)
      \/ UNCHANGED <<graphs, last>>
    BY DEF Next, Visit, Serve, Receive, Search, Refresh, SelectDataset, AnswerStatus,
           AnswerList, AnswerDetail, ReceiveStatus, ReceiveList, ReceiveDetail, store, vars
<1> QED BY <1>1, <1>2, <1>3

(* Then the index is what its authors published last. *)
LEMMA IndexIsLast == GraphsHoldLast => EachOwnsItsGraph
<1> SUFFICES ASSUME GraphsHoldLast PROVE EachOwnsItsGraph
    OBVIOUS
<1>1. ASSUME NEW w \in WebId
      PROVE  RowsOf(GraphUri(w), graphs[GraphUri(w)], Owner(GraphUri(w)))
                = RowsOf(GraphUri(w), last[w], w)
    BY GraphUriInverse DEF GraphsHoldLast
<1>2. \A r : r \in ListDatasets
                <=> \E w \in WebId :
                       r \in RowsOf(GraphUri(w), graphs[GraphUri(w)], Owner(GraphUri(w)))
    BY DEF ListDatasets, Index, Graph
<1>3. \A r : r \in ListDatasets <=> \E w \in WebId : r \in RowsOf(GraphUri(w), last[w], w)
    BY <1>1, <1>2
<1> QED BY <1>3 DEF EachOwnsItsGraph

(* EachOwnsItsGraph: /datasets lists what each participant published last, *)
(* under its own name, whatever anybody else publishes.                    *)
THEOREM IndexIsWhatWasPublished == Spec => []EachOwnsItsGraph
<1>1. Init => GraphsHoldLast
    <2> SUFFICES ASSUME Init, NEW w \in WebId PROVE graphs[GraphUri(w)] = last[w]
        BY DEF GraphsHoldLast
    <2> QED BY GraphUriInverse DEF Init
<1>2. TypeOK => StateTyped
    BY DEF TypeOK
<1> QED BY <1>1, <1>2, DiscoveryTypeCorrect, NextGraphs, IndexIsLast, PTL DEF Spec
-----------------------------------------------------------------------------
(* The page after a refresh. *)

(* An answer is neither None nor Waiting. *)
LEMMA AnswersAreAnswers ==
    ASSUME graphs \in Store
    PROVE  /\ DatasetCount \in Nat
           /\ DatasetCount \notin {None, Waiting, Error}
           /\ ListDatasets \notin {None, Waiting}
           /\ \A d : \A x \in GetDataset(d) : x \notin {None, Waiting}
<1>1. DatasetCount \in Nat
    <2>1. Cardinality(Dataset) \in Nat
        BY DatasetAssumption, FS_CardinalityType
    <2> QED BY <2>1, CountShape
<1> QED BY <1>1, DetailShape, AnswerAssumption DEF ListDatasets

(* What the endpoints read changes only with the graphs. *)
LEMMA SameStore ==
    ASSUME UNCHANGED graphs
    PROVE  /\ DatasetCount' = DatasetCount
           /\ ListDatasets' = ListDatasets
           /\ \A d : GetDataset(d)' = GetDataset(d)
BY DEF DatasetCount, ListDatasets, GetDataset

(* A page that is clean and asks for something keeps CleanInv. *)
LEMMA AskClean ==
    ASSUME StateTyped, AnswersTyped, CleanInv, NEW j \in Job, UNCHANGED graphs, clean',
           \/ Refresh(j)
           \/ \E row \in rows : SelectDataset(j, row[1].dataset)
    PROVE  AnswersFresh' /\ RefreshWaits' /\ ShownOrComing'
<1> USE DEF page
<1>0. Waiting # None
    BY AnswerAssumption
<1>1. CASE Refresh(j)
    <2>1. \A k \in Job : \/ k = j /\ status'[k] = Waiting /\ lists'[k] = Waiting
                         \/ k # j /\ status'[k] = status[k] /\ lists'[k] = lists[k]
        BY <1>1 DEF Refresh, AnswersTyped
    <2>2. status'[j] # None /\ lists'[j] # None
        BY <1>0, <2>1
    <2>3. clean => AnswersFresh /\ RefreshWaits
        BY DEF CleanInv
    <2>4. CASE clean
        <3>1. AnswersFresh'
            BY <1>1, <2>1, <2>3, <2>4, SameStore DEF Refresh, AnswersFresh
        <3>2. RefreshWaits'
            BY <1>1, <2>1, <2>3, <2>4 DEF Refresh, RefreshWaits
        <3>3. ShownOrComing'
            BY <2>2 DEF ShownOrComing, Quiet
        <3> QED BY <3>1, <3>2, <3>3
    <2>5. CASE Quiet
        <3>1. \A k \in Job : details'[k] = None
            BY <1>1, <2>5 DEF Refresh, Quiet
        <3>2. AnswersFresh'
            BY <2>1, <2>5, <3>1 DEF AnswersFresh, Quiet
        <3>3. RefreshWaits'
            BY <1>1, <2>1, <2>5 DEF Refresh, RefreshWaits, Quiet
        <3>4. ShownOrComing'
            BY <2>2 DEF ShownOrComing, Quiet
        <3> QED BY <3>2, <3>3, <3>4
    <2> QED BY <1>1, <2>4, <2>5 DEF Refresh
<1>2. ASSUME NEW d, SelectDataset(j, d)
      PROVE  AnswersFresh' /\ RefreshWaits' /\ ShownOrComing'
    <2>1. clean /\ \A k \in Job : details[k] # None => wanted[k] = d
        BY <1>2 DEF SelectDataset
    <2>2. AnswersFresh /\ RefreshWaits /\ ShownOrComing
        BY <2>1 DEF CleanInv
    <2>3. \A k \in Job : \/ k = j /\ details'[k] = Waiting /\ wanted'[k] = d
                         \/ k # j /\ details'[k] = details[k] /\ wanted'[k] = wanted[k]
        BY <1>2 DEF SelectDataset, Ask, AnswersTyped, StateTyped
    <2>4. \A k \in Job : details[k] # None => selected = d
        BY <2>1, <2>2 DEF AnswersFresh
    <2>5. selected' = d /\ UNCHANGED <<status, lists, list, count, loading>>
        BY <1>2 DEF SelectDataset
    <2>6. AnswersFresh'
        BY <2>1, <2>2, <2>3, <2>4, <2>5, SameStore DEF AnswersFresh
    <2>7. RefreshWaits'
        BY <2>2, <2>5 DEF RefreshWaits
    <2>8. ShownOrComing'
        <3>1. ~ Quiet'
            BY <1>0, <2>3 DEF Quiet
        <3> QED BY <2>2, <2>5, <3>1, SameStore DEF ShownOrComing
    <2> QED BY <2>6, <2>7, <2>8
<1> QED BY <1>1, <1>2

(* The server answers with what it reads, and the request stays on its way. *)
LEMMA ServeClean ==
    ASSUME StateTyped, AnswersTyped, CleanInv, NEW j \in Job, Serve(j), clean'
    PROVE  AnswersFresh' /\ RefreshWaits' /\ ShownOrComing'
<1> USE DEF page, store
<1>1. /\ UNCHANGED <<graphs, list, count, selected, detail, loading, wanted>>
      /\ clean
    BY DEF Serve, AnswerStatus, AnswerList, AnswerDetail
<1>2. AnswersFresh /\ RefreshWaits /\ ShownOrComing
    BY <1>1 DEF CleanInv
<1>3. /\ DatasetCount # None /\ ListDatasets # None
      /\ \A d : \A x \in GetDataset(d) : x # None
    BY AnswersAreAnswers DEF StateTyped
<1>4. \A k \in Job : /\ status'[k] \in {status[k], DatasetCount}
                     /\ lists'[k] \in {lists[k], ListDatasets}
                     /\ \/ details'[k] = details[k]
                        \/ details[k] # None /\ details'[k] \in GetDataset(wanted[k])
    BY AnswerAssumption DEF Serve, AnswerStatus, AnswerList, AnswerDetail, AnswersTyped
<1>5. \A k \in Job : /\ status'[k] = None <=> status[k] = None
                     /\ lists'[k] = None <=> lists[k] = None
                     /\ details'[k] = None <=> details[k] = None
    BY <1>3, AnswerAssumption DEF Serve, AnswerStatus, AnswerList, AnswerDetail, AnswersTyped
<1>6. AnswersFresh'
    BY <1>1, <1>2, <1>4, <1>5, SameStore DEF AnswersFresh
<1>7. RefreshWaits'
    BY <1>1, <1>2, <1>5 DEF RefreshWaits
<1>8. Quiet' <=> Quiet
    BY <1>5 DEF Quiet
<1>9. ShownOrComing'
    BY <1>1, <1>2, <1>5, <1>8, SameStore DEF ShownOrComing
<1> QED BY <1>6, <1>7, <1>9

(* The first of the two answers of refresh leaves the other one on its way;  *)
(* the second asks for the details of what is selected.                      *)
LEMMA GoOnClean ==
    ASSUME StateTyped, AnswersTyped, AnswersFresh, RefreshWaits, NEW j \in Job, NEW other,
           status[j] # None \/ lists[j] # None, GoOn(j, TRUE, other),
           UNCHANGED <<graphs, selected>>
    PROVE  /\ \A k \in Job : details'[k] # None =>
                 /\ wanted'[k] = selected'
                 /\ details'[k] # Waiting => details'[k] \in GetDataset(selected)'
           /\ \A k \in Job : k # j \/ other # None => (k \in loading <=> k \in loading')
           /\ other = None => selected = None \/ details'[j] # None
<1>1. j \in loading
    BY DEF RefreshWaits
<1>2. \A k \in Job : details[k] # None =>
         /\ wanted[k] = selected
         /\ details[k] # Waiting => details[k] \in GetDataset(selected)
    BY DEF AnswersFresh
<1>3. \A d : GetDataset(d)' = GetDataset(d)
    BY SameStore
<1>4. \A k \in Job : k # j \/ other # None => (k \in loading <=> k \in loading')
    BY DEF GoOn
<1>5. CASE other = None /\ selected # None
    <2>1. Ask(j, selected)
        BY <1>1, <1>5 DEF GoOn
    <2>2. \A k \in Job : \/ k = j /\ details'[k] = Waiting /\ wanted'[k] = selected
                         \/ k # j /\ details'[k] = details[k] /\ wanted'[k] = wanted[k]
        BY <2>1 DEF Ask, AnswersTyped, StateTyped
    <2> QED BY <1>2, <1>3, <1>4, <2>2, AnswerAssumption
<1>6. CASE ~ (other = None /\ selected # None)
    <2>1. UNCHANGED <<details, wanted>>
        BY <1>6 DEF GoOn
    <2> QED BY <1>2, <1>3, <1>4, <1>6, <2>1
<1> QED BY <1>5, <1>6

(* What arrives is what the store holds. *)
LEMMA ReceiveClean ==
    ASSUME StateTyped, AnswersTyped, CleanInv, NEW j \in Job, Receive(j), clean'
    PROVE  AnswersFresh' /\ RefreshWaits' /\ ShownOrComing'
<1> USE DEF page, store
<1>1. UNCHANGED <<graphs, selected>> /\ clean
    BY DEF Receive, ReceiveStatus, ReceiveList, ReceiveDetail
<1>2. AnswersFresh /\ RefreshWaits /\ ShownOrComing
    BY <1>1 DEF CleanInv
<1>3. /\ DatasetCount' = DatasetCount /\ ListDatasets' = ListDatasets
      /\ \A d : GetDataset(d)' = GetDataset(d)
    BY <1>1, SameStore
<1>4. DatasetCount # Error
    BY AnswersAreAnswers DEF StateTyped
<1>5. CASE ReceiveStatus(j)
    <2>1. status[j] # None /\ status[j] # Waiting
        BY <1>5 DEF ReceiveStatus
    <2>2. status[j] = DatasetCount
        BY <1>2, <2>1 DEF AnswersFresh
    <2>3. count' = DatasetCount /\ GoOn(j, TRUE, lists[j])
        BY <1>4, <1>5, <2>1, <2>2 DEF ReceiveStatus
    <2>4. /\ \A k \in Job : status'[k] = IF k = j THEN None ELSE status[k]
          /\ UNCHANGED <<list, detail, lists>>
        BY <1>5 DEF ReceiveStatus, AnswersTyped
    <2>5. /\ \A k \in Job : details'[k] # None =>
                 /\ wanted'[k] = selected'
                 /\ details'[k] # Waiting => details'[k] \in GetDataset(selected)'
          /\ \A k \in Job : k # j \/ lists[j] # None => (k \in loading <=> k \in loading')
          /\ lists[j] = None => selected = None \/ details'[j] # None
        BY <1>1, <1>2, <2>1, <2>3, GoOnClean
    <2>6. AnswersFresh'
        BY <1>2, <1>3, <2>4, <2>5 DEF AnswersFresh
    <2>7. RefreshWaits'
        BY <1>2, <2>4, <2>5 DEF RefreshWaits
    <2>8. selected' = None \/ ~ Quiet'
        BY <1>1, <2>4, <2>5 DEF Quiet
    <2>9. ShownOrComing'
        BY <1>2, <1>3, <2>3, <2>4, <2>8 DEF ShownOrComing
    <2> QED BY <2>6, <2>7, <2>9
<1>6. CASE ReceiveList(j)
    <2>1. lists[j] # None /\ lists[j] # Waiting
        BY <1>6 DEF ReceiveList
    <2>2. lists[j] = ListDatasets
        BY <1>2, <2>1 DEF AnswersFresh
    <2>3. list' = ListDatasets /\ GoOn(j, TRUE, status[j])
        BY <1>6, <2>1, <2>2 DEF ReceiveList
    <2>4. /\ \A k \in Job : lists'[k] = IF k = j THEN None ELSE lists[k]
          /\ UNCHANGED <<count, detail, status>>
        BY <1>6 DEF ReceiveList, AnswersTyped
    <2>5. /\ \A k \in Job : details'[k] # None =>
                 /\ wanted'[k] = selected'
                 /\ details'[k] # Waiting => details'[k] \in GetDataset(selected)'
          /\ \A k \in Job : k # j \/ status[j] # None => (k \in loading <=> k \in loading')
          /\ status[j] = None => selected = None \/ details'[j] # None
        BY <1>1, <1>2, <2>1, <2>3, GoOnClean
    <2>6. AnswersFresh'
        BY <1>2, <1>3, <2>4, <2>5 DEF AnswersFresh
    <2>7. RefreshWaits'
        BY <1>2, <2>4, <2>5 DEF RefreshWaits
    <2>8. selected' = None \/ ~ Quiet'
        BY <1>1, <2>4, <2>5 DEF Quiet
    <2>9. ShownOrComing'
        BY <1>2, <1>3, <2>3, <2>4, <2>8 DEF ShownOrComing
    <2> QED BY <2>6, <2>7, <2>9
<1>7. CASE ReceiveDetail(j)
    <2>1. /\ details[j] # None /\ UNCHANGED <<status, lists, list, count, loading>>
          /\ details[j] # Waiting \/ GetDataset(wanted[j]) = {}
          /\ detail' = IF details[j] = Waiting THEN detail ELSE details[j]
        BY <1>7 DEF ReceiveDetail
    <2>2. \A k \in Job : \/ k = j /\ details'[k] = None
                         \/ k # j /\ details'[k] = details[k] /\ wanted'[k] = wanted[k]
        BY <1>7 DEF ReceiveDetail, AnswersTyped, StateTyped
    <2>3. /\ wanted[j] = selected
          /\ details[j] # Waiting => details[j] \in GetDataset(selected)
        BY <1>2, <2>1 DEF AnswersFresh
    <2>4. GetDataset(selected) = {} \/ detail' \in GetDataset(selected)
        BY <2>1, <2>3
    <2>5. AnswersFresh'
        BY <1>1, <1>2, <1>3, <2>1, <2>2 DEF AnswersFresh
    <2>6. RefreshWaits'
        BY <1>2, <2>1 DEF RefreshWaits
    <2>7. ShownOrComing'
        BY <1>1, <1>2, <1>3, <2>1, <2>4 DEF ShownOrComing
    <2> QED BY <2>5, <2>6, <2>7
<1> QED BY <1>5, <1>6, <1>7 DEF Receive

(* The first refresh is under way, so everything is coming. *)
LEMMA InitInv == Init => IInv
<1> SUFFICES ASSUME Init PROVE IInv
    OBVIOUS
<1>0. Waiting # None
    BY AnswerAssumption
<1>1. StateTyped /\ AnswersTyped
    BY InitTyped
<1>2. TableIsCurrent
    BY DEF Init, TableIsCurrent, Render
<1>3. GraphsHoldLast
    BY GraphUriInverse DEF Init, GraphsHoldLast
<1>4. PICK j \in Job : /\ begun = {j} /\ loading = {j}
                       /\ status = [k \in Job |-> IF k = j THEN Waiting ELSE None]
                       /\ lists = [k \in Job |-> IF k = j THEN Waiting ELSE None]
    BY DEF Init
<1>5. AnswersFresh /\ RefreshWaits
    BY <1>4 DEF Init, AnswersFresh, RefreshWaits
<1>6. ShownOrComing
    BY <1>0, <1>4 DEF ShownOrComing, Quiet
<1> QED BY <1>1, <1>2, <1>3, <1>5, <1>6 DEF IInv, CleanInv

(* Every step keeps the invariant. *)
LEMMA NextInv == IInv /\ [Next]_vars => IInv'
<1> SUFFICES ASSUME IInv, [Next]_vars PROVE IInv'
    OBVIOUS
<1>1. StateTyped /\ AnswersTyped /\ TableIsCurrent /\ GraphsHoldLast /\ CleanInv
    BY DEF IInv
<1>2. StateTyped' /\ AnswersTyped' /\ TableIsCurrent' /\ GraphsHoldLast'
    BY <1>1, NextTyped, NextTable, NextGraphs
<1>3. ASSUME clean'
      PROVE  AnswersFresh' /\ RefreshWaits' /\ ShownOrComing'
    <2>1. ASSUME NEW w \in WebId, NEW s \in Snapshot, Publish(w, s)
          PROVE  FALSE
        BY <1>3, <2>1 DEF Publish
    <2>2. CASE \/ \E f \in Filter \cup {None} : Search(f)
               \/ UNCHANGED vars
        <3>1. UNCHANGED <<graphs, clean, selected, list, count, detail, loading,
                          status, lists, details, wanted>>
            BY <2>2 DEF Search, vars, store, page
        <3>2. AnswersFresh /\ RefreshWaits /\ ShownOrComing
            BY <1>1, <1>3, <3>1 DEF CleanInv
        <3>3. AnswersFresh'
            BY <3>1, <3>2, SameStore DEF AnswersFresh
        <3>4. RefreshWaits'
            BY <3>1, <3>2 DEF RefreshWaits
        <3>5. ShownOrComing'
            BY <3>1, <3>2, SameStore DEF ShownOrComing, Quiet
        <3> QED BY <3>3, <3>4, <3>5
    <2>3. ASSUME NEW j \in Job, Visit(j)
          PROVE  AnswersFresh' /\ RefreshWaits' /\ ShownOrComing'
        <3>1. UNCHANGED graphs
            BY <2>3 DEF Visit, Refresh, SelectDataset, store
        <3> QED BY <1>1, <1>3, <2>3, <3>1, AskClean DEF Visit
    <2>4. ASSUME NEW j \in Job, Serve(j) \/ Receive(j)
          PROVE  AnswersFresh' /\ RefreshWaits' /\ ShownOrComing'
        BY <1>1, <1>3, <2>4, ServeClean, ReceiveClean
    <2> QED BY <2>1, <2>2, <2>3, <2>4 DEF Next
<1> QED BY <1>2, <1>3 DEF IInv, CleanInv

(* Once every request is answered, the invariant says what the page shows. *)
LEMMA CleanShowsIndex == IInv => RefreshedPageShowsIndex
<1> SUFFICES ASSUME IInv, clean, Quiet
             PROVE  /\ list = UNION {RowsOf(GraphUri(w), last[w], w) : w \in WebId}
                    /\ count = Cardinality({r.dataset : r \in list})
                    /\ selected # None /\ GetDataset(selected) # {} =>
                          detail \in GetDataset(selected)
    BY DEF RefreshedPageShowsIndex
<1>1. ShownOrComing
    BY DEF IInv, CleanInv
<1>2. list = ListDatasets /\ count = DatasetCount
    BY <1>1 DEF ShownOrComing, Quiet
<1>3. EachOwnsItsGraph
    BY IndexIsLast DEF IInv
<1>4. {r.dataset : r \in ListDatasets} = UNION {DOMAIN graphs[g] : g \in Graph}
    BY IndexShape DEF IInv, StateTyped, ListDatasets
<1>5. selected # None /\ GetDataset(selected) # {} => detail \in GetDataset(selected)
    BY <1>1 DEF ShownOrComing
<1> QED BY <1>2, <1>3, <1>4, <1>5 DEF EachOwnsItsGraph, DatasetCount

(* RefreshedPageShowsIndex: a page that was refreshed since the last          *)
(* publication shows the index, its count and the details of what is selected, *)
(* however the answers overlapped and whatever was clicked meanwhile.          *)
THEOREM PageShowsIndex == Spec => []RefreshedPageShowsIndex
<1> QED BY InitInv, NextInv, CleanShowsIndex, PTL DEF Spec
=============================================================================
