----------------------- MODULE SparqlEndpoint_proofs -----------------------
(***************************************************************************)
(* The invariants of SparqlEndpoint, for any finite set of requests, any   *)
(* texts, limits and number of slots.  The first part is about slots, the  *)
(* second about texts: what the parser of the index sees of a query that   *)
(* was rewritten as a text is what a rewriting of its words would give.    *)
(***************************************************************************)
EXTENDS SparqlEndpoint, FiniteSetTheorems, SequenceTheorems, WellFoundedInduction, TLAPS

Stages == {"new", "receiving", "pooled", "querying", "releasing", "returned", "done", "gone"}

(* The stages between the acquisition of a slot and its release.           *)
HoldingStages == {"pooled", "querying", "releasing"}

IInv == TypeOK /\ SlotsConserved

-----------------------------------------------------------------------------
(* The requests that hold a slot are finitely many.                        *)
LEMMA HoldingIsFinite == IsFiniteSet(Holding) /\ Cardinality(Holding) \in Nat
<1>1. Holding \subseteq Query
  BY DEF Holding
<1> QED
  BY <1>1, QueryAssumption, FS_Subset, FS_CardinalityType

(* What a move does to the variables it touches: the size starts again at  *)
(* nothing, and the stages of the others stay.                             *)
LEMMA MoveKeepsTypes ==
  ASSUME TypeOK, NEW q \in Query, NEW s \in Stages, Move(q, s)
  PROVE  /\ stage' \in [Query -> Stages] /\ size' \in [Query -> Nat]
         /\ \A r \in Query :
               size'[r] <= IF stage'[r] = "querying" THEN MaxResponse ELSE MaxBody
         /\ stage'[q] = s /\ \A r \in Query \ {q} : stage'[r] = stage[r]
<1>1. /\ stage' \in [Query -> Stages] /\ size' \in [Query -> Nat]
      /\ stage'[q] = s /\ size'[q] = 0
      /\ \A r \in Query \ {q} : stage'[r] = stage[r] /\ size'[r] = size[r]
  BY DEF Move, TypeOK, Stages
<1>2. 0 <= MaxResponse /\ 0 <= MaxBody
  BY LimitsAssumption
<1> QED
  BY <1>1, <1>2 DEF TypeOK

(* A move within, or without, the stages that hold a slot changes nothing  *)
(* about who holds one.                                                    *)
LEMMA SameHolding ==
  ASSUME TypeOK, NEW q \in Query, NEW s \in Stages, Move(q, s),
         stage[q] \in HoldingStages <=> s \in HoldingStages
  PROVE  Holding' = Holding
<1>1. stage'[q] = s /\ \A r \in Query \ {q} : stage'[r] = stage[r]
  BY MoveKeepsTypes
<1> QED
  BY <1>1 DEF Holding, HoldingStages

(* The initial state: every slot is free.                                  *)
LEMMA InitIInv == Init => IInv
<1> SUFFICES ASSUME Init PROVE IInv
  OBVIOUS
<1>1. TypeOK
  BY SlotsAssumption, LimitsAssumption DEF Init, TypeOK
<1>2. Holding = {}
  BY DEF Init, Holding
<1> QED
  BY <1>1, <1>2, SlotsAssumption, FS_EmptySet DEF IInv, SlotsConserved, Init

(* A step that moves on one request and leaves the slots alone.            *)
LEMMA MoveIInv ==
  ASSUME IInv, NEW q \in Query, NEW s \in Stages, Move(q, s), UNCHANGED free,
         stage[q] \in HoldingStages <=> s \in HoldingStages,
         text' \in [Query -> Text \cup {<<>>}],
         answer' \in [Query -> {0, 200, 400, 413, 429, 500, 502, 504}]
  PROVE  IInv'
<1>1. Holding' = Holding
  BY SameHolding DEF IInv
<1>2. TypeOK'
  BY MoveKeepsTypes DEF IInv, TypeOK, Stages
<1> QED
  BY <1>1, <1>2 DEF IInv, SlotsConserved

(* A chunk that is within the limit of its stage.                          *)
LEMMA GrowIInv ==
  ASSUME IInv, NEW q \in Query, UNCHANGED <<stage, text, free, answer>>,
         size' = [size EXCEPT ![q] = @ + 1],
         size[q] # IF stage[q] = "querying" THEN MaxResponse ELSE MaxBody
  PROVE  IInv'
<1>1. size[q] \in Nat /\ size[q] <= IF stage[q] = "querying" THEN MaxResponse ELSE MaxBody
  BY DEF IInv, TypeOK
<1>2. size[q] + 1 <= IF stage[q] = "querying" THEN MaxResponse ELSE MaxBody
  BY <1>1, LimitsAssumption
<1>3. size' \in [Query -> Nat] /\ size'[q] = size[q] + 1
      /\ \A r \in Query \ {q} : size'[r] = size[r]
  BY <1>1 DEF IInv, TypeOK
<1>4. \A r \in Query : size'[r] <= IF stage'[r] = "querying" THEN MaxResponse ELSE MaxBody
  BY <1>2, <1>3 DEF IInv, TypeOK
<1>5. TypeOK'
  BY <1>3, <1>4 DEF IInv, TypeOK
<1> QED
  BY <1>5 DEF IInv, SlotsConserved, Holding

(* What the client does, but for the acquisition of a slot.                *)
LEMMA ClientIInv ==
  ASSUME IInv, NEW q \in Query,
         \/ Arrive(q) \/ ReceiveChunk(q) \/ Disconnect(q) \/ Malformed(q) \/ AtCapacity(q)
  PROVE  IInv'
<1> USE DEF Stages, HoldingStages
<1>0. /\ text \in [Query -> Text \cup {<<>>}]
      /\ \A n \in {0, 200, 400, 413, 429, 500, 502, 504} :
            [answer EXCEPT ![q] = n] \in [Query -> {0, 200, 400, 413, 429, 500, 502, 504}]
      /\ answer \in [Query -> {0, 200, 400, 413, 429, 500, 502, 504}]
  BY DEF IInv, TypeOK
<1>1. CASE Arrive(q)
  BY <1>0, <1>1, MoveIInv DEF Arrive
<1>2. CASE ReceiveChunk(q)
  <2>1. CASE size[q] = MaxBody
    BY <1>0, <1>2, <2>1, MoveIInv DEF ReceiveChunk, Leave
  <2>2. CASE size[q] # MaxBody
    BY <1>2, <2>2, GrowIInv DEF ReceiveChunk
  <2> QED
    BY <2>1, <2>2
<1>3. CASE Disconnect(q)
  BY <1>0, <1>3, MoveIInv DEF Disconnect
<1>4. CASE Malformed(q)
  BY <1>0, <1>4, MoveIInv DEF Malformed, Leave
<1>5. CASE AtCapacity(q)
  BY <1>0, <1>5, MoveIInv DEF AtCapacity, Leave
<1> QED
  BY <1>1, <1>2, <1>3, <1>4, <1>5

(* What the thread does with a slot in hand, and the answer afterwards.    *)
LEMMA ServerIInv ==
  ASSUME IInv, NEW q \in Query,
         Reject(q) \/ SendQuery(q) \/ IndexChunk(q) \/ IndexEnds(q) \/ Respond(q)
  PROVE  IInv'
<1> USE DEF Stages, HoldingStages
<1>0. /\ \A t \in Text \cup {<<>>} : [text EXCEPT ![q] = t] \in [Query -> Text \cup {<<>>}]
      /\ text \in [Query -> Text \cup {<<>>}]
      /\ \A n \in {0, 200, 400, 413, 429, 500, 502, 504} :
            [answer EXCEPT ![q] = n] \in [Query -> {0, 200, 400, 413, 429, 500, 502, 504}]
      /\ answer \in [Query -> {0, 200, 400, 413, 429, 500, 502, 504}]
  BY DEF IInv, TypeOK
<1>1. CASE Reject(q)
  BY <1>0, <1>1, MoveIInv DEF Reject, Leave
<1>2. CASE SendQuery(q)
  BY <1>0, <1>2, MoveIInv DEF SendQuery
<1>3. ASSUME NEW n \in {200, 400, 502, 504}, stage[q] = "querying", Executed(q, n), UNCHANGED free
      PROVE  IInv'
  BY <1>0, <1>3, MoveIInv DEF Executed, Leave
<1>4. CASE IndexChunk(q)
  <2>1. CASE size[q] = MaxResponse
    BY <1>3, <1>4, <2>1 DEF IndexChunk
  <2>2. CASE size[q] # MaxResponse
    BY <1>4, <2>2, GrowIInv DEF IndexChunk
  <2> QED
    BY <2>1, <2>2
<1>5. CASE IndexEnds(q)
  BY <1>3, <1>5 DEF IndexEnds
<1>6. CASE Respond(q)
  BY <1>0, <1>6, MoveIInv DEF Respond
<1> QED
  BY <1>1, <1>2, <1>4, <1>5, <1>6

(* One slot less, one holder more.                                         *)
LEMMA AcquireIInv == ASSUME IInv, NEW q \in Query, Acquire(q) PROVE IInv'
<1>0. /\ stage[q] = "receiving" /\ free \in 0 .. Slots /\ free > 0 /\ free' = free - 1
      /\ Move(q, "pooled") /\ UNCHANGED <<text, answer>>
  BY DEF IInv, TypeOK, Acquire
<1>1. /\ stage' \in [Query -> Stages] /\ size' \in [Query -> Nat]
      /\ \A r \in Query : size'[r] <= IF stage'[r] = "querying" THEN MaxResponse ELSE MaxBody
      /\ stage'[q] = "pooled" /\ \A r \in Query \ {q} : stage'[r] = stage[r]
  BY <1>0, MoveKeepsTypes DEF IInv, Stages
<1>2. TypeOK'
  BY <1>0, <1>1, SlotsAssumption DEF IInv, TypeOK, Stages
<1>3. Holding' = Holding \cup {q} /\ q \notin Holding
  BY <1>0, <1>1 DEF Holding
<1>4. Cardinality(Holding') = Cardinality(Holding) + 1
  BY <1>3, HoldingIsFinite, FS_AddElement
<1>5. SlotsConserved'
  BY <1>0, <1>4, HoldingIsFinite, SlotsAssumption DEF IInv, SlotsConserved
<1> QED
  BY <1>2, <1>5 DEF IInv

(* One holder less, one slot more: there is room for it, as this request   *)
(* still holds the slot it returns.                                        *)
LEMMA ReleaseIInv == ASSUME IInv, NEW q \in Query, Release(q) PROVE IInv'
<1>0. /\ stage[q] = "releasing" /\ free \in 0 .. Slots /\ free' = free + 1
      /\ Move(q, "returned") /\ UNCHANGED <<text, answer>>
  BY DEF IInv, TypeOK, Release
<1>1. /\ stage' \in [Query -> Stages] /\ size' \in [Query -> Nat]
      /\ \A r \in Query : size'[r] <= IF stage'[r] = "querying" THEN MaxResponse ELSE MaxBody
      /\ stage'[q] = "returned" /\ \A r \in Query \ {q} : stage'[r] = stage[r]
  BY <1>0, MoveKeepsTypes DEF IInv, Stages
<1>2. Holding' = Holding \ {q} /\ q \in Holding
  BY <1>0, <1>1 DEF Holding
<1>3. /\ IsFiniteSet(Holding') /\ Cardinality(Holding') \in Nat
      /\ Cardinality(Holding') = Cardinality(Holding) - 1
  BY <1>2, HoldingIsFinite, FS_RemoveElement, FS_CardinalityType
<1>4. SlotsConserved' /\ free' \in 0 .. Slots
  BY <1>0, <1>3, HoldingIsFinite, SlotsAssumption DEF IInv, SlotsConserved
<1>5. TypeOK'
  BY <1>0, <1>1, <1>4 DEF IInv, TypeOK, Stages
<1> QED
  BY <1>4, <1>5 DEF IInv

(* Every step.                                                             *)
LEMMA NextIInv == IInv /\ [Next]_vars => IInv'
<1> SUFFICES ASSUME IInv, [Next]_vars PROVE IInv'
  OBVIOUS
<1>1. CASE UNCHANGED vars
  BY <1>1 DEF vars, IInv, TypeOK, SlotsConserved, Holding
<1>2. ASSUME NEW q \in Query, ClientStep(q) \/ ServerStep(q) PROVE IInv'
  BY <1>2, ClientIInv, AcquireIInv, ServerIInv, ReleaseIInv DEF ClientStep, ServerStep
<1> QED
  BY <1>1, <1>2 DEF Next

(* The invariant in every reachable state.                                 *)
LEMMA SparqlInvariance == Spec => []IInv
BY InitIInv, NextIInv, PTL DEF Spec

(* The semaphore never leaves its bounds, so its release never raises, and *)
(* neither body nor answer outgrows its limit.                             *)
THEOREM SparqlTypeCorrect == Spec => []TypeOK
<1>1. IInv => TypeOK
  BY DEF IInv
<1> QED
  BY <1>1, SparqlInvariance, PTL

(* No path through execute loses a slot or returns one twice.              *)
THEOREM SlotsAreConserved == Spec => []SlotsConserved
<1>1. IInv => SlotsConserved
  BY DEF IInv
<1> QED
  BY <1>1, SparqlInvariance, PTL

(* What a step of one request leaves of another.                           *)
LEMMA OthersStay ==
  ASSUME TypeOK, NEW q \in Query, NEW r \in Query \ {q}, ClientStep(r) \/ ServerStep(r)
  PROVE  stage'[q] = stage[q] /\ size'[q] = size[q]
<1>1. \/ \E s \in Stages : Move(r, s)
      \/ stage' = stage /\ size' = [size EXCEPT ![r] = @ + 1]
  BY DEF ClientStep, ServerStep, Arrive, ReceiveChunk, Disconnect, Malformed, Acquire,
     AtCapacity, Reject, SendQuery, IndexChunk, IndexEnds, Executed, Release, Respond,
     Leave, Stages
<1> QED
  BY <1>1 DEF Move, TypeOK

(* A step of a request that holds a slot, or has just returned it.         *)
LEMMA OwnStepShortens ==
  ASSUME TypeOK, NEW q \in Query, Remaining(q) # 0, ClientStep(q) \/ ServerStep(q)
  PROVE  Remaining(q)' < Remaining(q)
<1>0. MaxResponse \in Nat /\ size[q] \in Nat /\ stage[q] \in Stages
  BY LimitsAssumption DEF TypeOK, Stages
<1>1. ~ClientStep(q)
  BY DEF Remaining, ClientStep, Arrive, ReceiveChunk, Disconnect, Malformed, Acquire, AtCapacity
<1>2. ASSUME NEW s \in Stages, Move(q, s)
      PROVE  stage'[q] = s /\ size'[q] = 0
  BY <1>2 DEF Move, TypeOK
<1>3. CASE Reject(q)
  <2>1. stage[q] = "pooled" /\ stage'[q] = "releasing"
    BY <1>2, <1>3 DEF Reject, Leave, Stages
  <2> QED
    BY <1>0, <2>1 DEF Remaining
<1>4. CASE SendQuery(q)
  <2>1. stage[q] = "pooled" /\ stage'[q] = "querying" /\ size'[q] = 0
    BY <1>2, <1>4 DEF SendQuery, Stages
  <2> QED
    BY <1>0, <2>1 DEF Remaining
<1>5. CASE IndexChunk(q) \/ IndexEnds(q)
  <2>1. stage[q] = "querying" /\ size[q] <= MaxResponse
    BY <1>5 DEF IndexChunk, IndexEnds, TypeOK
  <2>2. \/ stage'[q] = "releasing"
        \/ stage'[q] = "querying" /\ size'[q] = size[q] + 1
    BY <1>2, <1>5, <2>1 DEF IndexChunk, IndexEnds, Executed, Leave, Stages, TypeOK
  <2> QED
    BY <1>0, <2>1, <2>2 DEF Remaining
<1>6. CASE Release(q)
  <2>1. stage[q] = "releasing" /\ stage'[q] = "returned"
    BY <1>2, <1>6 DEF Release, Stages
  <2> QED
    BY <2>1 DEF Remaining
<1>7. CASE Respond(q)
  <2>1. stage[q] = "returned" /\ stage'[q] = "done"
    BY <1>2, <1>7 DEF Respond, Stages
  <2> QED
    BY <2>1 DEF Remaining
<1> QED
  BY <1>1, <1>3, <1>4, <1>5, <1>6, <1>7 DEF ServerStep

(* Whatever the index does, a request that took a slot has ever fewer steps *)
(* left, and no step of another request adds to them.                       *)
THEOREM AdmittedWorkIsBounded == Spec => AdmittedWorkRunsOut
<1> DEFINE Shorter == \A q \in Query : Remaining(q) # 0 =>
                         \/ UNCHANGED <<stage[q], size[q]>>
                         \/ Remaining(q)' < Remaining(q)
<1>1. ASSUME TypeOK, [Next]_vars
      PROVE  [Shorter]_vars
  <2>1. SUFFICES ASSUME NEW r \in Query, ClientStep(r) \/ ServerStep(r),
                        NEW q \in Query, Remaining(q) # 0
                 PROVE  UNCHANGED <<stage[q], size[q]>> \/ Remaining(q)' < Remaining(q)
    BY <1>1 DEF Next
  <2>2. CASE q = r
    BY <1>1, <2>1, <2>2, OwnStepShortens
  <2>3. CASE q # r
    BY <1>1, <2>1, <2>3, OthersStay
  <2> QED
    BY <2>2, <2>3
<1>2. TypeOK /\ [Next]_vars => [Shorter]_vars
  BY <1>1
<1> QED
  BY <1>2, SparqlTypeCorrect, PTL DEF Spec, AdmittedWorkRunsOut

-----------------------------------------------------------------------------
(* The elements of a set of positions, in order.                           *)

(* A non-empty set of naturals has a first element.                        *)
LEMMA FirstExists ==
  ASSUME NEW S, S \subseteq Nat, S # {}
  PROVE  First(S) \in S /\ \A k \in S : First(S) <= k
<1> DEFINE Less == OpToRel(<, Nat)
<1>1. IsWellFoundedOn(Less, Nat)
  BY NatLessThanWellFounded
<1>2. \A x, y \in Nat : <<y, x>> \in Less <=> y < x
  BY DEF OpToRel
<1> HIDE DEF Less
<1>3. PICK x \in S : \A y \in S : ~(<<y, x>> \in Less)
  BY <1>1, WFMin
<1>4. ASSUME NEW y \in S PROVE x <= y
  <2>1. x \in Nat /\ y \in Nat
    OBVIOUS
  <2>2. ~(y < x)
    BY <1>2, <1>3, <2>1, Zenon
  <2> QED
    BY <2>1, <2>2
<1> QED
  BY <1>3, <1>4, Zenon DEF First

(* g lists the n elements of S in ascending order.                         *)
Lists(g, n, S) ==
    /\ n \in Nat
    /\ g \in [1 .. n -> S]
    /\ \A i, j \in 1 .. n : i < j => g[i] < g[j]
    /\ \A v \in S : \E i \in 1 .. n : g[i] = v

(* There is one such list, and it says which element is the nth.           *)
LEMMA ListIsUnique ==
  ASSUME NEW S, S \subseteq Nat, NEW n, NEW g, Lists(g, n, S)
  PROVE  IsFiniteSet(S) /\ Cardinality(S) = n /\ \A m \in 1 .. n : Nth(S, m) = g[m]
<1> DEFINE Upto(i) == {k \in S : k <= i}
<1>0. /\ n \in Nat /\ g \in [1 .. n -> S]
      /\ \A i, j \in 1 .. n : i < j => g[i] < g[j]
      /\ \A v \in S : \E i \in 1 .. n : g[i] = v
      /\ \A i \in 1 .. n : g[i] \in Nat
  BY DEF Lists
<1>1. ASSUME NEW m \in 1 .. n PROVE Cardinality(Upto(g[m])) = m
  <2> DEFINE h == [i \in 1 .. m |-> g[i]]
  <2>1. \A i \in 1 .. n : g[i] <= g[m] <=> i <= m
    BY <1>0
  <2>2. h \in [1 .. m -> Upto(g[m])]
    BY <1>0, <2>1
  <2>3. \A i, j \in 1 .. m : h[i] = h[j] => i = j
    <3> SUFFICES ASSUME NEW i \in 1 .. m, NEW j \in 1 .. m, i # j PROVE h[i] # h[j]
      OBVIOUS
    <3>1. i \in 1 .. n /\ j \in 1 .. n /\ (i < j \/ j < i)
      BY <1>0
    <3> QED
      BY <1>0, <3>1
  <2>4. \A v \in Upto(g[m]) : \E i \in 1 .. m : h[i] = v
    BY <1>0, <2>1
  <2>5. h \in Bijection(1 .. m, Upto(g[m]))
    BY <2>2, <2>3, <2>4 DEF Bijection, Injection, IsInjective, Surjection
  <2>6. ExistsBijection(1 .. m, Upto(g[m]))
    BY <2>5 DEF ExistsBijection
  <2> QED
    BY <2>6, FS_CountingElements, m \in Nat
<1>2. IsFiniteSet(S) /\ Cardinality(S) = n
  <2>1. \A i, j \in 1 .. n : g[i] = g[j] => i = j
    <3> SUFFICES ASSUME NEW i \in 1 .. n, NEW j \in 1 .. n, i # j PROVE g[i] # g[j]
      OBVIOUS
    <3>1. i < j \/ j < i
      BY <1>0
    <3> QED
      BY <1>0, <3>1
  <2>2. g \in Bijection(1 .. n, S)
    BY <1>0, <2>1 DEF Bijection, Injection, IsInjective, Surjection
  <2>3. ExistsBijection(1 .. n, S)
    BY <2>2 DEF ExistsBijection
  <2> QED
    BY <1>0, <2>3, FS_CountingElements, FS_NatBijection
<1>3. ASSUME NEW m \in 1 .. n PROVE Nth(S, m) = g[m]
  <2>1. g[m] \in S /\ Cardinality(Upto(g[m])) = m
    BY <1>0, <1>1
  <2>2. \A v \in S : Cardinality(Upto(v)) = m => v = g[m]
    <3> SUFFICES ASSUME NEW v \in S, Cardinality(Upto(v)) = m PROVE v = g[m]
      OBVIOUS
    <3>1. PICK i \in 1 .. n : g[i] = v
      BY <1>0
    <3> HIDE DEF Upto
    <3>2. Cardinality(Upto(g[i])) = i
      BY <1>1
    <3> QED
      BY <3>1, <3>2
  <2> QED
    BY <2>1, <2>2 DEF Nth
<1> QED
  BY <1>2, <1>3

(* Every finite set of naturals has its list.                              *)
LEMMA ListExists ==
  ASSUME NEW S, S \subseteq Nat, IsFiniteSet(S)
  PROVE  \E g : Lists(g, Cardinality(S), S)
<1> DEFINE n == Cardinality(S)
           Upto(i) == {k \in S : k <= i}
           rank == [v \in S |-> Cardinality(Upto(v))]
           g == [m \in 1 .. n |-> CHOOSE v \in S : rank[v] = m]
<1>1. n \in Nat /\ \A v \in S : IsFiniteSet(Upto(v)) /\ Cardinality(Upto(v)) \in Nat
  BY FS_CardinalityType, FS_Subset
<1>2. ASSUME NEW v \in S PROVE Cardinality(Upto(v)) \in 1 .. n
  <2>1. v \in Upto(v)
    OBVIOUS
  <2>2. Cardinality(Upto(v)) # 0
    BY <1>1, <2>1, FS_EmptySet
  <2>3. Upto(v) \in SUBSET S
    OBVIOUS
  <2>4. Cardinality(Upto(v)) <= n
    BY <2>3, FS_Subset
  <2> HIDE DEF Upto, n
  <2> QED
    BY <1>1, <2>2, <2>4
<1>3. ASSUME NEW v \in S, NEW w \in S, v < w PROVE Cardinality(Upto(v)) < Cardinality(Upto(w))
  <2>1. Upto(v) \in SUBSET Upto(w)
    <3>1. \A k \in S : k <= v => k <= w
      BY <1>3
    <3> QED
      BY <3>1
  <2>2. w \in Upto(w) /\ w \notin Upto(v)
    BY <1>3
  <2>3. Upto(v) # Upto(w)
    BY <2>2
  <2> HIDE DEF Upto
  <2>4. Cardinality(Upto(v)) <= Cardinality(Upto(w)) /\ Cardinality(Upto(v)) # Cardinality(Upto(w))
    BY <1>1, <2>1, <2>3, FS_Subset
  <2> QED
    BY <1>1, <2>4
<1>4. rank \in [S -> 1 .. n]
  BY <1>2
<1>5. \A v, w \in S : rank[v] = rank[w] => v = w
  <2> SUFFICES ASSUME NEW v \in S, NEW w \in S, v # w PROVE rank[v] # rank[w]
    OBVIOUS
  <2>0. rank[v] = Cardinality(Upto(v)) /\ rank[w] = Cardinality(Upto(w))
    OBVIOUS
  <2> HIDE DEF rank, Upto
  <2>1. CASE v < w
    BY <1>1, <1>3, <2>0, <2>1
  <2>2. CASE w < v
    BY <1>1, <1>3, <2>0, <2>2
  <2> QED
    BY <2>1, <2>2
<1>6. rank \in Surjection(S, 1 .. n)
  <2>1. rank \in Injection(S, 1 .. n)
    BY <1>4, <1>5 DEF Injection, IsInjective
  <2>2. IsFiniteSet(1 .. n) /\ Cardinality(1 .. n) = n
    BY <1>1, FS_Interval
  <2> HIDE DEF rank
  <2> QED
    BY <2>1, <2>2, FS_Injection
<1>7. \A m \in 1 .. n : \E v \in S : rank[v] = m
  BY <1>6 DEF Surjection
<1>8. \A m \in 1 .. n : g[m] \in S /\ rank[g[m]] = m
  <2> HIDE DEF rank, n
  <2> QED BY <1>7
<1>9. ASSUME NEW i \in 1 .. n, NEW j \in 1 .. n, i < j PROVE g[i] < g[j]
  <2>0. i \in Nat /\ j \in Nat
    OBVIOUS
  <2>1. ASSUME NEW a \in S, NEW b \in S, rank[a] = i, rank[b] = j PROVE a < b
    <3>1. a = b => i = j
      BY <2>1
    <3>2. b < a => j < i
      BY <1>3, <2>1
    <3> QED
      BY <1>9, <2>0, <3>1, <3>2
  <2> HIDE DEF rank, g
  <2> QED
    BY <1>8, <2>1
<1>10. \A v \in S : \E i \in 1 .. n : g[i] = v
  <2> SUFFICES ASSUME NEW v \in S PROVE g[rank[v]] = v /\ rank[v] \in 1 .. n
    BY Zenon
  <2> HIDE DEF rank, g, n
  <2> QED
    BY <1>4, <1>5, <1>8
<1>11. g \in [1 .. n -> S]
  <2> HIDE DEF rank, n
  <2> QED
    BY <1>8
<1>12. Lists(g, n, S)
  <2> HIDE DEF g, rank, n
  <2> QED
    BY <1>1, <1>9, <1>10, <1>11 DEF Lists
<1> QED
  BY <1>12

-----------------------------------------------------------------------------
(* Texts and their code.                                                   *)

(* The words that the rewriting adds.                                      *)
Added == {"SELECT", "open", "\n", "close", "MaxRows"}

(* The wrapped text, position by position.                                 *)
LEMMA WrappedIs ==
  ASSUME NEW W, Added \subseteq W, NEW t \in Seq(W), NEW s \in 1 .. Len(t), NEW w, w = Wrapped(t, s)
  PROVE  /\ w \in Seq(W) /\ Len(w) = Len(t) + 6
         /\ \A i \in 1 .. s - 1 : w[i] = t[i]
         /\ w[s] = "SELECT" /\ w[s + 1] = "open" /\ w[s + 2] = "\n"
         /\ \A i \in s .. Len(t) : w[i + 3] = t[i]
         /\ w[Len(t) + 4] = "\n" /\ w[Len(t) + 5] = "close" /\ w[Len(t) + 6] = "MaxRows"
<1> DEFINE a == SubSeq(t, 1, s - 1)
           b == <<"SELECT", "open", "\n">>
           c == SubSeq(t, s, Len(t))
           d == <<"\n", "close", "MaxRows">>
           ab == a \o b
           abc == ab \o c
<1>0. Len(t) \in Nat /\ s \in Nat /\ \A i \in 1 .. Len(t) : t[i] \in W
  BY LenProperties, ElementOfSeq
<1>1. a \in Seq(W) /\ Len(a) = s - 1 /\ \A i \in 1 .. s - 1 : a[i] = t[i]
  <2>1. \A i \in 1 .. s - 1 : t[i] \in W
    BY <1>0
  <2> QED BY <1>0, <2>1, SubSeqProperties
<1>2. c \in Seq(W) /\ Len(c) = Len(t) - s + 1 /\ \A i \in s .. Len(t) : c[i - s + 1] = t[i]
  <2>1. \A i \in s .. Len(t) : t[i] \in W
    BY <1>0
  <2>2. /\ c \in Seq(W) /\ Len(c) = Len(t) - s + 1
        /\ \A i \in 1 .. Len(t) - s + 1 : c[i] = t[s + i - 1]
    BY <1>0, <2>1, SubSeqProperties
  <2>3. ASSUME NEW i \in s .. Len(t) PROVE c[i - s + 1] = t[i]
    <3>1. i - s + 1 \in 1 .. Len(t) - s + 1 /\ s + (i - s + 1) - 1 = i
      BY <1>0
    <3> HIDE DEF c
    <3>2. c[i - s + 1] = t[s + (i - s + 1) - 1]
      BY <2>2, <3>1
    <3> QED BY <3>1, <3>2
  <2> QED BY <2>2, <2>3
<1>3. /\ b \in Seq(W) /\ Len(b) = 3 /\ b[1] = "SELECT" /\ b[2] = "open" /\ b[3] = "\n"
      /\ d \in Seq(W) /\ Len(d) = 3 /\ d[1] = "\n" /\ d[2] = "close" /\ d[3] = "MaxRows"
  BY DEF Added
<1>4. w = abc \o d
  BY DEF Wrapped
<1> HIDE DEF a, b, c, d
<1>5. /\ ab \in Seq(W) /\ Len(ab) = s + 2
      /\ \A i \in 1 .. s - 1 : ab[i] = t[i]
      /\ ab[s] = "SELECT" /\ ab[s + 1] = "open" /\ ab[s + 2] = "\n"
  <2>1. /\ ab \in Seq(W) /\ Len(ab) = Len(a) + Len(b)
        /\ \A i \in 1 .. Len(a) + Len(b) : ab[i] = IF i <= Len(a) THEN a[i] ELSE b[i - Len(a)]
    BY <1>1, <1>3, ConcatProperties
  <2> HIDE DEF ab
  <2>2. ASSUME NEW i \in 1 .. s - 1 PROVE ab[i] = t[i]
    <3>1. i \in 1 .. Len(a) + Len(b) /\ i <= Len(a)
      BY <1>0, <1>1, <1>3
    <3> QED BY <1>1, <2>1, <3>1
  <2>3. ASSUME NEW j \in 1 .. 3 PROVE ab[s - 1 + j] = b[j]
    <3>1. s - 1 + j \in 1 .. Len(a) + Len(b) /\ ~(s - 1 + j <= Len(a)) /\ s - 1 + j - Len(a) = j
      BY <1>0, <1>1, <1>3
    <3> QED BY <2>1, <3>1
  <2>4. ab[s - 1 + 1] = b[1] /\ ab[s - 1 + 2] = b[2] /\ ab[s - 1 + 3] = b[3]
    BY <2>3
  <2>5. s - 1 + 1 = s /\ s - 1 + 2 = s + 1 /\ s - 1 + 3 = s + 2 /\ Len(ab) = s + 2
    BY <1>0, <1>1, <1>3, <2>1
  <2> QED BY <1>3, <2>1, <2>2, <2>4, <2>5
<1> HIDE DEF ab
<1>6. /\ abc \in Seq(W) /\ Len(abc) = Len(t) + 3
      /\ \A i \in 1 .. s + 2 : abc[i] = ab[i]
      /\ \A i \in s .. Len(t) : abc[i + 3] = t[i]
  <2>1. /\ abc \in Seq(W) /\ Len(abc) = Len(ab) + Len(c)
        /\ \A i \in 1 .. Len(ab) + Len(c) : abc[i] = IF i <= Len(ab) THEN ab[i] ELSE c[i - Len(ab)]
    BY <1>2, <1>5, ConcatProperties
  <2> HIDE DEF abc
  <2>2. ASSUME NEW i \in s .. Len(t) PROVE abc[i + 3] = t[i]
    <3>1. i + 3 \in 1 .. Len(ab) + Len(c) /\ ~(i + 3 <= Len(ab)) /\ i + 3 - Len(ab) = i - s + 1
      BY <1>0, <1>2, <1>5
    <3>2. abc[i + 3] = c[i + 3 - Len(ab)]
      BY <2>1, <3>1
    <3> QED BY <1>2, <3>1, <3>2
  <2>3. ASSUME NEW i \in 1 .. s + 2 PROVE abc[i] = ab[i]
    <3>1. i \in 1 .. Len(ab) + Len(c) /\ i <= Len(ab)
      BY <1>0, <1>2, <1>5
    <3> QED BY <2>1, <3>1
  <2>4. Len(abc) = Len(t) + 3
    BY <1>0, <1>2, <1>5, <2>1
  <2> QED BY <2>1, <2>2, <2>3, <2>4
<1> HIDE DEF abc
<1>7. /\ w \in Seq(W) /\ Len(w) = Len(t) + 6
      /\ \A i \in 1 .. Len(t) + 3 : w[i] = abc[i]
      /\ w[Len(t) + 4] = "\n" /\ w[Len(t) + 5] = "close" /\ w[Len(t) + 6] = "MaxRows"
  <2> DEFINE v == abc \o d
  <2>1. /\ v \in Seq(W) /\ Len(v) = Len(abc) + Len(d)
        /\ \A i \in 1 .. Len(abc) + Len(d) : v[i] = IF i <= Len(abc) THEN abc[i] ELSE d[i - Len(abc)]
    <3>1. abc \in Seq(W) /\ d \in Seq(W)
      BY <1>3, <1>6
    <3> QED BY <3>1, ConcatProperties
  <2>2. v = w
    BY <1>4
  <2> HIDE DEF v
  <2>3. ASSUME NEW i \in 1 .. Len(t) + 3 PROVE v[i] = abc[i]
    <3>1. i \in 1 .. Len(abc) + Len(d) /\ i <= Len(abc)
      BY <1>0, <1>3, <1>6
    <3> QED BY <2>1, <3>1
  <2>4. ASSUME NEW j \in 1 .. 3 PROVE v[Len(t) + 3 + j] = d[j]
    <3>1. /\ Len(t) + 3 + j \in 1 .. Len(abc) + Len(d) /\ ~(Len(t) + 3 + j <= Len(abc))
          /\ Len(t) + 3 + j - Len(abc) = j
      BY <1>0, <1>3, <1>6
    <3> QED BY <2>1, <3>1
  <2>5. v[Len(t) + 3 + 1] = d[1] /\ v[Len(t) + 3 + 2] = d[2] /\ v[Len(t) + 3 + 3] = d[3]
    BY <2>4
  <2>6. Len(t) + 3 + 1 = Len(t) + 4 /\ Len(t) + 3 + 2 = Len(t) + 5 /\ Len(t) + 3 + 3 = Len(t) + 6
    BY <1>0
  <2>7. Len(v) = Len(t) + 6
    BY <1>0, <1>3, <1>6, <2>1
  <2> QED BY <1>3, <2>1, <2>2, <2>3, <2>5, <2>6, <2>7
<1> QED
  BY <1>0, <1>5, <1>6, <1>7

(* Where a text has no comment open, wrapping what follows hides and shows *)
(* nothing but what it adds.                                               *)
LEMMA VisibleInWrapped ==
  ASSUME NEW breaks, NEW W, Added \subseteq W, NEW t \in Seq(W), NEW s \in 1 .. Len(t),
         ~InComment(t, s, breaks), "\n" \in breaks
  PROVE  Visible(Wrapped(t, s), breaks) =
             {i \in Visible(t, breaks) : i < s} \cup {s, s + 1}
                 \cup {i + 3 : i \in {i \in Visible(t, breaks) : s <= i}}
                 \cup {Len(t) + 5, Len(t) + 6}
<1> DEFINE w == Wrapped(t, s)
<1>0. Len(t) \in Nat /\ s \in Nat /\ DOMAIN t = 1 .. Len(t) /\ DOMAIN w = 1 .. Len(t) + 6
  BY WrappedIs, LenProperties
<1>1. /\ \A i \in 1 .. s - 1 : w[i] = t[i]
      /\ w[s] = "SELECT" /\ w[s + 1] = "open" /\ w[s + 2] = "\n"
      /\ \A i \in s .. Len(t) : w[i + 3] = t[i]
      /\ w[Len(t) + 4] = "\n" /\ w[Len(t) + 5] = "close" /\ w[Len(t) + 6] = "MaxRows"
  BY WrappedIs
<1> HIDE DEF w
<1>2. ASSUME NEW i \in 1 .. s PROVE InComment(w, i, breaks) <=> InComment(t, i, breaks)
  <2>1. ASSUME NEW k \in 1 .. i - 1 PROVE w[k] = t[k] /\ \A m \in k .. i - 1 : w[m] = t[m]
    <3>1. k \in 1 .. s - 1 /\ \A m \in k .. i - 1 : m \in 1 .. s - 1
      BY <1>0
    <3> QED BY <1>1, <3>1
  <2> QED BY <2>1 DEF InComment
<1>3. ~InComment(w, s, breaks) /\ ~InComment(w, s + 1, breaks)
  <2>1. ~InComment(w, s, breaks)
    BY <1>0, <1>2
  <2> QED
    BY <1>0, <1>1, <2>1 DEF InComment
<1>4. ASSUME NEW i \in s .. Len(t) PROVE InComment(w, i + 3, breaks) <=> InComment(t, i, breaks)
  <2>1. ASSUME InComment(t, i, breaks) PROVE InComment(w, i + 3, breaks)
    <3>1. PICK k \in 1 .. i - 1 : t[k] = "#" /\ \A m \in k .. i - 1 : t[m] \notin breaks
      BY <2>1 DEF InComment
    <3>2. s <= k
      <4> SUFFICES ASSUME k < s PROVE FALSE
        BY <1>0
      <4> QED BY <1>0, <3>1 DEF InComment
    <3>3. k + 3 \in 1 .. i + 2 /\ w[k + 3] = "#"
      BY <1>0, <1>1, <3>1, <3>2
    <3>4. ASSUME NEW m \in k + 3 .. i + 2 PROVE w[m] \notin breaks
      <4>1. m - 3 \in s .. Len(t) /\ m - 3 \in k .. i - 1 /\ (m - 3) + 3 = m
        BY <1>0, <3>2
      <4> QED BY <1>1, <3>1, <4>1
    <3> QED BY <1>0, <3>3, <3>4 DEF InComment
  <2>2. ASSUME InComment(w, i + 3, breaks) PROVE InComment(t, i, breaks)
    <3>1. PICK k \in 1 .. i + 2 : w[k] = "#" /\ \A m \in k .. i + 2 : w[m] \notin breaks
      BY <1>0, <2>2 DEF InComment
    <3>2. k > s + 2
      BY <1>0, <1>1, <3>1
    <3>3. k - 3 \in s .. Len(t) /\ k - 3 \in 1 .. i - 1 /\ (k - 3) + 3 = k
      BY <1>0, <3>2
    <3>4. t[k - 3] = "#"
      BY <1>1, <3>1, <3>3
    <3>5. ASSUME NEW m \in k - 3 .. i - 1 PROVE t[m] \notin breaks
      <4>1. m + 3 \in k .. i + 2 /\ m \in s .. Len(t)
        BY <1>0, <3>3
      <4> QED BY <1>1, <3>1, <4>1
    <3> QED BY <3>3, <3>4, <3>5 DEF InComment
  <2> QED BY <2>1, <2>2
<1>5. ~InComment(w, Len(t) + 5, breaks) /\ ~InComment(w, Len(t) + 6, breaks)
  <2>2. w[Len(t) + 4] # "#" /\ w[Len(t) + 5] # "#"
    BY <1>1
  <2>3. ASSUME NEW k \in 1 .. Len(t) + 5, w[k] = "#" PROVE Len(t) + 4 \in k .. Len(t) + 4
    BY <1>0, <2>2, <2>3
  <2> QED BY <1>0, <1>1, <2>3 DEF InComment
<1>6. ASSUME NEW i \in 1 .. s - 1 PROVE i \in Visible(w, breaks) <=> i \in Visible(t, breaks)
  BY <1>0, <1>1, <1>2 DEF Visible
<1>7. ASSUME NEW i \in s .. Len(t) PROVE i + 3 \in Visible(w, breaks) <=> i \in Visible(t, breaks)
  BY <1>0, <1>1, <1>4 DEF Visible
<1>8. /\ s \in Visible(w, breaks) /\ s + 1 \in Visible(w, breaks) /\ s + 2 \notin Visible(w, breaks)
      /\ Len(t) + 4 \notin Visible(w, breaks)
      /\ Len(t) + 5 \in Visible(w, breaks) /\ Len(t) + 6 \in Visible(w, breaks)
  BY <1>0, <1>1, <1>3, <1>5 DEF Visible
<1>9. ASSUME NEW i \in Visible(w, breaks)
      PROVE  \/ i \in 1 .. s - 1 \/ i \in {s, s + 1} \/ i \in {Len(t) + 5, Len(t) + 6}
             \/ \E j \in s .. Len(t) : i = j + 3
  <2>1. i \in 1 .. Len(t) + 6 /\ i # s + 2 /\ i # Len(t) + 4
    BY <1>0, <1>8 DEF Visible
  <2>2. CASE i \in s + 3 .. Len(t) + 3
    <3>1. i - 3 \in s .. Len(t) /\ i = (i - 3) + 3
      BY <1>0, <2>2
    <3> QED BY <3>1
  <2> QED BY <1>0, <2>1, <2>2
<1>10. Visible(t, breaks) \subseteq 1 .. Len(t)
  BY <1>0 DEF Visible
<1>11. \A i \in Visible(t, breaks) : i < s <=> i \in 1 .. s - 1
  BY <1>0, <1>10
<1>12. \A i \in Visible(t, breaks) : s <= i <=> i \in s .. Len(t)
  BY <1>0, <1>10
<1>13. \A i : i \in Visible(w, breaks) <=>
             \/ i \in Visible(t, breaks) /\ i < s
             \/ i \in {s, s + 1, Len(t) + 5, Len(t) + 6}
             \/ \E j \in Visible(t, breaks) : s <= j /\ i = j + 3
  <2>1. ASSUME NEW i \in Visible(w, breaks)
        PROVE  \/ i \in Visible(t, breaks) /\ i < s
               \/ i \in {s, s + 1, Len(t) + 5, Len(t) + 6}
               \/ \E j \in Visible(t, breaks) : s <= j /\ i = j + 3
    <3>1. CASE i \in 1 .. s - 1
      BY <1>0, <1>6, <3>1
    <3>2. ASSUME NEW j \in s .. Len(t), i = j + 3 PROVE j \in Visible(t, breaks) /\ s <= j
      BY <1>0, <1>7, <3>2
    <3> QED BY <1>9, <3>1, <3>2
  <2>2. ASSUME NEW j \in Visible(t, breaks)
        PROVE  /\ j < s => j \in Visible(w, breaks)
               /\ s <= j => j + 3 \in Visible(w, breaks)
    BY <1>6, <1>7, <1>11, <1>12
  <2> QED BY <1>8, <2>1, <2>2
<1> QED
  BY <1>13 DEF w

(* Visible positions are positions, of words that are no comment's.        *)
LEMMA VisiblePositions ==
  ASSUME NEW breaks, NEW W, NEW t \in Seq(W)
  PROVE  /\ Visible(t, breaks) \subseteq 1 .. Len(t) /\ Visible(t, breaks) \subseteq Nat
         /\ IsFiniteSet(Visible(t, breaks))
         /\ \A i \in Visible(t, breaks) :
               t[i] \in W /\ t[i] \notin {"#", "\n", "\r"} /\ ~InComment(t, i, breaks)
<1>1. Len(t) \in Nat /\ DOMAIN t = 1 .. Len(t)
  BY LenProperties
<1>2. Visible(t, breaks) \in SUBSET (1 .. Len(t)) /\ Visible(t, breaks) \subseteq Nat
  BY <1>1 DEF Visible
<1>3. IsFiniteSet(1 .. Len(t))
  BY <1>1, FS_Interval
<1>4. IsFiniteSet(Visible(t, breaks))
  BY <1>2, <1>3, FS_Subset
<1>5. \A i \in Visible(t, breaks) : t[i] \in W
  BY <1>2, ElementOfSeq
<1> QED
  BY <1>2, <1>4, <1>5 DEF Visible

(* The code of a text, from any list of its visible positions.             *)
LEMMA CodeIs ==
  ASSUME NEW breaks, NEW W, NEW t \in Seq(W), NEW n, NEW g, Lists(g, n, Visible(t, breaks))
  PROVE  /\ Code(t, breaks) \in Seq(W) /\ Len(Code(t, breaks)) = n
         /\ n \in Nat /\ DOMAIN Code(t, breaks) = 1 .. n
         /\ \A m \in 1 .. n : g[m] \in Visible(t, breaks) /\ Code(t, breaks)[m] = t[g[m]]
                              /\ Code(t, breaks)[m] \notin {"#", "\n", "\r"}
<1>1. /\ n \in Nat /\ \A m \in 1 .. n : g[m] \in Visible(t, breaks)
  BY DEF Lists
<1>2. Cardinality(Visible(t, breaks)) = n /\ \A m \in 1 .. n : Nth(Visible(t, breaks), m) = g[m]
  BY VisiblePositions, ListIsUnique
<1>3. Code(t, breaks) = [m \in 1 .. n |-> t[Nth(Visible(t, breaks), m)]]
  BY <1>2 DEF Code
<1>4. \A m \in 1 .. n : Code(t, breaks)[m] = t[g[m]]
  BY <1>2, <1>3
<1>5. \A m \in 1 .. n : Code(t, breaks)[m] \in W /\ Code(t, breaks)[m] \notin {"#", "\n", "\r"}
  BY <1>1, <1>4, VisiblePositions
<1>6. Code(t, breaks) \in [1 .. n -> W]
  BY <1>3, <1>5
<1>7. Code(t, breaks) \in Seq(W) /\ Len(Code(t, breaks)) = n
  BY <1>1, <1>6
<1> QED
  BY <1>1, <1>4, <1>5, <1>6, <1>7

(* All of a text without comments and line ends is code.                   *)
LEMMA CodeIsAllCode ==
  ASSUME NEW breaks, NEW W, NEW c \in Seq(W), \A m \in 1 .. Len(c) : c[m] \notin {"#", "\n", "\r"}
  PROVE  Lists([m \in 1 .. Len(c) |-> m], Len(c), Visible(c, breaks)) /\ Code(c, breaks) = c
<1> DEFINE g == [m \in 1 .. Len(c) |-> m]
<1>0. Len(c) \in Nat /\ DOMAIN c = 1 .. Len(c)
  BY LenProperties
<1>1. Visible(c, breaks) = 1 .. Len(c)
  <2>1. ASSUME NEW i \in 1 .. Len(c) PROVE ~InComment(c, i, breaks)
    <3>1. \A k \in 1 .. i - 1 : k \in 1 .. Len(c)
      BY <1>0
    <3> QED BY <3>1 DEF InComment
  <2> QED BY <1>0, <2>1 DEF Visible
<1>2. Lists(g, Len(c), Visible(c, breaks))
  BY <1>0, <1>1 DEF Lists
<1>3. /\ Code(c, breaks) \in Seq(W) /\ Len(Code(c, breaks)) = Len(c)
      /\ \A m \in 1 .. Len(c) : Code(c, breaks)[m] = c[m]
  BY <1>2, CodeIs
<1>4. Code(c, breaks) = c
  BY <1>3, SeqEqual
<1> QED
  BY <1>2, <1>4

(* c, wrapped from its pth word on: nothing else is different.             *)
IsRewritten(d, c, p) ==
    /\ Len(d) = Len(c) + 4
    /\ \A m \in 1 .. p - 1 : d[m] = c[m]
    /\ d[p] = "SELECT" /\ d[p + 1] = "open"
    /\ \A m \in p .. Len(c) : d[m + 2] = c[m]
    /\ d[Len(c) + 3] = "close" /\ d[Len(c) + 4] = "MaxRows"

(* To wrap a text from a word of its code on is to wrap the code there.    *)
LEMMA CodeOfWrapped ==
  ASSUME NEW breaks, NEW W, Added \subseteq W, NEW t \in Seq(W), NEW n, NEW g,
         Lists(g, n, Visible(t, breaks)), "\n" \in breaks, NEW p \in 1 .. n
  PROVE  LET d == Code(Wrapped(t, g[p]), breaks)
         IN  d \in Seq(W) /\ IsRewritten(d, Code(t, breaks), p)
<1> DEFINE s == g[p]
           w == Wrapped(t, s)
           h == [m \in 1 .. n + 4 |->
                   IF m < p THEN g[m]
                   ELSE IF m = p THEN s ELSE IF m = p + 1 THEN s + 1
                   ELSE IF m <= n + 2 THEN g[m - 2] + 3
                   ELSE IF m = n + 3 THEN Len(t) + 5 ELSE Len(t) + 6]
<1>0. /\ n \in Nat /\ p \in Nat /\ Len(t) \in Nat /\ p <= n /\ 1 <= p
      /\ \A m \in 1 .. n : g[m] \in Visible(t, breaks) /\ g[m] \in 1 .. Len(t) /\ g[m] \in Nat
      /\ \A i, j \in 1 .. n : i < j => g[i] < g[j]
      /\ \A v \in Visible(t, breaks) : \E i \in 1 .. n : g[i] = v
  BY VisiblePositions, LenProperties DEF Lists
<1>1. s \in 1 .. Len(t) /\ ~InComment(t, s, breaks) /\ s \in Nat
  BY <1>0, VisiblePositions
<1>2. /\ w \in Seq(W) /\ Len(w) = Len(t) + 6
      /\ \A i \in 1 .. s - 1 : w[i] = t[i]
      /\ w[s] = "SELECT" /\ w[s + 1] = "open" /\ w[s + 2] = "\n"
      /\ \A i \in s .. Len(t) : w[i + 3] = t[i]
      /\ w[Len(t) + 4] = "\n" /\ w[Len(t) + 5] = "close" /\ w[Len(t) + 6] = "MaxRows"
  <2>1. s \in 1 .. Len(t) /\ w = Wrapped(t, s)
    BY <1>1
  <2> HIDE DEF s, h
  <2> QED BY <2>1, WrappedIs
<1>3. Visible(w, breaks) =
          {i \in Visible(t, breaks) : i < s} \cup {s, s + 1}
              \cup {i + 3 : i \in {i \in Visible(t, breaks) : s <= i}}
              \cup {Len(t) + 5, Len(t) + 6}
  BY <1>1, VisibleInWrapped
<1>4. \A m \in 1 .. n : (m < p <=> g[m] < s) /\ (p <= m <=> s <= g[m])
  <2> SUFFICES ASSUME NEW m \in 1 .. n PROVE (m < p <=> g[m] < s) /\ (p <= m <=> s <= g[m])
    OBVIOUS
  <2>1. m < p => g[m] < g[p]
    BY <1>0
  <2>2. p < m => g[p] < g[m]
    BY <1>0
  <2> QED BY <1>0, <2>1, <2>2
<1> HIDE DEF w
<1>5. /\ \A m \in 1 .. p - 1 : h[m] = g[m]
      /\ h[p] = s /\ h[p + 1] = s + 1
      /\ \A m \in p .. n : h[m + 2] = g[m] + 3
      /\ h[n + 3] = Len(t) + 5 /\ h[n + 4] = Len(t) + 6
  <2>1. \A m \in 1 .. p - 1 : m \in 1 .. n + 4 /\ m < p
    BY <1>0
  <2>2. ASSUME NEW m \in p .. n PROVE h[m + 2] = g[m] + 3
    <3>1. /\ m + 2 \in 1 .. n + 4 /\ ~(m + 2 < p) /\ m + 2 # p /\ m + 2 # p + 1 /\ m + 2 <= n + 2
          /\ (m + 2) - 2 = m
      BY <1>0
    <3> QED BY <3>1
  <2>3. /\ p \in 1 .. n + 4 /\ p + 1 \in 1 .. n + 4 /\ ~(p + 1 < p) /\ p + 1 # p
        /\ n + 3 \in 1 .. n + 4 /\ n + 4 \in 1 .. n + 4
        /\ ~(n + 3 < p) /\ n + 3 # p /\ n + 3 # p + 1 /\ ~(n + 3 <= n + 2)
        /\ ~(n + 4 < p) /\ n + 4 # p /\ n + 4 # p + 1 /\ ~(n + 4 <= n + 2) /\ n + 4 # n + 3
    BY <1>0
  <2>4. h[p] = s /\ h[p + 1] = s + 1 /\ h[n + 3] = Len(t) + 5 /\ h[n + 4] = Len(t) + 6
    BY <2>3
  <2> QED BY <2>1, <2>2, <2>4
<1>6. DOMAIN h = 1 .. n + 4 /\ h = [m \in 1 .. n + 4 |-> h[m]]
  OBVIOUS
<1>7. ASSUME NEW m \in 1 .. n + 4
      PROVE  \/ m \in 1 .. p - 1 \/ m = p \/ m = p + 1 \/ m = n + 3 \/ m = n + 4
             \/ \E k \in p .. n : m = k + 2
  <2>1. CASE m \in p + 2 .. n + 2
    <3>1. m - 2 \in p .. n /\ m = (m - 2) + 2
      BY <1>0, <2>1
    <3> QED BY <3>1
  <2> QED BY <1>0, <2>1
<1> HIDE DEF h
<1>8. ASSUME NEW m \in 1 .. n + 4 PROVE h[m] \in Visible(w, breaks)
  <2>1. CASE m \in 1 .. p - 1
    <3>1. m \in 1 .. n /\ m < p
      BY <1>0, <2>1
    <3>2. g[m] \in Visible(t, breaks) /\ g[m] < s /\ h[m] = g[m]
      BY <1>0, <1>4, <1>5, <2>1, <3>1
    <3> QED BY <1>3, <3>2
  <2>2. ASSUME NEW k \in p .. n, m = k + 2 PROVE h[m] \in Visible(w, breaks)
    <3>1. k \in 1 .. n /\ p <= k
      BY <1>0
    <3>2. g[k] \in Visible(t, breaks) /\ s <= g[k] /\ h[m] = g[k] + 3
      BY <1>0, <1>4, <1>5, <2>2, <3>1
    <3> QED BY <1>3, <3>2
  <2> QED BY <1>3, <1>5, <1>7, <2>1, <2>2
<1>edges. /\ \A m : m = p \/ m = p + 1 => h[m] \in {s, s + 1}
       /\ \A m : m = n + 3 \/ m = n + 4 => h[m] \in {Len(t) + 5, Len(t) + 6}
  BY <1>5
<1>9. ASSUME NEW i \in 1 .. n + 4, NEW j \in 1 .. n + 4, i < j PROVE h[i] < h[j]
  <2>1. \A m \in 1 .. p - 1 : h[m] < s /\ h[m] \in Nat
    <3>1. \A m \in 1 .. p - 1 : m \in 1 .. n /\ m < p
      BY <1>0
    <3> QED BY <1>0, <1>4, <1>5, <3>1
  <2>2. \A k \in p .. n : h[k + 2] >= s + 3 /\ h[k + 2] <= Len(t) + 3 /\ h[k + 2] \in Nat
    <3> SUFFICES ASSUME NEW k \in p .. n
                 PROVE  h[k + 2] >= s + 3 /\ h[k + 2] <= Len(t) + 3 /\ h[k + 2] \in Nat
      OBVIOUS
    <3>1. k \in 1 .. n /\ p <= k
      BY <1>0
    <3>2. s <= g[k] /\ g[k] \in 1 .. Len(t) /\ h[k + 2] = g[k] + 3
      BY <1>0, <1>4, <1>5, <3>1
    <3> QED BY <1>0, <1>1, <3>2
  <2>3. CASE i \in 1 .. p - 1
    <3>1. CASE j \in 1 .. p - 1
      BY <1>0, <1>5, <1>9, <2>3, <3>1
    <3>2. ASSUME NEW k \in p .. n, j = k + 2 PROVE h[i] < h[j]
      BY <1>1, <2>1, <2>2, <2>3, <3>2
    <3>3. CASE j = p \/ j = p + 1
      <4>1. h[i] < s /\ h[i] \in Nat /\ h[j] \in {s, s + 1}
        BY <1>edges, <2>1, <2>3, <3>3
      <4> QED BY <1>1, <4>1
    <3>4. CASE j = n + 3 \/ j = n + 4
      <4>1. h[i] < s /\ h[i] \in Nat /\ s <= Len(t)
        BY <1>0, <1>1, <2>1, <2>3
      <4>2. h[j] \in {Len(t) + 5, Len(t) + 6}
        BY <1>edges, <3>4
      <4> QED BY <1>0, <1>1, <4>1, <4>2
    <3> QED BY <1>7, <3>1, <3>2, <3>3, <3>4
  <2>4. CASE i = p \/ i = p + 1
    <3>1. j \notin 1 .. p - 1 /\ j # p
      BY <1>0, <1>9, <2>4
    <3>2. ASSUME NEW k \in p .. n, j = k + 2 PROVE h[i] < h[j]
      <4>1. h[i] \in {s, s + 1} /\ h[j] >= s + 3 /\ h[j] \in Nat
        BY <1>edges, <2>2, <2>4, <3>2
      <4> QED BY <1>1, <4>1
    <3>3. CASE j = p + 1
      <4>1. i = p
        BY <1>0, <1>9, <2>4, <3>3
      <4> QED BY <1>1, <1>5, <3>3, <4>1
    <3>4. CASE j = n + 3 \/ j = n + 4
      <4>1. h[i] \in {s, s + 1} /\ h[j] \in {Len(t) + 5, Len(t) + 6}
        BY <1>edges, <2>4, <3>4
      <4> QED BY <1>0, <1>1, <4>1
    <3> QED BY <1>7, <3>1, <3>2, <3>3, <3>4
  <2>5. ASSUME NEW k \in p .. n, i = k + 2 PROVE h[i] < h[j]
    <3>1. j > p + 2
      BY <1>0, <1>9, <2>5
    <3>2. ASSUME NEW l \in p .. n, j = l + 2 PROVE h[i] < h[j]
      <4>1. k \in 1 .. n /\ l \in 1 .. n /\ k < l
        BY <1>0, <1>9, <2>5, <3>2
      <4>2. g[k] < g[l] /\ g[k] \in Nat /\ g[l] \in Nat
        BY <1>0, <4>1
      <4> QED BY <1>5, <2>5, <3>2, <4>2
    <3>3. CASE j = n + 3 \/ j = n + 4
      <4>1. h[i] <= Len(t) + 3 /\ h[i] \in Nat
        BY <2>2, <2>5
      <4>2. h[j] \in {Len(t) + 5, Len(t) + 6}
        BY <1>edges, <3>3
      <4> QED BY <1>0, <4>1, <4>2
    <3>4. j \notin 1 .. p - 1 /\ j # p /\ j # p + 1
      BY <1>0, <3>1
    <3> QED BY <1>7, <3>2, <3>3, <3>4
  <2>6. CASE i = n + 3
    <3>1. j = n + 4
      BY <1>0, <1>9, <2>6
    <3> QED BY <1>0, <1>5, <2>6, <3>1
  <2>7. i # n + 4
    BY <1>0, <1>9
  <2> QED BY <1>7, <2>3, <2>4, <2>5, <2>6, <2>7
<1>10. ASSUME NEW v \in Visible(w, breaks) PROVE \E m \in 1 .. n + 4 : h[m] = v
  <2>1. CASE v \in Visible(t, breaks) /\ v < s
    <3>1. PICK m \in 1 .. n : g[m] = v
      BY <1>0, <2>1
    <3>2. m \in 1 .. p - 1 /\ m \in 1 .. n + 4
      BY <1>0, <1>4, <2>1, <3>1
    <3> QED BY <1>5, <3>1, <3>2
  <2>2. ASSUME NEW i \in Visible(t, breaks), s <= i, v = i + 3 PROVE \E m \in 1 .. n + 4 : h[m] = v
    <3>1. PICK m \in 1 .. n : g[m] = i
      BY <1>0
    <3>2. m \in p .. n /\ m + 2 \in 1 .. n + 4
      BY <1>0, <1>4, <2>2, <3>1
    <3> QED BY <1>5, <2>2, <3>1, <3>2
  <2>3. p \in 1 .. n + 4 /\ p + 1 \in 1 .. n + 4 /\ n + 3 \in 1 .. n + 4 /\ n + 4 \in 1 .. n + 4
    BY <1>0
  <2> QED BY <1>3, <1>5, <2>1, <2>2, <2>3
<1>11. Lists(h, n + 4, Visible(w, breaks))
  <2>1. n + 4 \in Nat
    BY <1>0
  <2>2. h \in [1 .. n + 4 -> Visible(w, breaks)]
    BY <1>6, <1>8
  <2> QED BY <1>9, <1>10, <2>1, <2>2 DEF Lists
<1>12. /\ Code(w, breaks) \in Seq(W) /\ Len(Code(w, breaks)) = n + 4
       /\ \A m \in 1 .. n + 4 : Code(w, breaks)[m] = w[h[m]]
  BY <1>2, <1>11, CodeIs
<1>13. Len(Code(t, breaks)) = n /\ \A m \in 1 .. n : Code(t, breaks)[m] = t[g[m]]
  BY CodeIs
<1>14. ASSUME NEW m \in 1 .. p - 1 PROVE Code(w, breaks)[m] = Code(t, breaks)[m]
  <2>1. m \in 1 .. n /\ m \in 1 .. n + 4 /\ g[m] \in 1 .. s - 1
    BY <1>0, <1>1, <1>4
  <2>2. Code(w, breaks)[m] = w[g[m]]
    BY <1>5, <1>12, <2>1
  <2>3. w[g[m]] = t[g[m]] /\ Code(t, breaks)[m] = t[g[m]]
    BY <1>2, <1>13, <2>1
  <2> QED BY <2>2, <2>3
<1>15. ASSUME NEW m \in p .. n PROVE Code(w, breaks)[m + 2] = Code(t, breaks)[m]
  <2>1. m \in 1 .. n /\ m + 2 \in 1 .. n + 4 /\ g[m] \in s .. Len(t)
    BY <1>0, <1>1, <1>4
  <2>2. Code(w, breaks)[m + 2] = w[h[m + 2]] /\ h[m + 2] = g[m] + 3
    BY <1>5, <1>12, <2>1
  <2>3. w[g[m] + 3] = t[g[m]] /\ Code(t, breaks)[m] = t[g[m]]
    BY <1>2, <1>13, <2>1
  <2> QED BY <2>2, <2>3
<1>16. /\ Code(w, breaks)[p] = "SELECT" /\ Code(w, breaks)[p + 1] = "open"
       /\ Code(w, breaks)[n + 3] = "close" /\ Code(w, breaks)[n + 4] = "MaxRows"
  <2>1. p \in 1 .. n + 4 /\ p + 1 \in 1 .. n + 4 /\ n + 3 \in 1 .. n + 4 /\ n + 4 \in 1 .. n + 4
    BY <1>0
  <2> QED BY <1>2, <1>5, <1>12, <2>1
<1> QED
  BY <1>12, <1>13, <1>14, <1>15, <1>16 DEF IsRewritten, w

(* There is one way to wrap c from its pth word on.                        *)
LEMMA RewrittenIsUnique ==
  ASSUME NEW W, NEW c \in Seq(W), NEW d \in Seq(W), NEW e \in Seq(W), NEW p \in 1 .. Len(c),
         IsRewritten(d, c, p), IsRewritten(e, c, p)
  PROVE  d = e
<1>0. Len(c) \in Nat /\ Len(d) = Len(c) + 4 /\ Len(e) = Len(c) + 4
  BY LenProperties DEF IsRewritten
<1>1. ASSUME NEW m \in 1 .. Len(d) PROVE d[m] = e[m]
  <2>1. CASE m \in 1 .. p - 1
    BY <2>1 DEF IsRewritten
  <2>2. CASE m \in p + 2 .. Len(c) + 2
    <3>1. m - 2 \in p .. Len(c) /\ (m - 2) + 2 = m
      BY <1>0, <2>2
    <3>2. d[(m - 2) + 2] = c[m - 2] /\ e[(m - 2) + 2] = c[m - 2]
      BY <3>1 DEF IsRewritten
    <3> QED BY <3>1, <3>2
  <2>3. m \in 1 .. p - 1 \/ m \in p + 2 .. Len(c) + 2
        \/ m = p \/ m = p + 1 \/ m = Len(c) + 3 \/ m = Len(c) + 4
    BY <1>0
  <2> QED BY <2>1, <2>2, <2>3 DEF IsRewritten
<1> QED
  BY <1>0, <1>1, SeqEqual

(* Where the pattern finds its first match, counted in words of the code.  *)
BeginsAt(c) == First({m \in DOMAIN c : c[m] \in {"SELECT", "select:"}})

(* A comment of the index is hidden from rdflib, too: it sees no more.     *)
LEMMA CheckerSeesLess ==
  ASSUME NEW t
  PROVE  Visible(t, CheckerBreaks) \subseteq Visible(t, IndexBreaks)
<1>1. ASSUME NEW i, InComment(t, i, IndexBreaks) PROVE InComment(t, i, CheckerBreaks)
  BY <1>1 DEF InComment, IndexBreaks, CheckerBreaks
<1> QED
  BY <1>1 DEF Visible

(* Read alike, a text is the same words to both parsers.                   *)
LEMMA SameCode ==
  ASSUME NEW t, ReadAlike(t)
  PROVE  Code(t, CheckerBreaks) = Code(t, IndexBreaks)
BY DEF ReadAlike, Code

(* The first keyword of a text that parses is one of its words.            *)
LEMMA FormIsInCode ==
  ASSUME NEW W, NEW t \in Seq(W), NEW breaks, Parses(t, breaks)
  PROVE  \E m \in DOMAIN Code(t, breaks) : Code(t, breaks)[m] = Form(t, breaks)
<1> DEFINE c == Code(t, breaks)
<1>1. PICK g : Lists(g, Cardinality(Visible(t, breaks)), Visible(t, breaks))
  BY VisiblePositions, ListExists
<1>2. DOMAIN c = 1 .. Cardinality(Visible(t, breaks)) /\ Cardinality(Visible(t, breaks)) \in Nat
  BY <1>1, CodeIs
<1> HIDE DEF c
<1>3. Keywords(c) # {} /\ Keywords(c) \subseteq Nat
  BY <1>2 DEF Parses, Keywords, c
<1>4. First(Keywords(c)) \in DOMAIN c
  BY <1>3, FirstExists DEF Keywords
<1> QED
  BY <1>4 DEF Form, c

(* A query that rdflib takes for a SELECT shows the keyword to both.       *)
LEMMA SelectIsSeen ==
  ASSUME NEW W, NEW t \in Seq(W), Parses(t, CheckerBreaks), Form(t, CheckerBreaks) = "SELECT"
  PROVE  /\ \E m \in DOMAIN Code(t, CheckerBreaks) : Code(t, CheckerBreaks)[m] = "SELECT"
         /\ \E i \in Visible(t, IndexBreaks) : t[i] = "SELECT"
<1>1. PICK m \in DOMAIN Code(t, CheckerBreaks) : Code(t, CheckerBreaks)[m] = "SELECT"
  BY FormIsInCode
<1>2. PICK g : Lists(g, Cardinality(Visible(t, CheckerBreaks)), Visible(t, CheckerBreaks))
  BY VisiblePositions, ListExists
<1>3. g[m] \in Visible(t, CheckerBreaks) /\ t[g[m]] = "SELECT"
  BY <1>1, <1>2, CodeIs
<1> QED
  BY <1>1, <1>3, CheckerSeesLess

(* _START finds the first of the words of the index that looks like the    *)
(* keyword, if there is one.                                               *)
LEMMA StartIsInCode ==
  ASSUME NEW W, NEW t \in Seq(W), \E i \in Visible(t, IndexBreaks) : t[i] = "SELECT",
         NEW g, Lists(g, Len(Code(t, IndexBreaks)), Visible(t, IndexBreaks))
  PROVE  LET c == Code(t, IndexBreaks)
         IN  /\ BeginsAt(c) \in 1 .. Len(c)
             /\ c[BeginsAt(c)] \in {"SELECT", "select:"}
             /\ \A m \in 1 .. Len(c) : c[m] \in {"SELECT", "select:"} => BeginsAt(c) <= m
             /\ Start(t) = g[BeginsAt(c)]
<1> DEFINE c == Code(t, IndexBreaks)
           n == Len(Code(t, IndexBreaks))
           V == Visible(t, IndexBreaks)
           A == {i \in DOMAIN t : t[i] \in {"SELECT", "select:"} /\ ~InComment(t, i, IndexBreaks)}
           B == {m \in DOMAIN c : c[m] \in {"SELECT", "select:"}}
           p == BeginsAt(c)
<1>0. /\ n \in Nat /\ DOMAIN c = 1 .. n
      /\ \A m \in 1 .. n : g[m] \in V /\ c[m] = t[g[m]]
  BY CodeIs
<1>1. /\ \A i, j \in 1 .. n : i < j => g[i] < g[j]
      /\ \A v \in V : \E i \in 1 .. n : g[i] = v
  BY DEF Lists
<1>2. DOMAIN t = 1 .. Len(t) /\ V \subseteq Nat
  BY LenProperties, VisiblePositions
<1>8. A = {i \in V : t[i] \in {"SELECT", "select:"}}
  BY DEF Visible
<1> HIDE DEF c, n, V
<1>6. B # {} /\ B \subseteq Nat /\ B \subseteq 1 .. n
  <2>1. PICK i \in V : t[i] = "SELECT"
    BY DEF V
  <2>2. PICK m \in 1 .. n : g[m] = i
    BY <1>1, <2>1
  <2> QED BY <1>0, <2>1, <2>2
<1>7. p \in B /\ \A m \in B : p <= m
  BY <1>6, FirstExists DEF BeginsAt
<1>9. g[p] \in A /\ g[p] \in Nat
  BY <1>0, <1>2, <1>7, <1>8
<1>10. ASSUME NEW i \in A PROVE g[p] <= i
  <2>1. PICK m \in 1 .. n : g[m] = i
    BY <1>1, <1>8
  <2>2. m \in B
    BY <1>0, <1>8, <2>1
  <2>3. p \in 1 .. n /\ m \in 1 .. n /\ p <= m
    BY <1>6, <1>7, <2>2
  <2>4. p < m \/ p = m
    BY <1>0, <2>3
  <2>5. i \in Nat
    BY <1>2, <1>8
  <2> QED BY <1>1, <1>9, <2>1, <2>3, <2>4, <2>5
<1>11. Start(t) = g[p]
  <2>1. A \subseteq Nat /\ A # {}
    BY <1>2, <1>8, <1>9
  <2>2. First(A) \in A /\ First(A) <= g[p] /\ g[p] <= First(A) /\ First(A) \in Nat
    BY <1>9, <1>10, <2>1, FirstExists
  <2>3. First(A) = g[p]
    BY <1>9, <2>2
  <2> QED BY <2>3 DEF Start
<1> QED
  BY <1>0, <1>6, <1>7, <1>11 DEF c, n

(* What a SELECT query becomes, as the index's parser sees it.             *)
LEMMA PreparedIsRewritten ==
  ASSUME NEW W, Added \subseteq W, NEW t \in Seq(W),
         Parses(t, CheckerBreaks), Form(t, CheckerBreaks) = "SELECT"
  PROVE  LET c == Code(t, IndexBreaks)
             d == Code(Prepared(t), IndexBreaks)
         IN  d \in Seq(W) /\ IsRewritten(d, c, BeginsAt(c))
<1> DEFINE c == Code(t, IndexBreaks)
           V == Visible(t, IndexBreaks)
<1>1. PICK g : Lists(g, Cardinality(V), V)
  BY VisiblePositions, ListExists
<1>2. Lists(g, Len(c), V)
  BY <1>1, CodeIs
<1>3. BeginsAt(c) \in 1 .. Len(c) /\ Start(t) = g[BeginsAt(c)]
  BY <1>2, SelectIsSeen, StartIsInCode
<1>4. Prepared(t) = Wrapped(t, g[BeginsAt(c)])
  BY <1>3 DEF Prepared
<1>5. "\n" \in IndexBreaks
  BY DEF IndexBreaks
<1> QED
  BY <1>2, <1>3, <1>4, <1>5, CodeOfWrapped

(* The code of a text is a sequence of words, and the first word that      *)
(* looks like the keyword is one of them.                                  *)
LEMMA CodeOfSelect ==
  ASSUME NEW W, NEW t \in Seq(W), Parses(t, CheckerBreaks), Form(t, CheckerBreaks) = "SELECT"
  PROVE  LET c == Code(t, IndexBreaks)
         IN  /\ c \in Seq(W) /\ DOMAIN c = 1 .. Len(c) /\ Len(c) \in Nat
             /\ \A m \in 1 .. Len(c) : c[m] \notin {"#", "\n", "\r"}
             /\ BeginsAt(c) \in 1 .. Len(c)
             /\ c[BeginsAt(c)] \in {"SELECT", "select:"}
             /\ \A m \in 1 .. Len(c) : c[m] \in {"SELECT", "select:"} => BeginsAt(c) <= m
<1> DEFINE c == Code(t, IndexBreaks)
           V == Visible(t, IndexBreaks)
<1>1. PICK g : Lists(g, Cardinality(V), V)
  BY VisiblePositions, ListExists
<1>2. /\ c \in Seq(W) /\ Len(c) = Cardinality(V)
      /\ Len(c) \in Nat /\ DOMAIN c = 1 .. Len(c)
      /\ \A m \in 1 .. Len(c) : c[m] \notin {"#", "\n", "\r"}
  BY <1>1, CodeIs
<1>3. Lists(g, Len(c), V)
  BY <1>1, <1>2
<1> QED
  BY <1>2, <1>3, SelectIsSeen, StartIsInCode

(* Whatever the query says, the limit of the endpoint is its last word,    *)
(* as the index reads it.                                                  *)
LEMMA SelectIsLimited ==
  ASSUME NEW W, Added \subseteq W, NEW t \in Seq(W),
         Parses(t, CheckerBreaks), Form(t, CheckerBreaks) = "SELECT"
  PROVE  LET d == Code(Prepared(t), IndexBreaks) IN d[Len(d)] = "MaxRows"
BY PreparedIsRewritten DEF IsRewritten

(* Without a prefix of the name select, the text is rewritten as the       *)
(* parsed query would be.                                                  *)
LEMMA RewrittenAsParsed ==
  ASSUME NEW W, Added \subseteq W, NEW t \in Seq(W),
         Parses(t, CheckerBreaks), Form(t, CheckerBreaks) = "SELECT",
         Occurs(Code(t, IndexBreaks), "select:") = {}
  PROVE  LET c == Code(t, IndexBreaks)
         IN  Code(Prepared(t), IndexBreaks) =
                 Code(Wrapped(c, First(Occurs(c, "SELECT"))), IndexBreaks)
<1> DEFINE c == Code(t, IndexBreaks)
           p == BeginsAt(c)
           id == [m \in 1 .. Len(c) |-> m]
<1>0. c \in Seq(W) /\ p \in 1 .. Len(c) /\ \A m \in 1 .. Len(c) : c[m] \notin {"#", "\n", "\r"}
  BY CodeOfSelect
<1>1. p = First(Occurs(c, "SELECT"))
  <2>1. Occurs(c, "SELECT") = {m \in DOMAIN c : c[m] \in {"SELECT", "select:"}}
    BY DEF Occurs
  <2> QED BY <2>1 DEF BeginsAt
<1>2. Code(Prepared(t), IndexBreaks) \in Seq(W) /\ IsRewritten(Code(Prepared(t), IndexBreaks), c, p)
  BY PreparedIsRewritten
<1> HIDE DEF c, p
<1>3. Lists(id, Len(c), Visible(c, IndexBreaks)) /\ Code(c, IndexBreaks) = c
  BY <1>0, CodeIsAllCode
<1>4. id[p] = p /\ "\n" \in IndexBreaks
  BY <1>0 DEF IndexBreaks
<1> HIDE DEF id
<1>5. /\ Code(Wrapped(c, p), IndexBreaks) \in Seq(W)
      /\ IsRewritten(Code(Wrapped(c, p), IndexBreaks), c, p)
  BY <1>0, <1>3, <1>4, CodeOfWrapped
<1>6. Code(Prepared(t), IndexBreaks) = Code(Wrapped(c, p), IndexBreaks)
  BY <1>0, <1>2, <1>5, RewrittenIsUnique
<1> QED
  BY <1>1, <1>6 DEF c, p

(* With one, what is wrapped begins within a declaration, and no parser    *)
(* takes it.                                                               *)
LEMMA MisreadIsRefused ==
  ASSUME NEW W, Added \subseteq W, NEW t \in Seq(W),
         Parses(t, CheckerBreaks), Form(t, CheckerBreaks) = "SELECT", ReadAlike(t),
         Occurs(Code(t, CheckerBreaks), "select:") # {}
  PROVE  ~Parses(Prepared(t), IndexBreaks)
<1> DEFINE c == Code(t, IndexBreaks)
           d == Code(Prepared(t), IndexBreaks)
           p == BeginsAt(c)
           f == First(Occurs(c, "select:"))
<1>0. /\ DOMAIN c = 1 .. Len(c) /\ Len(c) \in Nat
      /\ p \in 1 .. Len(c) /\ c[p] \in {"SELECT", "select:"}
      /\ \A m \in 1 .. Len(c) : c[m] \in {"SELECT", "select:"} => p <= m
  BY CodeOfSelect
<1>1. d \in Seq(W) /\ IsRewritten(d, c, p)
  BY PreparedIsRewritten
<1>2. /\ \A i \in Occurs(c, "PREFIX") : \A k \in Keywords(c) : i < k
      /\ \A i \in Occurs(c, "select:") : \E k \in 2 .. i : c[k] = c[i] /\ c[k - 1] = "PREFIX"
  BY SameCode DEF Parses
<1> HIDE DEF c, d, p
<1>8. Occurs(c, "select:") # {}
  BY SameCode DEF c
<1>3. f \in Occurs(c, "select:") /\ \A k \in Occurs(c, "select:") : f <= k
  <2>1. Occurs(c, "select:") # {} /\ Occurs(c, "select:") \subseteq Nat
    BY <1>0, <1>8 DEF Occurs
  <2> QED BY <2>1, FirstExists
<1> HIDE DEF f
<1>4. f \in 1 .. Len(c) /\ c[f] = "select:"
  BY <1>0, <1>3 DEF Occurs
<1>5. c[f - 1] = "PREFIX" /\ f - 1 \in 1 .. Len(c)
  <2>1. PICK k \in 2 .. f : c[k] = c[f] /\ c[k - 1] = "PREFIX"
    BY <1>2, <1>3
  <2>2. k \in Occurs(c, "select:")
    BY <1>0, <1>4, <2>1 DEF Occurs
  <2>3. k = f
    BY <1>0, <1>3, <1>4, <2>2
  <2> QED BY <1>0, <1>4, <2>1, <2>3
<1>6. p = f
  <2>1. p <= f
    BY <1>0, <1>4
  <2>2. CASE c[p] = "select:"
    <3>1. f <= p
      BY <1>0, <1>3, <2>2 DEF Occurs
    <3> QED BY <1>0, <1>4, <2>1, <3>1
  <2>3. CASE c[p] = "SELECT"
    <3>1. f - 1 < p
      BY <1>0, <1>2, <1>5, <2>3 DEF Occurs, Keywords
    <3> QED BY <1>0, <1>4, <2>1, <3>1
  <2> QED BY <1>0, <2>2, <2>3
<1>7. d[f - 1] = "PREFIX" /\ d[(f - 1) + 1] = "SELECT" /\ f - 1 \in DOMAIN d
  <2>1. f - 1 \in 1 .. p - 1 /\ (f - 1) + 1 = p
    BY <1>0, <1>4, <1>5, <1>6
  <2>2. DOMAIN d = 1 .. Len(c) + 4
    BY <1>1, LenProperties DEF IsRewritten
  <2>3. f - 1 \in 1 .. Len(c) + 4
    BY <1>0, <1>5
  <2> QED BY <1>1, <1>5, <2>1, <2>2, <2>3 DEF IsRewritten
<1> QED
  BY <1>7 DEF Parses, Occurs, d

-----------------------------------------------------------------------------
(* The queries that reach the index.                                       *)

(* They are texts that prepare_query let through.                          *)
SentAreAllowed ==
    \A q \in Query : stage[q] = "querying" => text[q] \in Text /\ Allowed(text[q])

(* A text is set when it is sent, and dropped when it no longer runs.      *)
LEMMA NextSentAreAllowed == TypeOK /\ SentAreAllowed /\ [Next]_vars => SentAreAllowed'
<1> SUFFICES ASSUME TypeOK, SentAreAllowed, [Next]_vars PROVE SentAreAllowed'
  OBVIOUS
<1>0. stage \in [Query -> Stages] /\ text \in [Query -> Text \cup {<<>>}]
  BY DEF TypeOK, Stages
<1>1. CASE UNCHANGED vars
  BY <1>1 DEF vars, SentAreAllowed
<1>2. ASSUME NEW q \in Query, NEW s \in Stages \ {"querying"}, Move(q, s),
             \A r \in Query \ {q} : text'[r] = text[r]
      PROVE  SentAreAllowed'
  BY <1>0, <1>2 DEF Move, SentAreAllowed
<1>3. ASSUME NEW q \in Query, UNCHANGED <<stage, text>> PROVE SentAreAllowed'
  BY <1>3 DEF SentAreAllowed
<1>4. ASSUME NEW q \in Query, SendQuery(q) PROVE SentAreAllowed'
  BY <1>0, <1>4 DEF SendQuery, Move, SentAreAllowed
<1>5. ASSUME NEW q \in Query, NEW n, Executed(q, n) PROVE SentAreAllowed'
  <2>1. Move(q, "releasing") /\ \A r \in Query \ {q} : text'[r] = text[r]
    BY <1>0, <1>5 DEF Executed, Leave
  <2> QED BY <1>2, <2>1 DEF Stages
<1>6. ASSUME NEW q \in Query, ClientStep(q) PROVE SentAreAllowed'
  BY <1>2, <1>3, <1>6
  DEF ClientStep, Arrive, ReceiveChunk, Disconnect, Malformed, Acquire, AtCapacity, Leave, Stages
<1>7. ASSUME NEW q \in Query, Reject(q) \/ Release(q) \/ Respond(q) PROVE SentAreAllowed'
  BY <1>2, <1>7 DEF Reject, Release, Respond, Leave, Stages
<1>8. ASSUME NEW q \in Query, IndexChunk(q) \/ IndexEnds(q) PROVE SentAreAllowed'
  BY <1>3, <1>5, <1>8 DEF IndexChunk, IndexEnds
<1> QED
  BY <1>1, <1>4, <1>6, <1>7, <1>8 DEF Next, ServerStep

(* In every reachable state, the index runs allowed texts only.            *)
LEMMA SentInvariance == Spec => []SentAreAllowed
<1>1. Init => SentAreAllowed
  BY DEF Init, SentAreAllowed
<1>2. IInv => TypeOK
  BY DEF IInv
<1> QED
  BY <1>1, <1>2, SparqlInvariance, NextSentAreAllowed, PTL DEF Spec

(* What the lemmas about texts ask for holds of every query that runs.     *)
LEMMA RunningAreTexts ==
  ASSUME SentAreAllowed, NEW t \in Running
  PROVE  /\ \E W : Added \subseteq W /\ t \in Seq(W)
         /\ Parses(t, CheckerBreaks) /\ Form(t, CheckerBreaks) \in {"SELECT", "ASK"}
<1>1. /\ t \in Seq(STRING)
      /\ Parses(t, CheckerBreaks) /\ Form(t, CheckerBreaks) \in {"SELECT", "ASK"}
  BY TextAssumption DEF Running, SentAreAllowed, Allowed
<1>2. t \in Seq(STRING \cup Added)
  BY <1>1, SeqMonotonic
<1> QED
  BY <1>1, <1>2

(* What the index accepts to run is an ASK, or it is limited: a SELECT of  *)
(* rdflib is wrapped, wherever the pattern finds its keyword and however   *)
(* the index reads the rest; an ASK of rdflib is sent as it is, and is an  *)
(* ASK to the index if it reads it alike.                                  *)
THEOREM EveryQueryIsLimited == Spec => []RowsAreBounded
<1>1. ASSUME SentAreAllowed, NEW t \in Running,
             ~(Form(t, CheckerBreaks) = "ASK" /\ ~ReadAlike(t))
      PROVE  LET c == Code(Prepared(t), IndexBreaks)
             IN  Form(Prepared(t), IndexBreaks) = "ASK" \/ c[Len(c)] = "MaxRows"
  <2>1. CASE Form(t, CheckerBreaks) = "SELECT"
    BY <1>1, <2>1, RunningAreTexts, SelectIsLimited
  <2>2. CASE Form(t, CheckerBreaks) = "ASK"
    <3>1. Prepared(t) = t /\ Code(t, CheckerBreaks) = Code(t, IndexBreaks)
      BY <1>1, <2>2, SameCode DEF Prepared
    <3> QED BY <2>2, <3>1 DEF Form
  <2> QED BY <1>1, <2>1, <2>2, RunningAreTexts
<1>2. SentAreAllowed => RowsAreBounded
  BY <1>1 DEF RowsAreBounded
<1> QED
  BY <1>2, SentInvariance, PTL

(* For a text that both parsers read alike, the rewriting is exact but for *)
(* a prefix of the name select, and then the index refuses the query: no   *)
(* comment, line break or IRI hides or uncovers a word.                    *)
THEOREM EveryRewritingIsExact == Spec => []RewritingIsExact
<1>1. ASSUME SentAreAllowed, NEW t \in Running, Form(t, CheckerBreaks) = "SELECT", ReadAlike(t)
      PROVE  LET c == Code(t, CheckerBreaks)
             IN  IF Occurs(c, "select:") = {}
                 THEN Code(Prepared(t), IndexBreaks) =
                          Code(Wrapped(c, First(Occurs(c, "SELECT"))), IndexBreaks)
                 ELSE ~Parses(Prepared(t), IndexBreaks)
  <2>1. CASE Occurs(Code(t, CheckerBreaks), "select:") = {}
    BY <1>1, <2>1, RunningAreTexts, RewrittenAsParsed, SameCode
  <2>2. CASE Occurs(Code(t, CheckerBreaks), "select:") # {}
    BY <1>1, <2>2, RunningAreTexts, MisreadIsRefused
  <2> QED BY <2>1, <2>2
<1>2. SentAreAllowed => RewritingIsExact
  BY <1>1 DEF RewritingIsExact
<1> QED
  BY <1>2, SentInvariance, PTL
=============================================================================
