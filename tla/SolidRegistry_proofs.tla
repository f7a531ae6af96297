------------------------ MODULE SolidRegistry_proofs ------------------------
(***************************************************************************)
(* Proofs about SolidRegistry, for every registry, every set of callers,   *)
(* every time to live and both failure policies.                           *)
(***************************************************************************)
EXTENDS SolidRegistry, TLAPS

USE DEF Instant

(* The two kinds of caller are callers. *)
LEMMA Callers == Checker \in Caller /\ Probe \subseteq Caller
  BY DEF Caller

-----------------------------------------------------------------------------
(* Type correctness. *)

(* Initially every variable has its type. *)
LEMMA InitTypeOK == Init => TypeOK
<1> SUFFICES ASSUME Init PROVE TypeOK
  OBVIOUS
<1>1. /\ pc \in [Caller -> {"idle", "compare", "container", "resources"}]
      /\ outcome \in [Caller -> {"none", "granted", "refused", "unavailable",
                                 "reachable", "unreachable"}]
      /\ todo \in [Caller -> SUBSET Resource]
      /\ members \in [Caller -> SUBSET WebId]
  BY DEF Init
<1>2. startedAt \in [Caller -> 0 .. MaxTime]
  BY TimeAssumption DEF Init
<1>3. changedAt \in [Resource -> [WebId -> -1 .. MaxTime]]
  BY TimeAssumption DEF Init
<1>4. cached \in BOOLEAN
  BY DEF Init
<1>5. /\ expiresAt \in 0 .. MaxTime + Ttl
      /\ clock \in 0 .. MaxTime
      /\ asked \in WebId \cup {NoWebId}
      /\ cache \in SUBSET WebId
      /\ contained \in SUBSET Resource
      /\ listing \in [Resource -> SUBSET WebId]
  BY TimeAssumption DEF Init
<1> QED BY <1>1, <1>2, <1>3, <1>4, <1>5 DEF TypeOK

(* The registry's own steps and the clock preserve the types. *)
LEMMA EnvironmentTypeOK ==
    ASSUME TypeOK, Tick \/ RegistryEdit PROVE TypeOK'
<1>1. CASE Tick
  BY <1>1, TimeAssumption DEF Tick, TypeOK, registryVars, cacheVars, callVars
<1>2. ASSUME NEW r \in Resource, NEW S \in SUBSET WebId, WriteResource(r, S)
      PROVE  TypeOK'
  BY <1>2, TimeAssumption
     DEF WriteResource, Relist, TypeOK, cacheVars, callVars
<1>3. ASSUME NEW r \in Resource, DeleteResource(r) PROVE TypeOK'
  BY <1>3, TimeAssumption
     DEF DeleteResource, Relist, TypeOK, cacheVars, callVars
<1> QED BY <1>1, <1>2, <1>3 DEF RegistryEdit

(* Each step of a load preserves the types. *)
LEMMA LoadStepTypeOK ==
    ASSUME TypeOK, NEW c \in Caller, LoadStep(c) PROVE TypeOK'
<1>1. CASE FetchContainer(c)
  BY <1>1, TimeAssumption DEF FetchContainer, TypeOK, registryVars, cacheVars
<1>2. CASE ContainerUnreadable(c)
  BY <1>2, TimeAssumption
     DEF ContainerUnreadable, Return, Raised, TypeOK, registryVars, cacheVars
<1>3. ASSUME NEW r \in Resource, FetchResource(c, r) PROVE TypeOK'
  BY <1>3, TimeAssumption
     DEF FetchResource, IsNext, TypeOK, registryVars, cacheVars
<1>4. ASSUME NEW r \in Resource, ResourceUnreadable(c, r) PROVE TypeOK'
  BY <1>4, TimeAssumption
     DEF ResourceUnreadable, IsNext, Return, Raised, TypeOK, registryVars, cacheVars
<1>5. CASE Install(c)
  BY <1>5, TimeAssumption
     DEF Install, InstallAs, Return, Succeeded, Verdict, TypeOK, registryVars
<1> QED BY <1>1, <1>2, <1>3, <1>4, <1>5 DEF LoadStep

(* Every step preserves the types. *)
LEMMA NextTypeOK == TypeOK /\ [Next]_vars => TypeOK'
<1> SUFFICES ASSUME TypeOK, [Next]_vars PROVE TypeOK'
  OBVIOUS
<1>1. CASE Tick \/ RegistryEdit
  BY <1>1, EnvironmentTypeOK
<1>2. ASSUME NEW i \in Id, RefuseBlank(i) PROVE TypeOK'
  BY <1>2, TimeAssumption, Callers DEF RefuseBlank, Return, TypeOK, registryVars, cacheVars
<1>3. ASSUME NEW i \in Id, BeginCheck(i) PROVE TypeOK'
  BY <1>3, TimeAssumption, NormalAssumption, Callers
     DEF BeginCheck, TypeOK, registryVars, cacheVars
<1>4. ASSUME NEW p \in Probe, BeginProbe(p) PROVE TypeOK'
  BY <1>4, TimeAssumption, Callers DEF BeginProbe, TypeOK, registryVars, cacheVars
<1>5. CASE UseCache
  BY <1>5, TimeAssumption, Callers DEF UseCache, Return, Verdict, TypeOK, registryVars, cacheVars
<1>6. CASE MissCache
  BY <1>6, TimeAssumption, Callers DEF MissCache, TypeOK, registryVars, cacheVars
<1>7. ASSUME NEW c \in Caller, LoadStep(c) PROVE TypeOK'
  BY <1>7, LoadStepTypeOK
<1>8. CASE Restart
  <2>1. /\ pc' \in [Caller -> {"idle", "compare", "container", "resources"}]
        /\ outcome' \in [Caller -> {"none", "granted", "refused", "unavailable",
                                    "reachable", "unreachable"}]
        /\ todo' \in [Caller -> SUBSET Resource]
        /\ members' \in [Caller -> SUBSET WebId]
    BY <1>8 DEF Restart
  <2>2. startedAt' \in [Caller -> 0 .. MaxTime]
    BY <1>8, TimeAssumption DEF Restart
  <2>3. cached' \in BOOLEAN
    BY <1>8 DEF Restart
  <2>4. /\ expiresAt' \in 0 .. MaxTime + Ttl
        /\ asked' \in WebId \cup {NoWebId}
        /\ cache' \in SUBSET WebId
    BY <1>8, TimeAssumption DEF Restart
  <2>5. UNCHANGED <<clock, contained, listing, changedAt>>
    BY <1>8 DEF Restart, registryVars
  <2> QED BY <2>1, <2>2, <2>3, <2>4, <2>5 DEF TypeOK
<1>9. CASE UNCHANGED vars
  BY <1>9 DEF vars, TypeOK, registryVars, cacheVars, callVars
<1> QED
  BY <1>1, <1>2, <1>3, <1>4, <1>5, <1>6, <1>7, <1>8, <1>9, Callers DEF Next, CheckStep

(* Type correctness of the registry check in every reachable state. *)
THEOREM TypeCorrect == Spec => []TypeOK
<1>1. QED BY InitTypeOK, NextTypeOK, PTL DEF Spec

-----------------------------------------------------------------------------
(* The inductive invariant: steps of the environment. *)

(* What an edit of the registry or the passing of time does to the history: *)
(* the last listing of a WebID only moves forward, and a listing is either  *)
(* as old as it was or begins now.                                          *)
HistoryGrows ==
    /\ UNCHANGED <<cacheVars, callVars>>
    /\ clock' >= clock
    /\ \A r \in Resource, w \in WebId : LastListed(r, w)' >= LastListed(r, w)
    /\ \A r \in Resource : \A w \in listing'[r] :
          \/ changedAt'[r][w] = clock
          \/ w \in listing[r] /\ changedAt'[r][w] = changedAt[r][w]
    /\ \A r \in Resource, w \in WebId : changedAt'[r][w] <= clock'
    /\ ListedIsContained'

(* That is what they do. *)
LEMMA EnvironmentHistory ==
    ASSUME TypeOK, PastInstants, ListedIsContained, Tick \/ RegistryEdit
    PROVE  HistoryGrows
<1>1. CASE Tick
  BY <1>1 DEF Tick, TypeOK, PastInstants, ListedIsContained, LastListed, registryVars,
               HistoryGrows
<1>2. ASSUME NEW q \in Resource, NEW S \in SUBSET WebId, Relist(q, S),
             contained' = contained \cup {q} \/ (S = {} /\ contained' = contained \ {q})
      PROVE  HistoryGrows
  <2>1. UNCHANGED <<clock, cacheVars, callVars>>
    BY <1>2 DEF Relist
  <2>2. \A r \in Resource : listing'[r] = IF r = q THEN S ELSE listing[r]
    BY <1>2 DEF Relist, TypeOK
  <2>3. \A r \in Resource, w \in WebId :
          changedAt'[r][w] = IF r = q /\ (w \in S) # (w \in listing[r])
                             THEN clock ELSE changedAt[r][w]
    BY <1>2 DEF Relist, TypeOK
  <2>4. \A r \in Resource, w \in WebId : changedAt[r][w] <= clock /\ changedAt[r][w] \in Int
    BY DEF TypeOK, PastInstants
  <2>5. clock \in Int
    BY DEF TypeOK
  <2>6. \A r \in Resource, w \in WebId : LastListed(r, w)' >= LastListed(r, w)
    BY <2>1, <2>2, <2>3, <2>4, <2>5 DEF LastListed
  <2>7. \A r \in Resource : listing'[r] \subseteq WebId
    BY <2>2 DEF TypeOK
  <2>8. ListedIsContained'
    BY <1>2, <2>2 DEF ListedIsContained
  <2> QED BY <2>1, <2>2, <2>3, <2>4, <2>5, <2>6, <2>7, <2>8 DEF HistoryGrows
<1>3. ASSUME NEW q \in Resource, NEW S \in SUBSET WebId, WriteResource(q, S)
      PROVE  Relist(q, S) /\ contained' = contained \cup {q}
  BY <1>3 DEF WriteResource
<1>4. ASSUME NEW q \in Resource, DeleteResource(q)
      PROVE  Relist(q, {}) /\ contained' = contained \ {q}
  BY <1>4 DEF DeleteResource
<1>5. CASE \E q \in Resource : \E S \in SUBSET WebId : WriteResource(q, S)
  <2>1. PICK q \in Resource, S \in SUBSET WebId : WriteResource(q, S)
    BY <1>5
  <2>2. Relist(q, S) /\ contained' = contained \cup {q}
    BY <1>3, <2>1
  <2> QED BY <1>2, <2>2
<1>6. CASE \E q \in Resource : DeleteResource(q)
  <2>1. PICK q \in Resource : DeleteResource(q)
    BY <1>6
  <2>2. Relist(q, {}) /\ contained' = contained \ {q}
    BY <1>4, <2>1
  <2>3. {} \in SUBSET WebId
    OBVIOUS
  <2> QED BY <1>2, <2>2, <2>3
<1> QED
  BY <1>1, <1>5, <1>6 DEF RegistryEdit

(* Edits of the registry and the passing of time preserve the invariant. *)
LEMMA EnvironmentIInv == ASSUME IInv, Tick \/ RegistryEdit PROVE IInv'
<1> USE DEF IInv
<1>1. TypeOK'
  BY EnvironmentTypeOK
<1>2. /\ UNCHANGED <<cached, cache, expiresAt, pc, asked, startedAt, todo, members, outcome>>
      /\ clock' >= clock
      /\ \A r \in Resource, w \in WebId : LastListed(r, w)' >= LastListed(r, w)
      /\ \A r \in Resource : \A w \in listing'[r] :
            \/ changedAt'[r][w] = clock
            \/ w \in listing[r] /\ changedAt'[r][w] = changedAt[r][w]
      /\ \A r \in Resource, w \in WebId : changedAt'[r][w] <= clock'
      /\ ListedIsContained'
  BY EnvironmentHistory DEF HistoryGrows, cacheVars, callVars
<1>3. /\ clock \in Int /\ clock' \in Int /\ Ttl \in Int /\ expiresAt \in Int
      /\ \A c \in Caller : startedAt[c] \in Int /\ startedAt[c] <= clock
      /\ \A c \in Caller : members[c] \subseteq WebId
      /\ \A r \in Resource, w \in WebId : LastListed(r, w) \in Int /\ LastListed(r, w)' \in Int
      /\ \A r \in Resource : listing'[r] \subseteq WebId
      /\ \A r \in Resource : \A w \in WebId : changedAt[r][w] \in Int
  BY <1>1, TimeAssumption DEF TypeOK, PastInstants, LastListed
<1>4. PastInstants'
  BY <1>2, <1>3 DEF PastInstants
<1>5. NothingAccumulated'
  BY <1>2 DEF NothingAccumulated
<1>6. LoadFresh'
  BY <1>2, <1>3 DEF LoadFresh
<1>7. LoadComplete'
  BY <1>2, <1>3 DEF LoadComplete
<1>8. CacheFresh'
  BY <1>2, <1>3 DEF CacheFresh, TypeOK
<1>9. CacheComplete'
  <2> SUFFICES ASSUME FailClosed, cached', NEW r \in Resource, NEW w \in listing'[r],
                      changedAt'[r][w] + Ttl < expiresAt'
               PROVE  w \in cache'
    BY DEF CacheComplete
  <2>1. expiresAt - Ttl <= clock
    BY <1>2 DEF CacheFresh
  <2>2. w \in listing[r] /\ changedAt'[r][w] = changedAt[r][w]
    BY <1>2, <1>3, <2>1
  <2> QED BY <1>2, <2>2 DEF CacheComplete
<1>10. RevocationBound'
  <2> SUFFICES ASSUME outcome'[Checker] = "granted" PROVE RevocationBound'
    BY DEF RevocationBound
  <2>1. PICK r \in Resource :
          /\ LastListed(r, asked) >= 0
          /\ LastListed(r, asked) >= startedAt[Checker]
                \/ LastListed(r, asked) + Ttl > startedAt[Checker]
    BY <1>2 DEF RevocationBound
  <2>2. asked \in WebId
    BY <1>2 DEF RevocationBound
  <2> QED BY <1>2, <1>3, <2>1, <2>2, Callers DEF RevocationBound
<1>11. AdmissionBound'
  <2> SUFFICES ASSUME FailClosed, outcome'[Checker] = "refused", NEW r \in Resource,
                      asked' \in listing'[r],
                      changedAt'[r][asked'] + Ttl < startedAt'[Checker]
               PROVE  FALSE
    BY DEF AdmissionBound
  <2>1. changedAt'[r][asked] # clock
    BY <1>2, <1>3, Callers, TimeAssumption
  <2> QED BY <1>2, <2>1 DEF AdmissionBound
<1> QED BY <1>1, <1>2, <1>4, <1>5, <1>6, <1>7, <1>8, <1>9, <1>10, <1>11

-----------------------------------------------------------------------------
(* The inductive invariant: steps of the callers. *)

(* A step that leaves the clock and the registry alone leaves the history   *)
(* alone, and with it what the invariant says of the registry only.         *)
LEMMA CallerFrame ==
    ASSUME IInv, UNCHANGED <<clock, registryVars>>
    PROVE  /\ \A r \in Resource, w \in WebId :
                 LastListed(r, w)' = LastListed(r, w) /\ LastListed(r, w) \in Int
           /\ \A r \in Resource : listing'[r] = listing[r] /\ listing[r] \subseteq WebId
           /\ changedAt' = changedAt
           /\ clock' = clock
           /\ clock \in Int
           /\ Ttl \in Int
           /\ \A r \in Resource, w \in WebId : changedAt[r][w] \in Int /\ changedAt[r][w] <= clock
           /\ \A c \in Caller : startedAt[c] \in Int /\ startedAt[c] <= clock /\ startedAt[c] >= 0
           /\ ListedIsContained'
  BY TimeAssumption DEF IInv, TypeOK, LastListed, registryVars, ListedIsContained, PastInstants

(* A call that ends without a cache to install, and without a verdict.      *)
LEMMA ReturnIInv ==
    ASSUME IInv, NEW c \in Caller, Return(c, Raised(c)),
           UNCHANGED <<clock, registryVars, cacheVars, asked, startedAt>>, TypeOK'
    PROVE  IInv'
<1> USE CallerFrame DEF IInv
<1>1. /\ UNCHANGED <<cached, cache, expiresAt, asked, startedAt>>
      /\ \A d \in Caller : /\ members'[d] = IF d = c THEN {} ELSE members[d]
                           /\ todo'[d] = IF d = c THEN {} ELSE todo[d]
                           /\ pc'[d] = IF d = c THEN "idle" ELSE pc[d]
                           /\ outcome'[d] = IF d = c THEN Raised(c) ELSE outcome[d]
  BY DEF Return, TypeOK, cacheVars
<1>2. PastInstants' /\ NothingAccumulated'
  BY <1>1 DEF PastInstants, NothingAccumulated
<1>3. LoadFresh'
  BY <1>1 DEF LoadFresh, TypeOK
<1>4. LoadComplete'
  BY <1>1 DEF LoadComplete
<1>5. CacheFresh'
  BY <1>1 DEF CacheFresh, TypeOK
<1>6. CacheComplete'
  BY <1>1 DEF CacheComplete
<1>7. outcome'[Checker] \in {"unavailable", outcome[Checker]}
  BY <1>1, Callers DEF Raised
<1>8. RevocationBound'
  BY <1>1, <1>7 DEF RevocationBound
<1>9. AdmissionBound'
  BY <1>1, <1>7 DEF AdmissionBound
<1> QED BY <1>2, <1>3, <1>4, <1>5, <1>6, <1>8, <1>9

(* is_member answers a blank identifier. *)
LEMMA RefuseBlankIInv == ASSUME IInv, NEW i \in Id, RefuseBlank(i), TypeOK' PROVE IInv'
<1> USE CallerFrame, Callers DEF IInv
<1>1. /\ UNCHANGED <<clock, registryVars, cached, cache, expiresAt, startedAt>>
      /\ asked' = NoWebId
      /\ outcome'[Checker] = "refused"
      /\ \A d \in Caller : /\ members'[d] = IF d = Checker THEN {} ELSE members[d]
                           /\ todo'[d] = IF d = Checker THEN {} ELSE todo[d]
                           /\ pc'[d] = IF d = Checker THEN "idle" ELSE pc[d]
  BY DEF RefuseBlank, Return, TypeOK, cacheVars
<1>2. PastInstants' /\ NothingAccumulated'
  BY <1>1 DEF PastInstants, NothingAccumulated
<1>3. LoadFresh'
  BY <1>1 DEF LoadFresh, TypeOK
<1>4. LoadComplete'
  BY <1>1 DEF LoadComplete
<1>5. CacheFresh' /\ CacheComplete'
  BY <1>1 DEF CacheFresh, CacheComplete, TypeOK
<1>6. RevocationBound'
  BY <1>1 DEF RevocationBound
<1>7. AdmissionBound'
  BY <1>1, NoWebIdAssumption DEF AdmissionBound
<1> QED BY <1>1, <1>2, <1>3, <1>4, <1>5, <1>6, <1>7

(* A call begins: nothing is accumulated and there is no verdict yet.       *)
LEMMA BeginIInv ==
    ASSUME IInv, TypeOK', NEW c \in Caller, pc[c] = "idle",
           NEW s \in {"compare", "container"},
           pc' = [pc EXCEPT ![c] = s],
           startedAt' = [startedAt EXCEPT ![c] = clock],
           outcome' = [outcome EXCEPT ![c] = "none"],
           c # Checker => asked' = asked,
           UNCHANGED <<clock, registryVars, cacheVars, todo, members>>
    PROVE  IInv'
<1> USE CallerFrame, Callers DEF IInv
<1>1. /\ UNCHANGED <<cached, cache, expiresAt>>
      /\ \A d \in Caller : /\ startedAt'[d] = IF d = c THEN clock ELSE startedAt[d]
                           /\ pc'[d] = IF d = c THEN s ELSE pc[d]
                           /\ outcome'[d] = IF d = c THEN "none" ELSE outcome[d]
  BY DEF TypeOK, cacheVars
<1>2. members[c] = {}
  BY DEF NothingAccumulated
<1>3. PastInstants' /\ NothingAccumulated'
  BY <1>1, <1>2 DEF PastInstants, NothingAccumulated
<1>4. LoadFresh'
  BY <1>1, <1>2 DEF LoadFresh, TypeOK
<1>5. LoadComplete'
  BY <1>1 DEF LoadComplete
<1>6. CacheFresh' /\ CacheComplete'
  BY <1>1 DEF CacheFresh, CacheComplete, TypeOK
<1>7. RevocationBound'
  BY <1>1 DEF RevocationBound
<1>8. AdmissionBound'
  BY <1>1 DEF AdmissionBound
<1> QED BY <1>3, <1>4, <1>5, <1>6, <1>7, <1>8

(* The checker is served from the cache. *)
LEMMA UseCacheIInv == ASSUME IInv, UseCache, TypeOK' PROVE IInv'
<1> USE CallerFrame, Callers DEF IInv
<1>1. /\ UNCHANGED <<clock, registryVars, cached, cache, expiresAt, asked, startedAt>>
      /\ outcome'[Checker] = IF asked \in cache THEN "granted" ELSE "refused"
      /\ cached /\ startedAt[Checker] < expiresAt
  BY DEF UseCache, CacheValid, Return, Verdict, TypeOK, cacheVars
<1>2. \A d \in Caller : /\ members'[d] = IF d = Checker THEN {} ELSE members[d]
                        /\ todo'[d] = IF d = Checker THEN {} ELSE todo[d]
                        /\ pc'[d] = IF d = Checker THEN "idle" ELSE pc[d]
  BY DEF UseCache, Return, TypeOK
<1>3. PastInstants' /\ NothingAccumulated'
  BY <1>1, <1>2 DEF PastInstants, NothingAccumulated
<1>4. LoadFresh'
  BY <1>1, <1>2 DEF LoadFresh, TypeOK
<1>5. LoadComplete'
  BY <1>1, <1>2 DEF LoadComplete
<1>6. CacheFresh' /\ CacheComplete'
  BY <1>1 DEF CacheFresh, CacheComplete, TypeOK
<1>7. expiresAt \in Int /\ cache \subseteq WebId
  BY DEF TypeOK
<1>8. RevocationBound'
  BY <1>1, <1>7 DEF RevocationBound, CacheFresh
<1>9. AdmissionBound'
  <2> SUFFICES ASSUME FailClosed, outcome'[Checker] = "refused", NEW r \in Resource,
                      asked \in listing[r],
                      changedAt[r][asked] + Ttl < startedAt[Checker]
               PROVE  FALSE
    BY <1>1 DEF AdmissionBound
  <2>1. asked \notin cache
    BY <1>1
  <2>2. changedAt[r][asked] + Ttl < expiresAt
    BY <1>1, <1>7
  <2> QED BY <1>1, <2>1, <2>2 DEF CacheComplete
<1> QED BY <1>1, <1>3, <1>4, <1>5, <1>6, <1>8, <1>9

(* A caller that has neither a result nor anything accumulated moves on:    *)
(* the cache is missed, or the container is read.                           *)
LEMMA AdvanceIInv ==
    ASSUME IInv, TypeOK', NEW c \in Caller, MissCache \/ FetchContainer(c)
    PROVE  IInv'
<1> USE CallerFrame, Callers DEF IInv
<1>1. /\ UNCHANGED <<clock, registryVars, cached, cache, expiresAt, asked, startedAt,
                     members, outcome>>
      /\ \A d \in Caller :
            \/ pc'[d] = pc[d] /\ todo'[d] = todo[d]
            \/ pc[d] \in {"compare", "container"} /\ pc'[d] = "container"
            \/ /\ pc[d] = "container"
               /\ pc'[d] = "resources"
               /\ todo'[d] = contained
  BY DEF MissCache, FetchContainer, TypeOK, cacheVars
<1>2. PastInstants' /\ NothingAccumulated'
  BY <1>1 DEF PastInstants, NothingAccumulated
<1>3. LoadFresh'
  BY <1>1 DEF LoadFresh, TypeOK
<1>4. LoadComplete'
  BY <1>1 DEF LoadComplete, ListedIsContained
<1>5. CacheFresh' /\ CacheComplete'
  BY <1>1 DEF CacheFresh, CacheComplete, TypeOK
<1>6. RevocationBound' /\ AdmissionBound'
  BY <1>1 DEF RevocationBound, AdmissionBound
<1> QED BY <1>1, <1>2, <1>3, <1>4, <1>5, <1>6

(* A resource is read, or skipped under a contract that is not fail-closed. *)
LEMMA ResourceIInv ==
    ASSUME IInv, TypeOK', NEW c \in Caller, NEW r \in Resource,
           FetchResource(c, r) \/ (~FailClosed /\ ResourceUnreadable(c, r))
    PROVE  IInv'
<1> USE CallerFrame, Callers DEF IInv
<1>1. /\ UNCHANGED <<clock, registryVars, cached, cache, expiresAt, asked, startedAt, outcome>>
      /\ pc' = pc
      /\ pc[c] = "resources"
      /\ \A d \in Caller : todo'[d] = IF d = c THEN todo[c] \ {r} ELSE todo[d]
  BY DEF FetchResource, ResourceUnreadable, IsNext, TypeOK, cacheVars
<1>2. \/ /\ \A d \in Caller :
               members'[d] = IF d = c THEN members[c] \cup listing[r] ELSE members[d]
      \/ ~FailClosed /\ members' = members
  BY DEF FetchResource, ResourceUnreadable, TypeOK
<1>3. PastInstants'
  BY <1>1 DEF PastInstants
<1>4. NothingAccumulated'
  BY <1>1, <1>2 DEF NothingAccumulated
<1>5. \A w \in listing[r] : LastListed(r, w) = clock
  BY DEF LastListed
<1>6. LoadFresh'
  <2> SUFFICES ASSUME NEW d \in Caller, NEW w \in members'[d]
               PROVE  \E q \in Resource : /\ LastListed(q, w)' >= 0
                                          /\ LastListed(q, w)' >= startedAt'[d]
    BY DEF LoadFresh
  <2>1. w \in WebId
    BY DEF TypeOK
  <2>2. CASE w \in members[d]
    BY <1>1, <2>1, <2>2 DEF LoadFresh
  <2>3. CASE d = c /\ w \in listing[r]
    BY <1>1, <1>5, <2>1, <2>3 DEF TypeOK
  <2> QED BY <1>2, <2>2, <2>3
<1>7. LoadComplete'
  BY <1>1, <1>2 DEF LoadComplete
<1>8. CacheFresh' /\ CacheComplete'
  BY <1>1 DEF CacheFresh, CacheComplete, TypeOK
<1>9. RevocationBound' /\ AdmissionBound'
  BY <1>1 DEF RevocationBound, AdmissionBound
<1> QED BY <1>1, <1>3, <1>4, <1>6, <1>7, <1>8, <1>9

(* A load completes and installs its result, whatever the cache held.       *)
LEMMA InstallIInv == ASSUME IInv, TypeOK', NEW c \in Caller, Install(c) PROVE IInv'
<1> USE CallerFrame, Callers DEF IInv
<1>1. /\ UNCHANGED <<clock, registryVars, asked, startedAt>>
      /\ cached' = TRUE
      /\ cache' = members[c]
      /\ expiresAt' = startedAt[c] + Ttl
      /\ pc[c] = "resources"
      /\ todo[c] = {}
  BY DEF Install, InstallAs
<1>2. \A d \in Caller : /\ members'[d] = IF d = c THEN {} ELSE members[d]
                        /\ todo'[d] = IF d = c THEN {} ELSE todo[d]
                        /\ pc'[d] = IF d = c THEN "idle" ELSE pc[d]
                        /\ outcome'[d] = IF d = c THEN Succeeded(c, members[c]) ELSE outcome[d]
  BY DEF Install, InstallAs, Return, TypeOK
<1>3. PastInstants' /\ NothingAccumulated'
  BY <1>1, <1>2 DEF PastInstants, NothingAccumulated
<1>4. LoadFresh'
  BY <1>1, <1>2 DEF LoadFresh, TypeOK
<1>5. LoadComplete'
  BY <1>1, <1>2 DEF LoadComplete
<1>6. members[c] \subseteq WebId
  BY DEF TypeOK
<1>7. CacheFresh'
  BY <1>1, <1>6 DEF CacheFresh, LoadFresh
<1>8. CacheComplete'
  BY <1>1 DEF CacheComplete, LoadComplete
<1>9. \/ outcome'[Checker] = outcome[Checker]
      \/ /\ c = Checker
         /\ outcome'[Checker] = IF asked \in members[c] THEN "granted" ELSE "refused"
  BY <1>2 DEF Succeeded, Verdict
<1>10. RevocationBound'
  BY <1>1, <1>6, <1>9 DEF RevocationBound, LoadFresh
<1>11. AdmissionBound'
  <2> SUFFICES ASSUME FailClosed, outcome'[Checker] = "refused", NEW r \in Resource,
                      asked \in listing[r],
                      changedAt[r][asked] + Ttl < startedAt[Checker]
               PROVE  FALSE
    BY <1>1 DEF AdmissionBound
  <2>1. CASE outcome[Checker] = "refused"
    BY <1>1, <2>1 DEF AdmissionBound
  <2>2. CASE c = Checker /\ asked \notin members[c]
    <3>1. changedAt[r][asked] < startedAt[Checker]
      BY <1>1, TimeAssumption
    <3> QED BY <1>1, <2>2, <3>1 DEF LoadComplete
  <2> QED BY <1>9, <2>1, <2>2
<1> QED BY <1>1, <1>3, <1>4, <1>5, <1>7, <1>8, <1>10, <1>11

(* A restart forgets the cache and every call. *)
LEMMA RestartIInv == ASSUME IInv, TypeOK', Restart PROVE IInv'
<1> USE CallerFrame, Callers DEF IInv
<1>1. /\ UNCHANGED <<clock, registryVars>>
      /\ cached' = FALSE
      /\ outcome'[Checker] = "none"
      /\ \A d \in Caller : startedAt'[d] = 0 /\ members'[d] = {} /\ pc'[d] = "idle"
  BY DEF Restart
<1>2. clock >= 0
  BY DEF TypeOK
<1>3. PastInstants' /\ NothingAccumulated'
  BY <1>1, <1>2 DEF PastInstants, NothingAccumulated
<1>4. LoadFresh' /\ LoadComplete'
  BY <1>1 DEF LoadFresh, LoadComplete
<1>5. CacheFresh' /\ CacheComplete'
  BY <1>1 DEF CacheFresh, CacheComplete
<1>6. RevocationBound' /\ AdmissionBound'
  BY <1>1 DEF RevocationBound, AdmissionBound
<1> QED BY <1>1, <1>3, <1>4, <1>5, <1>6

-----------------------------------------------------------------------------
(* The theorems. *)

(* Initially nothing is cached, loaded or answered. *)
LEMMA InitIInv == Init => IInv
<1> SUFFICES ASSUME Init PROVE IInv
  OBVIOUS
<1>1. TypeOK
  BY InitTypeOK
<1>2. /\ clock = 0 /\ cached = FALSE
      /\ outcome[Checker] = "none"
      /\ \A r \in Resource, w \in WebId : changedAt[r][w] = -1
      /\ \A r \in Resource : listing[r] # {} => r \in contained
      /\ \A d \in Caller : startedAt[d] = 0 /\ members[d] = {} /\ pc[d] = "idle"
  BY Callers DEF Init
<1>3. PastInstants /\ NothingAccumulated /\ ListedIsContained
  BY <1>2 DEF PastInstants, NothingAccumulated, ListedIsContained
<1>4. LoadFresh /\ LoadComplete
  BY <1>2 DEF LoadFresh, LoadComplete
<1>5. CacheFresh /\ CacheComplete
  BY <1>2 DEF CacheFresh, CacheComplete
<1>6. RevocationBound /\ AdmissionBound
  BY <1>2 DEF RevocationBound, AdmissionBound
<1> QED BY <1>1, <1>3, <1>4, <1>5, <1>6 DEF IInv

(* A step of a load preserves the invariant. *)
LEMMA LoadStepIInv == ASSUME IInv, TypeOK', NEW c \in Caller, LoadStep(c) PROVE IInv'
<1>1. CASE FetchContainer(c)
  BY <1>1, AdvanceIInv
<1>2. CASE ContainerUnreadable(c)
  BY <1>2, ReturnIInv DEF ContainerUnreadable
<1>3. ASSUME NEW r \in Resource, FetchResource(c, r) PROVE IInv'
  BY <1>3, ResourceIInv
<1>4. ASSUME NEW r \in Resource, ResourceUnreadable(c, r) PROVE IInv'
  <2>1. CASE FailClosed
    BY <1>4, <2>1, ReturnIInv DEF ResourceUnreadable
  <2>2. CASE ~FailClosed
    BY <1>4, <2>2, ResourceIInv
  <2> QED BY <2>1, <2>2
<1>5. CASE Install(c)
  BY <1>5, InstallIInv
<1> QED BY <1>1, <1>2, <1>3, <1>4, <1>5 DEF LoadStep

(* Every step preserves the invariant. *)
LEMMA NextIInv == IInv /\ [Next]_vars => IInv'
<1> SUFFICES ASSUME IInv, [Next]_vars PROVE IInv'
  OBVIOUS
<1>1. TypeOK'
  BY NextTypeOK DEF IInv
<1>2. CASE Tick \/ RegistryEdit
  BY <1>2, EnvironmentIInv
<1>3. ASSUME NEW i \in Id, RefuseBlank(i) PROVE IInv'
  BY <1>1, <1>3, RefuseBlankIInv
<1>4. ASSUME NEW i \in Id, BeginCheck(i) PROVE IInv'
  BY <1>1, <1>4, BeginIInv, Callers DEF BeginCheck
<1>5. ASSUME NEW p \in Probe, BeginProbe(p) PROVE IInv'
  BY <1>1, <1>5, BeginIInv, Callers DEF BeginProbe
<1>6. CASE UseCache
  BY <1>1, <1>6, UseCacheIInv
<1>7. CASE MissCache
  BY <1>1, <1>7, AdvanceIInv, Callers
<1>8. ASSUME NEW c \in Caller, LoadStep(c) PROVE IInv'
  BY <1>1, <1>8, LoadStepIInv
<1>9. CASE Restart
  BY <1>1, <1>9, RestartIInv
<1>10. CASE UNCHANGED vars
  BY <1>10 DEF vars, registryVars, cacheVars, callVars, IInv, TypeOK, PastInstants,
               ListedIsContained, NothingAccumulated, LoadFresh, LoadComplete,
               CacheFresh, CacheComplete, RevocationBound, AdmissionBound, LastListed
<1> QED
  BY <1>2, <1>3, <1>4, <1>5, <1>6, <1>7, <1>8, <1>9, <1>10, Callers DEF Next, CheckStep

(* The inductive invariant holds in every reachable state. *)
THEOREM Invariance == Spec => []IInv
<1>1. QED BY InitIInv, NextIInv, PTL DEF Spec

(* For every registry and every overlap of loads: whoever is_member grants  *)
(* was listed less than Ttl before the check began, or during it.           *)
THEOREM RevocationIsBounded == Spec => []RevocationBound
<1>1. IInv => RevocationBound
  BY DEF IInv
<1>2. QED BY <1>1, Invariance, PTL

(* Under a fail-closed contract is_member never refuses a WebID one resource *)
(* has listed without interruption since more than Ttl before the check.     *)
THEOREM AdmissionIsBounded == Spec => []AdmissionBound
<1>1. IInv => AdmissionBound
  BY DEF IInv
<1>2. QED BY <1>1, Invariance, PTL

(* The cache is never older than its expiry claims, though loads that began *)
(* earlier may install over loads that began later.                         *)
THEOREM CacheIsFresh == Spec => []CacheFresh
<1>1. IInv => CacheFresh
  BY DEF IInv
<1>2. QED BY <1>1, Invariance, PTL
=============================================================================
