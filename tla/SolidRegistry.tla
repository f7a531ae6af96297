---------------------------- MODULE SolidRegistry ----------------------------
(***************************************************************************)
(* SolidRegistryCheck (catalog/modes/solid/registry.py): who is a member   *)
(* of the participant registry, as far as this process knows.              *)
(*                                                                         *)
(* The registry is an LDP container on a Solid pod: resources, each        *)
(* listing WebIDs.  Its administrators edit it at any time.  The catalog   *)
(* reads the container, then every contained resource in turn, and caches  *)
(* the union for Ttl seconds.  Two kinds of caller share the cache:        *)
(*   Checker  is_member, called by push_catalog on the event loop; the     *)
(*            loop is blocked meanwhile, so there is one at a time;        *)
(*   Probe    registry_reachable, called by /status and /ready on          *)
(*            thread-pool threads: it never reads the cache but installs   *)
(*            what it loads, concurrently with the checker.                *)
(*                                                                         *)
(* A step is a stretch of Python that another thread or an HTTP server     *)
(* cannot cut.  The two stores that install a cache (lines 136-137) have   *)
(* no point between them at which CPython 3.11 hands over the interpreter  *)
(* lock, so they are one step; sampling the clock (line 116) and comparing *)
(* it with the expiry (line 117) are two.                                  *)
(***************************************************************************)
EXTENDS Integers

CONSTANTS
    Id,         \* participant identifiers as requests spell them
    WebId,      \* normalised WebIDs
    NoWebId,    \* what a blank identifier normalises to
    Normal,     \* _normalize_webid, as a function of the spelling
    Resource,   \* URLs of member resources, as ranks in sorted() order
    Checker,    \* the caller of is_member
    Probe,      \* the callers of registry_reachable
    Ttl,        \* cache_ttl_seconds
    FailClosed, \* contract.failure_fail_closed
    MaxTime     \* bound: the clock stops here

ASSUME ResourceRanks == Resource \subseteq Int
ASSUME TimeAssumption == Ttl \in Nat /\ MaxTime \in Nat
ASSUME FailClosedIsBoolean == FailClosed \in BOOLEAN
ASSUME CheckerAssumption == Checker \notin Probe
ASSUME NoWebIdAssumption == NoWebId \notin WebId
ASSUME NormalAssumption == Normal \in [Id -> WebId \cup {NoWebId}]

VARIABLES
    clock,      \* time.monotonic()
    contained,  \* resources the container lists
    listing,    \* the WebIDs each resource lists; {} when it is not contained
    changedAt,  \* history: when r last began or ceased to list w; -1 before the run
    cached,     \* _members_cache is not None
    cache,      \* _members_cache, {} when it is None
    expiresAt,  \* _cache_expires_at
    pc,         \* where each caller is in load_members
    asked,      \* the normalised WebID is_member was last asked about
    startedAt,  \* the caller's local `now` (line 116)
    todo,       \* resources still to fetch in the loop of line 184
    members,    \* the set being accumulated (line 182)
    outcome     \* what the caller's last call returned or raised

registryVars == <<contained, listing, changedAt>>
cacheVars == <<cached, cache, expiresAt>>
callVars == <<pc, asked, startedAt, todo, members, outcome>>
vars == <<clock, registryVars, cacheVars, callVars>>

Caller == {Checker} \cup Probe

\* The last instant at which r was seen to list w: now, or when it ceased to.
LastListed(r, w) == IF w \in listing[r] THEN clock ELSE changedAt[r][w]

-----------------------------------------------------------------------------
(* The registry and its administrators: external, as the code reads them.  *)

Tick ==
    /\ clock < MaxTime
    /\ clock' = clock + 1
    /\ UNCHANGED <<registryVars, cacheVars, callVars>>

\* r now lists exactly S: the history records which pairs changed.
Relist(r, S) ==
    /\ listing' = [listing EXCEPT ![r] = S]
    /\ changedAt' = [changedAt EXCEPT ![r] =
         [w \in WebId |-> IF (w \in S) # (w \in listing[r]) THEN clock ELSE @[w]]]
    /\ UNCHANGED <<clock, cacheVars, callVars>>

\* An administrator creates or rewrites a member resource.
WriteResource(r, S) ==
    /\ contained' = contained \cup {r}
    /\ Relist(r, S)

\* An administrator deletes a member resource: it leaves the container with it.
DeleteResource(r) ==
    /\ r \in contained
    /\ contained' = contained \ {r}
    /\ Relist(r, {})

-----------------------------------------------------------------------------
(* The callers. *)

\* The call ends: its local variables are gone and o is what it gave.
Return(c, o) ==
    /\ pc' = [pc EXCEPT ![c] = "idle"]
    /\ todo' = [todo EXCEPT ![c] = {}]
    /\ members' = [members EXCEPT ![c] = {}]
    /\ outcome' = [outcome EXCEPT ![c] = o]

\* The value of `webid in ...` for the checker; load_members returned S.
Verdict(S) == IF asked \in S THEN "granted" ELSE "refused"

Succeeded(c, S) == IF c = Checker THEN Verdict(S) ELSE "reachable"

Raised(c) == IF c = Checker THEN "unavailable" ELSE "unreachable"

\* is_member: a blank WebID is refused without a look at the registry.
RefuseBlank(i) ==
    /\ pc[Checker] = "idle"
    /\ Normal[i] = NoWebId
    /\ asked' = NoWebId
    /\ Return(Checker, "refused")
    /\ UNCHANGED <<clock, registryVars, cacheVars, startedAt>>

\* is_member enters load_members and samples the clock (line 116).
BeginCheck(i) ==
    /\ pc[Checker] = "idle"
    /\ Normal[i] # NoWebId
    /\ asked' = Normal[i]
    /\ pc' = [pc EXCEPT ![Checker] = "compare"]
    /\ startedAt' = [startedAt EXCEPT ![Checker] = clock]
    /\ outcome' = [outcome EXCEPT ![Checker] = "none"]
    /\ UNCHANGED <<clock, registryVars, cacheVars, todo, members>>

\* registry_reachable forces a refresh: line 117 fails on its first operand.
BeginProbe(p) ==
    /\ pc[p] = "idle"
    /\ pc' = [pc EXCEPT ![p] = "container"]
    /\ startedAt' = [startedAt EXCEPT ![p] = clock]
    /\ outcome' = [outcome EXCEPT ![p] = "none"]
    /\ UNCHANGED <<clock, registryVars, cacheVars, asked, todo, members>>

\* Mutant of CacheValid: the cache still serves at the instant of its expiry.
CacheValidAtExpiry == cached /\ startedAt[Checker] <= expiresAt

\* Line 117: a cache, and the sampled time is before its expiry.
CacheValid == cached /\ startedAt[Checker] < expiresAt

UseCache ==
    /\ pc[Checker] = "compare"
    /\ CacheValid
    /\ Return(Checker, Verdict(cache))
    /\ UNCHANGED <<clock, registryVars, cacheVars, asked, startedAt>>

MissCache ==
    /\ pc[Checker] = "compare"
    /\ ~CacheValid
    /\ pc' = [pc EXCEPT ![Checker] = "container"]
    /\ UNCHANGED <<clock, registryVars, cacheVars, asked, startedAt, todo, members, outcome>>

\* The container is fetched and lists what the pod contains at that instant.
FetchContainer(c) ==
    /\ pc[c] = "container"
    /\ pc' = [pc EXCEPT ![c] = "resources"]
    /\ todo' = [todo EXCEPT ![c] = contained]
    /\ UNCHANGED <<clock, registryVars, cacheVars, asked, startedAt, members, outcome>>

\* No registry URL, or the container cannot be fetched or parsed: the callers
\* pass allow_stale=False, so an error is raised whatever the cache holds.
ContainerUnreadable(c) ==
    /\ pc[c] = "container"
    /\ Return(c, Raised(c))
    /\ UNCHANGED <<clock, registryVars, cacheVars, asked, startedAt>>

\* The loop of line 184 takes the resources in sorted order.
IsNext(c, r) ==
    /\ pc[c] = "resources"
    /\ r \in todo[c]
    /\ \A q \in todo[c] : r <= q

FetchResource(c, r) ==
    /\ IsNext(c, r)
    /\ r \in contained
    /\ todo' = [todo EXCEPT ![c] = @ \ {r}]
    /\ members' = [members EXCEPT ![c] = @ \cup listing[r]]
    /\ UNCHANGED <<clock, registryVars, cacheVars, pc, asked, startedAt, outcome>>

\* Mutant of ResourceUnreadable: the error is swallowed under every contract.
SkipUnreadable(c, r) ==
    /\ IsNext(c, r)
    /\ todo' = [todo EXCEPT ![c] = @ \ {r}]
    /\ UNCHANGED <<clock, registryVars, cacheVars, pc, asked, startedAt, members, outcome>>

\* r is gone (404), its server fails, or its body does not parse.
ResourceUnreadable(c, r) ==
    /\ IsNext(c, r)
    /\ IF FailClosed
       THEN Return(c, Raised(c))
       ELSE /\ todo' = [todo EXCEPT ![c] = @ \ {r}]
            /\ UNCHANGED <<pc, members, outcome>>
    /\ UNCHANGED <<clock, registryVars, cacheVars, asked, startedAt>>

\* A load that installs S, to expire at t.
InstallAs(c, S, t) ==
    /\ pc[c] = "resources"
    /\ todo[c] = {}
    /\ cached' = TRUE
    /\ cache' = S
    /\ expiresAt' = t
    /\ Return(c, Succeeded(c, members[c]))
    /\ UNCHANGED <<clock, registryVars, asked, startedAt>>

\* Mutants of Install: the time to live counts from the end of the load, is
\* granted twice, or the cache grows without forgetting.
InstallFromEnd(c) == InstallAs(c, members[c], clock + Ttl)
InstallTwice(c) == InstallAs(c, members[c], startedAt[c] + Ttl + Ttl)
InstallMerged(c) == InstallAs(c, cache \cup members[c], startedAt[c] + Ttl)

\* Lines 136-139: the load is complete; its expiry counts from its start.
Install(c) == InstallAs(c, members[c], startedAt[c] + Ttl)

\* The process dies and the container runtime starts it again: __post_init__.
Restart ==
    /\ cached' = FALSE
    /\ cache' = {}
    /\ expiresAt' = 0
    /\ pc' = [c \in Caller |-> "idle"]
    /\ asked' = NoWebId
    /\ startedAt' = [c \in Caller |-> 0]
    /\ todo' = [c \in Caller |-> {}]
    /\ members' = [c \in Caller |-> {}]
    /\ outcome' = [c \in Caller |-> "none"]
    /\ UNCHANGED <<clock, registryVars>>

-----------------------------------------------------------------------------
Init ==
    /\ clock = 0
    /\ contained \in SUBSET Resource
    /\ listing \in [Resource -> SUBSET WebId]
    /\ \A r \in Resource \ contained : listing[r] = {}
    /\ changedAt = [r \in Resource |-> [w \in WebId |-> -1]]
    /\ cached = FALSE
    /\ cache = {}
    /\ expiresAt = 0
    /\ pc = [c \in Caller |-> "idle"]
    /\ asked = NoWebId
    /\ startedAt = [c \in Caller |-> 0]
    /\ todo = [c \in Caller |-> {}]
    /\ members = [c \in Caller |-> {}]
    /\ outcome = [c \in Caller |-> "none"]

RegistryEdit ==
    \E r \in Resource :
        \/ \E S \in SUBSET WebId : WriteResource(r, S)
        \/ DeleteResource(r)

\* A step of a load that is under way.
LoadStep(c) ==
    \/ FetchContainer(c)
    \/ ContainerUnreadable(c)
    \/ \E r \in Resource : FetchResource(c, r) \/ ResourceUnreadable(c, r)
    \/ Install(c)

CheckStep == UseCache \/ MissCache \/ LoadStep(Checker)

Next ==
    \/ Tick
    \/ RegistryEdit
    \/ \E i \in Id : RefuseBlank(i) \/ BeginCheck(i)
    \/ \E p \in Probe : BeginProbe(p)
    \/ CheckStep
    \/ \E p \in Probe : LoadStep(p)
    \/ Restart

Spec == Init /\ [][Next]_vars

-----------------------------------------------------------------------------
(* What must hold. *)

Instant == -1 .. MaxTime

(* Every variable of the registry check keeps its shape; an expiry is never*)
(* further ahead than one time to live (load_members, line 137).           *)
TypeOK ==
    /\ clock \in 0 .. MaxTime
    /\ contained \in SUBSET Resource
    /\ listing \in [Resource -> SUBSET WebId]
    /\ changedAt \in [Resource -> [WebId -> Instant]]
    /\ cached \in BOOLEAN
    /\ cache \in SUBSET WebId
    /\ expiresAt \in 0 .. MaxTime + Ttl
    /\ pc \in [Caller -> {"idle", "compare", "container", "resources"}]
    /\ asked \in WebId \cup {NoWebId}
    /\ startedAt \in [Caller -> 0 .. MaxTime]
    /\ todo \in [Caller -> SUBSET Resource]
    /\ members \in [Caller -> SUBSET WebId]
    /\ outcome \in [Caller -> {"none", "granted", "refused", "unavailable",
                               "reachable", "unreachable"}]

(* Bounded revocation (docs/ARCHITECTURE.md, "Identity and membership"): a *)
(* WebID that is_member grants was listed by some resource less than Ttl   *)
(* before the check began, or during the check, however the loads of       *)
(* probes and checks overlap and whichever of them installs its cache last.*)
RevocationBound ==
    outcome[Checker] = "granted" =>
      /\ asked \in WebId
      /\ \E r \in Resource :
            LET seen == LastListed(r, asked)
            IN  /\ seen >= 0
                /\ seen >= startedAt[Checker] \/ seen + Ttl > startedAt[Checker]

(* Bounded admission: with a fail-closed contract, is_member does not      *)
(* refuse a WebID that one resource has listed without interruption since  *)
(* more than Ttl before the check began: neither a stale cache nor a load  *)
(* that overlaps edits of the registry loses a settled member.             *)
AdmissionBound ==
    FailClosed /\ outcome[Checker] = "refused" =>
        ~ \E r \in Resource :
            /\ asked \in listing[r]
            /\ changedAt[r][asked] + Ttl < startedAt[Checker]

(* A cache is only as old as its expiry says: each WebID in it was listed  *)
(* at or after the instant at which its time to live began, also when a    *)
(* slow load installs over a newer one (load_members, lines 116 and 137).  *)
CacheFresh ==
    cached =>
        /\ expiresAt - Ttl <= clock
        /\ \A w \in cache : \E r \in Resource :
              LastListed(r, w) >= 0 /\ LastListed(r, w) >= expiresAt - Ttl

-----------------------------------------------------------------------------
(* The inductive strengthening of the three bounds above. *)

(* The recorded instants are not in the future. *)
PastInstants ==
    /\ \A r \in Resource, w \in WebId : changedAt[r][w] <= clock
    /\ \A c \in Caller : startedAt[c] <= clock

(* Only a resource of the container lists anyone. *)
ListedIsContained == \A r \in Resource : listing[r] # {} => r \in contained

(* A caller outside the loop of line 184 has accumulated nothing. *)
NothingAccumulated == \A c \in Caller : pc[c] # "resources" => members[c] = {}

(* What a load has accumulated was listed at or after the load's start. *)
LoadFresh ==
    \A c \in Caller : \A w \in members[c] : \E r \in Resource :
        LastListed(r, w) >= 0 /\ LastListed(r, w) >= startedAt[c]

(* A fail-closed load misses nobody listed since before its start, unless  *)
(* the resource is still to be fetched.                                    *)
LoadComplete ==
    FailClosed =>
        \A c \in Caller : pc[c] = "resources" =>
            \A r \in Resource : \A w \in listing[r] :
                changedAt[r][w] < startedAt[c] => r \in todo[c] \/ w \in members[c]

(* So does a cache, for its own load. *)
CacheComplete ==
    FailClosed /\ cached =>
        \A r \in Resource : \A w \in listing[r] :
            changedAt[r][w] + Ttl < expiresAt => w \in cache

(* The invariant the proofs are by induction on. *)
IInv ==
    /\ TypeOK
    /\ PastInstants
    /\ ListedIsContained
    /\ NothingAccumulated
    /\ LoadFresh
    /\ LoadComplete
    /\ CacheFresh
    /\ CacheComplete
    /\ RevocationBound
    /\ AdmissionBound

=============================================================================
