---------------------------- MODULE Availability ----------------------------
(***************************************************************************)
(* When the catalog serves, and when it says that it is ready.             *)
(*                                                                         *)
(* SolidDiscovery.get_status (catalog/modes/solid/discovery.py) probes the *)
(* registry, then the store.  At startup _startup_checks (core/app.py)     *)
(* repeats it until the store answers or StartupWait is over, when the     *)
(* process exits and the container runtime starts another (deploy,         *)
(* restart: unless-stopped).  While the process serves, GET /ready calls   *)
(* it on pool threads, several at a time.                                  *)
(*                                                                         *)
(* The mode decides what get_status does: that of the EDC stub             *)
(* (catalog/modes/edc/discovery.py) probes nothing.                        *)
(*                                                                         *)
(* Time is kept in count-down timers, so that the behaviours need not end. *)
(***************************************************************************)
EXTENDS Integers

CONSTANTS
    Startup,      \* the caller of get_status in the lifespan hook
    Request,      \* callers of GET /ready
    RawWait,      \* what CATALOG_STARTUP_WAIT_SECONDS may be set to
    StartupWait,  \* the default of CATALOG_STARTUP_WAIT_SECONDS
    StartupRetry  \* CATALOG_STARTUP_RETRY_SECONDS

ASSUME TimeAssumption == StartupWait \in Nat /\ StartupRetry \in Nat
ASSUME RawAssumption == RawWait \subseteq [isNumber : BOOLEAN, value : Int]
ASSUME CallerAssumption == Startup \notin Request

VARIABLES
    fusekiUp,   \* the store answers
    registryUp, \* the registry can be loaded
    phase,      \* of the process
    mode,       \* CATALOG_MODE of this process
    checks,     \* CATALOG_STARTUP_CHECKS of this process
    wait,       \* its `wait_seconds`
    left,       \* time until its `deadline`
    nap,        \* time until the sleep of line 112 ends
    contacted,  \* history: the store answered this process before it served
    waited,     \* history: time since this process started, up to `wait`
    at,         \* where each call of get_status is
    registry,   \* the dependency "registry" of its result
    fuseki,     \* the dependency "fuseki" of its result
    code,       \* the status code of the last answer of /ready
    wasUp       \* history: the dependencies up at some instant of each call

environment == <<fusekiUp, registryUp>>
settings == <<mode, checks, wait>>
timers == <<left, nap, waited>>
probe == <<at, registry, fuseki, code, wasUp>>
vars == <<environment, settings, timers, probe, phase, contacted>>

Caller == {Startup} \cup Request

CountDown(n) == IF n = 0 THEN 0 ELSE n - 1

\* _env_float: what is no number is as if unset, what is negative is none.
EnvFloat(raw, default) ==
    IF ~raw.isNumber THEN default ELSE IF raw.value < 0 THEN 0 ELSE raw.value

-----------------------------------------------------------------------------
(* The environment. *)

Tick ==
    /\ left' = CountDown(left)
    /\ nap' = CountDown(nap)
    /\ waited' = IF waited < wait THEN waited + 1 ELSE waited
    /\ UNCHANGED <<environment, settings, probe, phase, contacted>>

\* The dependencies that are up.
Up == (IF fusekiUp THEN {"fuseki"} ELSE {}) \cup (IF registryUp THEN {"registry"} ELSE {})

\* The calls under way see what comes up.
Toggled ==
    /\ wasUp' = [c \in Caller |-> IF at[c] = "idle" THEN wasUp[c] ELSE wasUp[c] \cup Up']
    /\ UNCHANGED <<settings, timers, at, registry, fuseki, code, phase, contacted>>

StoreToggles == fusekiUp' = ~fusekiUp /\ UNCHANGED registryUp /\ Toggled

RegistryToggles == registryUp' = ~registryUp /\ UNCHANGED fusekiUp /\ Toggled

-----------------------------------------------------------------------------
(* get_status: solid/discovery.py lines 115-151, edc/discovery.py. *)

Enter(c) ==
    /\ at' = [at EXCEPT ![c] = "registry"]
    /\ wasUp' = [wasUp EXCEPT ![c] = Up]

Reading(isUp) == IF mode = "edc" THEN "none" ELSE IF isUp THEN "up" ELSE "down"

ProbeRegistry(c) ==
    /\ at[c] = "registry"
    /\ registry' = [registry EXCEPT ![c] = Reading(registryUp)]
    /\ at' = [at EXCEPT ![c] = "store"]
    /\ UNCHANGED <<environment, settings, timers, fuseki, code, wasUp, phase, contacted>>

\* Any exception of the query makes the dependency False (lines 144-151).
ProbeStore(c) ==
    /\ at[c] = "store"
    /\ fuseki' = [fuseki EXCEPT ![c] = Reading(fusekiUp)]
    /\ at' = [at EXCEPT ![c] = "result"]
    /\ contacted' = (contacted \/ (c = Startup /\ fuseki'[c] = "up"))
    /\ UNCHANGED <<environment, settings, timers, registry, code, wasUp, phase>>

\* The caller has what it asked for, and its locals end.
Return(c) ==
    /\ at[c] = "result"
    /\ at' = [at EXCEPT ![c] = "idle"]
    /\ registry' = [registry EXCEPT ![c] = "none"]
    /\ fuseki' = [fuseki EXCEPT ![c] = "none"]

-----------------------------------------------------------------------------
(* _startup_checks. *)

\* The process starts: validate_deployment and load_active_mode have passed.
Boot(m, enabled, raw) ==
    /\ phase = "down"
    /\ mode' = m /\ checks' = enabled /\ wait' = EnvFloat(raw, StartupWait)
    /\ contacted' = FALSE
    /\ waited' = 0 /\ left' = wait' /\ nap' = 0
    /\ IF enabled
       THEN phase' = "starting" /\ Enter(Startup)
       ELSE phase' = "serving" /\ UNCHANGED <<at, wasUp>>
    /\ UNCHANGED <<environment, registry, fuseki, code>>

\* A round of the loop ends in phase p.
EndRound(p) ==
    /\ phase = "starting"
    /\ phase' = p
    /\ Return(Startup)
    /\ UNCHANGED <<environment, settings, left, waited, code, wasUp, contacted>>

\* Mutant of FusekiUnavailable: the startup waits for every dependency.
SomethingUnavailable == mode = "solid" /\ "down" \in {fuseki[Startup], registry[Startup]}

\* _solid_fuseki_unavailable.
FusekiUnavailable == mode = "solid" /\ fuseki[Startup] = "down"

StartServing == ~FusekiUnavailable /\ EndRound("serving") /\ UNCHANGED nap

\* Mutant of GiveUp: the process serves anyway.
ServeAnyway == FusekiUnavailable /\ left = 0 /\ EndRound("serving") /\ UNCHANGED nap

\* Mutant of GiveUp: no attempt is made that could not be followed by another.
GiveUpEarly ==
    FusekiUnavailable /\ left <= StartupRetry /\ EndRound("gaveUp") /\ UNCHANGED nap

\* Lines 103-105: the deadline has passed, RuntimeError ends the process.
GiveUp == FusekiUnavailable /\ left = 0 /\ EndRound("gaveUp") /\ UNCHANGED nap

\* Mutant of Sleep: the sleep is not cut at the deadline.
SleepUncut == FusekiUnavailable /\ left > 0 /\ nap' = StartupRetry /\ EndRound("sleeping")

\* Lines 107-112.
Sleep ==
    /\ FusekiUnavailable
    /\ left > 0
    /\ nap' = IF StartupRetry < left THEN StartupRetry ELSE left
    /\ EndRound("sleeping")

Wake ==
    /\ phase = "sleeping"
    /\ nap = 0
    /\ phase' = "starting"
    /\ Enter(Startup)
    /\ UNCHANGED <<environment, settings, timers, registry, fuseki, code, contacted>>

-----------------------------------------------------------------------------
(* GET /ready, lines 140-145. *)

BeginReady(c) ==
    /\ phase = "serving"
    /\ at[c] = "idle"
    /\ Enter(c)
    /\ code' = [code EXCEPT ![c] = 0]
    /\ UNCHANGED <<environment, settings, timers, registry, fuseki, phase, contacted>>

\* Mutant of IsReady: what is not down is ready, and nobody asks for operational.
NothingIsDown(c) == fuseki[c] # "down" /\ registry[c] # "down"

\* _readiness_payload, lines 25-31: operational is True in solid mode unless
\* the query failed, False in the stub.
IsReady(c) == mode = "solid" /\ fuseki[c] = "up" /\ registry[c] # "down"

AnswerReady(c) ==
    /\ Return(c)
    /\ code' = [code EXCEPT ![c] = IF IsReady(c) THEN 200 ELSE 503]
    /\ UNCHANGED <<environment, settings, timers, wasUp, phase, contacted>>

All(v) == [c \in Caller |-> v]

\* The process is gone, and its requests with it.
Gone ==
    /\ phase' = "down"
    /\ at' = All("idle") /\ registry' = All("none") /\ fuseki' = All("none")
    /\ code' = All(0) /\ wasUp' = All({})
    /\ UNCHANGED <<environment, settings, timers, contacted>>

Crash == phase \in {"starting", "sleeping", "serving"} /\ Gone

\* The container runtime notices.
Exit == phase = "gaveUp" /\ Gone

-----------------------------------------------------------------------------
Init ==
    /\ fusekiUp \in BOOLEAN /\ registryUp \in BOOLEAN
    /\ phase = "down"
    /\ mode = "solid" /\ checks = TRUE /\ wait = 0
    /\ left = 0 /\ nap = 0 /\ waited = 0
    /\ contacted = FALSE
    /\ at = All("idle") /\ registry = All("none") /\ fuseki = All("none")
    /\ code = All(0) /\ wasUp = All({})

Boots ==
    \E m \in {"solid", "edc"}, enabled \in BOOLEAN, raw \in RawWait : Boot(m, enabled, raw)

StartupStep ==
    \/ ProbeRegistry(Startup) \/ ProbeStore(Startup)
    \/ StartServing \/ GiveUp \/ Sleep \/ Wake \/ Exit

Next ==
    \/ Tick \/ StoreToggles \/ RegistryToggles
    \/ Boots
    \/ StartupStep
    \/ \E c \in Request :
          BeginReady(c) \/ ProbeRegistry(c) \/ ProbeStore(c) \/ AnswerReady(c)
    \/ Crash

Spec == Init /\ [][Next]_vars

\* Time passes, the startup code runs and its HTTP calls end, and the runtime
\* starts the container again.
FairSpec == Spec /\ WF_vars(Tick) /\ WF_vars(StartupStep) /\ WF_vars(Boots)

-----------------------------------------------------------------------------
(* What must hold. *)

(* Every variable of startup and readiness keeps its shape; no sleep of    *)
(* the startup loop lasts beyond the deadline (line 107).                  *)
TypeOK ==
    /\ fusekiUp \in BOOLEAN /\ registryUp \in BOOLEAN
    /\ phase \in {"down", "starting", "sleeping", "serving", "gaveUp"}
    /\ mode \in {"solid", "edc"} /\ checks \in BOOLEAN /\ wait \in Nat
    /\ left \in 0 .. wait /\ waited \in 0 .. wait
    /\ nap \in 0 .. left
    /\ contacted \in BOOLEAN
    /\ at \in [Caller -> {"idle", "registry", "store", "result"}]
    /\ registry \in [Caller -> {"up", "down", "none"}]
    /\ fuseki \in [Caller -> {"up", "down", "none"}]
    /\ code \in [Caller -> {0, 200, 503}]
    /\ wasUp \in [Caller -> SUBSET {"fuseki", "registry"}]

(* With startup checks on, a process of the Solid mode that serves has had *)
(* an answer from the store in its own startup, not in one of a process    *)
(* before it.                                                              *)
ServesAfterContact == phase = "serving" /\ checks /\ mode = "solid" => contacted

(* A process gives up no earlier than its wait after it started: every     *)
(* sleep is cut at the deadline and followed by one more attempt.  The EDC *)
(* stub, which has no store, never gives up.                               *)
GivesUpLate == phase = "gaveUp" => mode = "solid" /\ waited = wait

(* /ready answers 200 only if each dependency was up at some instant of    *)
(* that very call: nothing cached, and nothing of another call, makes a    *)
(* dependency that was down throughout look ready.  The EDC stub is never  *)
(* ready (docs/REQUIREMENTS.md:931).                                       *)
ReadyWasTrue ==
    \A c \in Request :
        at[c] = "idle" /\ code[c] = 200 => mode = "solid" /\ wasUp[c] = {"fuseki", "registry"}

(* Once the store stays up and the process is not killed any more, the     *)
(* catalog serves for good: the startup wait neither misses the store for  *)
(* ever nor stops restarting, whatever the mode and the wait are set to.   *)
EventuallyServes ==
    <>[]fusekiUp /\ <>[][~Crash]_vars => <>[](phase = "serving")
=============================================================================
