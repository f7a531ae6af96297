------------------------ MODULE Availability_proofs ------------------------
(***************************************************************************)
(* The safety of Availability, for any number of callers of /ready, any    *)
(* setting of the startup wait and any retry interval.                     *)
(***************************************************************************)
EXTENDS Availability, TLAPS

(* The two timers of a process add up to its wait: what has not been       *)
(* waited is left.                                                         *)
TimersAgree == left + waited = wait

(* The startup hook runs before the process serves, requests while it      *)
(* serves.                                                                 *)
HookThenRequests ==
    /\ at[Startup] # "idle" => phase = "starting"
    /\ phase # "serving" => \A c \in Request : at[c] = "idle" /\ code[c] = 0

(* A result holds what its own call has read so far: nothing before the    *)
(* probe, up or down after it in the Solid mode.                           *)
ReadSoFar ==
    \A c \in Caller :
        /\ at[c] \in {"idle", "registry"} => registry[c] = "none"
        /\ at[c] # "result" => fuseki[c] = "none"
        /\ at[c] \in {"store", "result"} /\ mode = "solid" => registry[c] # "none"
        /\ at[c] = "result" /\ mode = "solid" => fuseki[c] # "none"

(* What a call has read as up was up at some instant of the call, which    *)
(* has seen whatever is up now.                                            *)
ReadsAreTrue ==
    \A c \in Caller :
        /\ at[c] # "idle" => Up \subseteq wasUp[c]
        /\ registry[c] = "up" => "registry" \in wasUp[c]
        /\ fuseki[c] = "up" => "fuseki" \in wasUp[c]

(* The hook read the store as up only after this process has contacted it. *)
HookContacted == fuseki[Startup] = "up" => contacted

IInv ==
    /\ TypeOK /\ TimersAgree /\ HookThenRequests /\ ReadSoFar /\ ReadsAreTrue
    /\ HookContacted /\ ServesAfterContact /\ GivesUpLate /\ ReadyWasTrue

-----------------------------------------------------------------------------
(* _env_float yields a number that is not negative, whatever was set.      *)
LEMMA EnvFloatIsNat ==
  ASSUME NEW raw \in RawWait PROVE EnvFloat(raw, StartupWait) \in Nat
BY RawAssumption, TimeAssumption DEF EnvFloat

(* The initial state.                                                      *)
LEMMA InitIInv == Init => IInv
<1> SUFFICES ASSUME Init PROVE IInv
  OBVIOUS
<1>1. TypeOK
  <2>1. left \in 0 .. wait /\ waited \in 0 .. wait /\ nap \in 0 .. left /\ wait \in Nat
    BY DEF Init
  <2>2. /\ at \in [Caller -> {"idle", "registry", "store", "result"}]
        /\ registry \in [Caller -> {"up", "down", "none"}]
        /\ fuseki \in [Caller -> {"up", "down", "none"}]
        /\ code \in [Caller -> {0, 200, 503}]
        /\ wasUp \in [Caller -> SUBSET {"fuseki", "registry"}]
    BY DEF Init, All
  <2> QED
    BY <2>1, <2>2 DEF Init, TypeOK
<1>2. TimersAgree /\ ServesAfterContact /\ GivesUpLate
  BY DEF Init, TimersAgree, ServesAfterContact, GivesUpLate
<1>3. HookThenRequests /\ ReadSoFar /\ ReadsAreTrue /\ HookContacted /\ ReadyWasTrue
  BY DEF Init, All, Caller, HookThenRequests, ReadSoFar, ReadsAreTrue, HookContacted, ReadyWasTrue
<1> QED
  BY <1>1, <1>2, <1>3 DEF IInv

(* Time passes for the timers alone, and keeps their sum.                  *)
LEMMA TickIInv == IInv /\ Tick => IInv'
<1> SUFFICES ASSUME IInv, Tick PROVE IInv'
  OBVIOUS
<1>1. /\ wait \in Nat /\ left \in 0 .. wait /\ waited \in 0 .. wait /\ nap \in 0 .. left
      /\ left + waited = wait
  BY DEF IInv, TypeOK, TimersAgree
<1>2. /\ left' \in 0 .. wait /\ waited' \in 0 .. wait /\ nap' \in 0 .. left'
      /\ left' + waited' = wait
  BY <1>1 DEF Tick, CountDown
<1>3. TypeOK' /\ TimersAgree'
  BY <1>2 DEF IInv, TypeOK, TimersAgree, Tick, environment, settings, probe
<1>4. GivesUpLate'
  BY <1>1, <1>2 DEF IInv, GivesUpLate, Tick, settings
<1>5. /\ HookThenRequests' /\ ReadSoFar' /\ ReadsAreTrue' /\ HookContacted'
      /\ ServesAfterContact' /\ ReadyWasTrue'
  BY DEF IInv, Tick, settings, probe, HookThenRequests, ReadSoFar, ReadsAreTrue,
     HookContacted, ServesAfterContact, ReadyWasTrue, Up, environment
<1> QED
  BY <1>3, <1>4, <1>5 DEF IInv

(* A dependency that changes adds to what calls under way have seen, and   *)
(* leaves finished calls alone.                                            *)
LEMMA ToggleIInv == IInv /\ (StoreToggles \/ RegistryToggles) => IInv'
<1> SUFFICES ASSUME IInv, StoreToggles \/ RegistryToggles PROVE IInv'
  OBVIOUS
<1>0. /\ Toggled
      /\ fusekiUp' \in BOOLEAN /\ registryUp' \in BOOLEAN
  BY DEF IInv, TypeOK, StoreToggles, RegistryToggles
<1>1. Up' \subseteq {"fuseki", "registry"}
  BY DEF Up
<1>2. /\ wasUp' \in [Caller -> SUBSET {"fuseki", "registry"}]
      /\ \A c \in Caller : wasUp[c] \subseteq wasUp'[c]
      /\ \A c \in Caller : at[c] # "idle" => Up' \subseteq wasUp'[c]
      /\ \A c \in Caller : at[c] = "idle" => wasUp'[c] = wasUp[c]
  BY <1>0, <1>1 DEF IInv, TypeOK, Toggled
<1>3. TypeOK'
  BY <1>0, <1>2 DEF IInv, TypeOK, Toggled, settings, timers
<1>4. ReadsAreTrue'
  BY <1>0, <1>2 DEF IInv, Toggled, ReadsAreTrue
<1>5. ReadyWasTrue'
  BY <1>0, <1>2 DEF IInv, Toggled, ReadyWasTrue, Caller, settings
<1>6. /\ TimersAgree' /\ HookThenRequests' /\ ReadSoFar' /\ HookContacted'
      /\ ServesAfterContact' /\ GivesUpLate'
  BY <1>0 DEF IInv, Toggled, settings, timers, TimersAgree, HookThenRequests, ReadSoFar,
     HookContacted, ServesAfterContact, GivesUpLate
<1> QED
  BY <1>3, <1>4, <1>5, <1>6 DEF IInv

(* The registry is probed.                                                 *)
LEMMA ProbeRegistryIInv ==
  ASSUME IInv, NEW c \in Caller, ProbeRegistry(c) PROVE IInv'
<1> USE DEF ProbeRegistry, Reading, settings, timers, environment
<1>1. TypeOK'
  BY DEF IInv, TypeOK
<1>2. TimersAgree' /\ GivesUpLate' /\ ServesAfterContact' /\ HookContacted'
  BY DEF IInv, TypeOK, TimersAgree, GivesUpLate, ServesAfterContact, HookContacted
<1>3. HookThenRequests' /\ ReadyWasTrue'
  BY CallerAssumption DEF IInv, TypeOK, HookThenRequests, ReadyWasTrue, Caller
<1>4. ReadSoFar'
  BY DEF IInv, TypeOK, ReadSoFar
<1>5. ReadsAreTrue'
  <2>1. registryUp => "registry" \in wasUp[c]
    BY DEF IInv, ReadsAreTrue, Up
  <2>2. Up' = Up
    BY DEF Up
  <2> QED
    BY <2>1, <2>2 DEF IInv, TypeOK, ReadsAreTrue
<1> QED
  BY <1>1, <1>2, <1>3, <1>4, <1>5 DEF IInv

(* The store is probed; by the hook, that is contact.                      *)
LEMMA ProbeStoreIInv ==
  ASSUME IInv, NEW c \in Caller, ProbeStore(c) PROVE IInv'
<1> USE DEF ProbeStore, Reading, settings, timers, environment
<1>1. TypeOK'
  BY DEF IInv, TypeOK
<1>2. TimersAgree' /\ GivesUpLate' /\ ServesAfterContact' /\ HookContacted'
  BY DEF IInv, TypeOK, TimersAgree, GivesUpLate, ServesAfterContact, HookContacted, Caller
<1>3. HookThenRequests' /\ ReadyWasTrue'
  BY CallerAssumption DEF IInv, TypeOK, HookThenRequests, ReadyWasTrue, Caller
<1>4. ReadSoFar'
  BY DEF IInv, TypeOK, ReadSoFar
<1>5. ReadsAreTrue'
  <2>1. fusekiUp => "fuseki" \in wasUp[c]
    BY DEF IInv, ReadsAreTrue, Up
  <2>2. Up' = Up
    BY DEF Up
  <2> QED
    BY <2>1, <2>2 DEF IInv, TypeOK, ReadsAreTrue
<1> QED
  BY <1>1, <1>2, <1>3, <1>4, <1>5 DEF IInv

(* A process starts with its whole wait left, in touch with nobody.        *)
LEMMA BootIInv ==
  ASSUME IInv, NEW m \in {"solid", "edc"}, NEW enabled \in BOOLEAN, NEW raw \in RawWait,
         Boot(m, enabled, raw)
  PROVE  IInv'
<1>0. wait' \in Nat /\ left' = wait' /\ waited' = 0 /\ nap' = 0 /\ contacted' = FALSE
  BY EnvFloatIsNat DEF Boot
<1>1. /\ phase = "down" /\ \A c \in Caller : at[c] = "idle"
      /\ \A c \in Caller : registry[c] = "none" /\ fuseki[c] = "none"
      /\ \A c \in Request : code[c] = 0
  BY DEF Boot, IInv, HookThenRequests, ReadSoFar, Caller
<1>2. Up \subseteq {"fuseki", "registry"} /\ Up' = Up
  BY DEF Up, Boot, environment
<1>3. /\ at' \in [Caller -> {"idle", "registry", "store", "result"}]
      /\ wasUp' \in [Caller -> SUBSET {"fuseki", "registry"}]
      /\ phase' \in {"starting", "serving"}
      /\ \A c \in Caller : at'[c] # "idle" => c = Startup /\ at'[c] = "registry" /\ phase' = "starting"
      /\ \A c \in Caller : at'[c] # "idle" => wasUp'[c] = Up
  <2>1. \/ phase' = "starting" /\ Enter(Startup)
        \/ phase' = "serving" /\ UNCHANGED <<at, wasUp>>
    BY DEF Boot
  <2>2. /\ at \in [Caller -> {"idle", "registry", "store", "result"}]
        /\ wasUp \in [Caller -> SUBSET {"fuseki", "registry"}]
    BY DEF IInv, TypeOK
  <2>3. CASE phase' = "starting" /\ Enter(Startup)
    BY <1>1, <1>2, <2>2, <2>3 DEF Enter
  <2>4. CASE phase' = "serving" /\ UNCHANGED <<at, wasUp>>
    BY <1>1, <1>2, <2>2, <2>4
  <2> QED
    BY <2>1, <2>3, <2>4
<1>4. TypeOK'
  <2>1. /\ mode' \in {"solid", "edc"} /\ checks' \in BOOLEAN
        /\ left' \in 0 .. wait' /\ waited' \in 0 .. wait' /\ nap' \in 0 .. left'
    BY <1>0 DEF Boot
  <2> QED
    BY <1>0, <1>3, <2>1 DEF Boot, IInv, TypeOK, environment
<1>5. TimersAgree' /\ GivesUpLate' /\ ServesAfterContact'
  BY <1>0 DEF Boot, TimersAgree, GivesUpLate, ServesAfterContact
<1>6. HookThenRequests' /\ ReadSoFar' /\ ReadyWasTrue'
  BY <1>1, <1>3, CallerAssumption DEF Boot, HookThenRequests, ReadSoFar, ReadyWasTrue, Caller
<1>7. ReadsAreTrue' /\ HookContacted'
  BY <1>1, <1>2, <1>3 DEF Boot, ReadsAreTrue, HookContacted, Caller
<1> QED
  BY <1>4, <1>5, <1>6, <1>7 DEF IInv

(* The call that returns leaves its result behind, and no trace in what    *)
(* others have read.                                                       *)
LEMMA ReturnKeepsReads ==
  ASSUME IInv, NEW c \in Caller, Return(c), UNCHANGED <<environment, mode, wasUp>>
  PROVE  /\ at' \in [Caller -> {"idle", "registry", "store", "result"}]
         /\ registry' \in [Caller -> {"up", "down", "none"}]
         /\ fuseki' \in [Caller -> {"up", "down", "none"}]
         /\ at'[c] = "idle" /\ fuseki'[c] = "none"
         /\ \A d \in Caller \ {c} : at'[d] = at[d] /\ fuseki'[d] = fuseki[d]
         /\ ReadSoFar' /\ ReadsAreTrue'
<1>1. Up' = Up
  BY DEF Up, environment
<1>2. /\ at' \in [Caller -> {"idle", "registry", "store", "result"}]
      /\ registry' \in [Caller -> {"up", "down", "none"}]
      /\ fuseki' \in [Caller -> {"up", "down", "none"}]
      /\ at'[c] = "idle" /\ fuseki'[c] = "none" /\ registry'[c] = "none"
      /\ \A d \in Caller \ {c} : at'[d] = at[d] /\ fuseki'[d] = fuseki[d] /\ registry'[d] = registry[d]
  BY DEF Return, IInv, TypeOK
<1>3. ReadSoFar'
  BY <1>2 DEF IInv, ReadSoFar
<1>4. ReadsAreTrue'
  BY <1>1, <1>2 DEF IInv, ReadsAreTrue
<1> QED
  BY <1>2, <1>3, <1>4

(* A round of the startup loop ends: in service only after contact, in     *)
(* giving up only with nothing left, in a sleep no longer than what is.    *)
LEMMA EndRoundIInv ==
  ASSUME IInv, NEW p \in {"serving", "gaveUp", "sleeping"}, EndRound(p),
         p = "serving" => ~FusekiUnavailable,
         p = "gaveUp" => FusekiUnavailable /\ left = 0,
         nap' \in 0 .. left
  PROVE  IInv'
<1>0. /\ phase = "starting" /\ phase' = p /\ Return(Startup)
      /\ UNCHANGED <<environment, settings, left, waited, code, wasUp, contacted>>
      /\ at[Startup] = "result" /\ Startup \in Caller
  BY DEF EndRound, Return, Caller
<1>1. /\ at' \in [Caller -> {"idle", "registry", "store", "result"}]
      /\ registry' \in [Caller -> {"up", "down", "none"}]
      /\ fuseki' \in [Caller -> {"up", "down", "none"}]
      /\ at'[Startup] = "idle" /\ fuseki'[Startup] = "none"
      /\ \A d \in Request : at'[d] = at[d]
      /\ ReadSoFar' /\ ReadsAreTrue'
  BY <1>0, ReturnKeepsReads, CallerAssumption DEF settings, Caller
<1>2. TypeOK'
  BY <1>0, <1>1 DEF IInv, TypeOK, environment, settings
<1>3. TimersAgree' /\ HookContacted'
  BY <1>0, <1>1 DEF IInv, TimersAgree, HookContacted, settings
<1>4. HookThenRequests' /\ ReadyWasTrue'
  BY <1>0, <1>1 DEF IInv, HookThenRequests, ReadyWasTrue, settings
<1>5. ServesAfterContact'
  <2> SUFFICES ASSUME p = "serving", mode = "solid" PROVE contacted
    BY <1>0 DEF ServesAfterContact, settings
  <2>1. fuseki[Startup] # "down" /\ fuseki[Startup] # "none"
    BY <1>0 DEF IInv, ReadSoFar, FusekiUnavailable
  <2> QED
    BY <1>0, <2>1 DEF IInv, TypeOK, HookContacted
<1>6. GivesUpLate'
  <2> SUFFICES ASSUME p = "gaveUp" PROVE mode = "solid" /\ waited = wait
    BY <1>0 DEF GivesUpLate, settings
  <2> QED
    BY DEF IInv, TypeOK, TimersAgree, FusekiUnavailable
<1> QED
  BY <1>1, <1>2, <1>3, <1>4, <1>5, <1>6 DEF IInv

(* The ends of a round.                                                    *)
LEMMA RoundIInv == IInv /\ (StartServing \/ GiveUp \/ Sleep) => IInv'
<1> SUFFICES ASSUME IInv, StartServing \/ GiveUp \/ Sleep PROVE IInv'
  OBVIOUS
<1>0. left \in Nat /\ nap \in 0 .. left
  BY DEF IInv, TypeOK
<1>1. CASE StartServing
  BY <1>0, <1>1, EndRoundIInv DEF StartServing
<1>2. CASE GiveUp
  BY <1>0, <1>2, EndRoundIInv DEF GiveUp
<1>3. CASE Sleep
  BY <1>0, <1>3, EndRoundIInv, TimeAssumption DEF Sleep
<1> QED
  BY <1>1, <1>2, <1>3

(* A call begins: it has read nothing and seen what is up.                 *)
LEMMA EnterKeepsReads ==
  ASSUME IInv, NEW c \in Caller, at[c] = "idle", Enter(c),
         UNCHANGED <<environment, mode, registry, fuseki>>
  PROVE  /\ at' \in [Caller -> {"idle", "registry", "store", "result"}]
         /\ wasUp' \in [Caller -> SUBSET {"fuseki", "registry"}]
         /\ at'[c] # "idle"
         /\ \A d \in Caller \ {c} : at'[d] = at[d] /\ wasUp'[d] = wasUp[d]
         /\ ReadSoFar' /\ ReadsAreTrue'
<1>1. Up \subseteq {"fuseki", "registry"} /\ Up' = Up
  BY DEF Up, environment
<1>2. /\ at' \in [Caller -> {"idle", "registry", "store", "result"}]
      /\ wasUp' \in [Caller -> SUBSET {"fuseki", "registry"}]
      /\ at'[c] = "registry" /\ wasUp'[c] = Up
      /\ \A d \in Caller \ {c} : at'[d] = at[d] /\ wasUp'[d] = wasUp[d]
  BY <1>1 DEF Enter, IInv, TypeOK
<1>3. registry[c] = "none" /\ fuseki[c] = "none"
  BY DEF IInv, ReadSoFar
<1>4. ReadSoFar'
  BY <1>2, <1>3 DEF IInv, ReadSoFar
<1>5. ReadsAreTrue'
  BY <1>1, <1>2, <1>3 DEF IInv, ReadsAreTrue
<1> QED
  BY <1>2, <1>4, <1>5

(* The sleeping hook tries again.                                          *)
LEMMA WakeIInv == IInv /\ Wake => IInv'
<1> SUFFICES ASSUME IInv, Wake PROVE IInv'
  OBVIOUS
<1>0. /\ phase = "sleeping" /\ phase' = "starting" /\ Enter(Startup)
      /\ UNCHANGED <<environment, settings, timers, registry, fuseki, code, contacted>>
      /\ at[Startup] = "idle" /\ Startup \in Caller
  BY DEF Wake, Caller, IInv, HookThenRequests
<1>1. /\ at' \in [Caller -> {"idle", "registry", "store", "result"}]
      /\ wasUp' \in [Caller -> SUBSET {"fuseki", "registry"}]
      /\ \A d \in Request : at'[d] = at[d] /\ wasUp'[d] = wasUp[d]
      /\ ReadSoFar' /\ ReadsAreTrue'
  BY <1>0, EnterKeepsReads, CallerAssumption DEF settings, Caller
<1>2. TypeOK'
  BY <1>0, <1>1 DEF IInv, TypeOK, environment, settings, timers
<1>3. TimersAgree' /\ HookContacted' /\ ServesAfterContact' /\ GivesUpLate'
  BY <1>0 DEF IInv, TimersAgree, HookContacted, ServesAfterContact, GivesUpLate, settings, timers
<1>4. HookThenRequests' /\ ReadyWasTrue'
  BY <1>0, <1>1 DEF IInv, HookThenRequests, ReadyWasTrue, settings
<1> QED
  BY <1>1, <1>2, <1>3, <1>4 DEF IInv

(* A request for /ready comes in.                                          *)
LEMMA BeginReadyIInv ==
  ASSUME IInv, NEW c \in Request, BeginReady(c) PROVE IInv'
<1>0. /\ phase = "serving" /\ at[c] = "idle" /\ Enter(c)
      /\ code' = [code EXCEPT ![c] = 0]
      /\ UNCHANGED <<environment, settings, timers, registry, fuseki, phase, contacted>>
      /\ c \in Caller /\ Startup \in Caller /\ c # Startup
  BY CallerAssumption DEF BeginReady, Caller
<1>1. /\ at' \in [Caller -> {"idle", "registry", "store", "result"}]
      /\ wasUp' \in [Caller -> SUBSET {"fuseki", "registry"}]
      /\ at'[c] # "idle"
      /\ \A d \in Caller \ {c} : at'[d] = at[d] /\ wasUp'[d] = wasUp[d]
      /\ ReadSoFar' /\ ReadsAreTrue'
  BY <1>0, EnterKeepsReads DEF settings
<1>2. code' \in [Caller -> {0, 200, 503}] /\ \A d \in Caller \ {c} : code'[d] = code[d]
  BY <1>0 DEF IInv, TypeOK
<1>3. TypeOK'
  BY <1>0, <1>1, <1>2 DEF IInv, TypeOK, environment, settings, timers
<1>4. TimersAgree' /\ HookContacted' /\ ServesAfterContact' /\ GivesUpLate'
  BY <1>0 DEF IInv, TimersAgree, HookContacted, ServesAfterContact, GivesUpLate, settings, timers
<1>5. HookThenRequests'
  BY <1>0, <1>1 DEF IInv, HookThenRequests
<1>6. ReadyWasTrue'
  BY <1>0, <1>1, <1>2 DEF IInv, ReadyWasTrue, settings, Caller
<1> QED
  BY <1>1, <1>3, <1>4, <1>5, <1>6 DEF IInv

(* /ready answers 200 from what its own call has read.                     *)
LEMMA AnswerReadyIInv ==
  ASSUME IInv, NEW c \in Request, AnswerReady(c) PROVE IInv'
<1>0. /\ at[c] = "result" /\ Return(c)
      /\ code' = [code EXCEPT ![c] = IF IsReady(c) THEN 200 ELSE 503]
      /\ UNCHANGED <<environment, settings, timers, wasUp, phase, contacted>>
      /\ c \in Caller /\ Startup \in Caller /\ c # Startup
  BY CallerAssumption DEF AnswerReady, Return, Caller
<1>1. /\ at' \in [Caller -> {"idle", "registry", "store", "result"}]
      /\ registry' \in [Caller -> {"up", "down", "none"}]
      /\ fuseki' \in [Caller -> {"up", "down", "none"}]
      /\ at'[c] = "idle"
      /\ \A d \in Caller \ {c} : at'[d] = at[d] /\ fuseki'[d] = fuseki[d]
      /\ ReadSoFar' /\ ReadsAreTrue'
  BY <1>0, ReturnKeepsReads DEF settings
<1>2. /\ code' \in [Caller -> {0, 200, 503}]
      /\ code'[c] = 200 => IsReady(c)
      /\ \A d \in Caller \ {c} : code'[d] = code[d]
  BY <1>0 DEF IInv, TypeOK
<1>3. IsReady(c) => mode = "solid" /\ wasUp[c] = {"fuseki", "registry"}
  <2> SUFFICES ASSUME IsReady(c) PROVE mode = "solid" /\ wasUp[c] = {"fuseki", "registry"}
    OBVIOUS
  <2>1. mode = "solid" /\ fuseki[c] = "up" /\ registry[c] = "up"
    BY <1>0 DEF IsReady, IInv, TypeOK, ReadSoFar
  <2>2. "fuseki" \in wasUp[c] /\ "registry" \in wasUp[c]
    BY <1>0, <2>1 DEF IInv, ReadsAreTrue
  <2>3. wasUp[c] \in SUBSET {"fuseki", "registry"}
    BY <1>0 DEF IInv, TypeOK
  <2> QED
    BY <2>1, <2>2, <2>3
<1>4. TypeOK'
  BY <1>0, <1>1, <1>2 DEF IInv, TypeOK, environment, settings, timers
<1>5. TimersAgree' /\ HookContacted' /\ ServesAfterContact' /\ GivesUpLate'
  BY <1>0, <1>1 DEF IInv, TimersAgree, HookContacted, ServesAfterContact, GivesUpLate, settings, timers
<1>6. HookThenRequests'
  <2>1. phase = "serving"
    BY <1>0 DEF IInv, HookThenRequests
  <2> QED
    BY <1>0, <1>1, <2>1 DEF IInv, HookThenRequests
<1>7. ReadyWasTrue'
  BY <1>0, <1>1, <1>2, <1>3 DEF IInv, ReadyWasTrue, settings, Caller
<1> QED
  BY <1>1, <1>4, <1>5, <1>6, <1>7 DEF IInv

(* The process is gone: nobody calls, nothing has been read.               *)
LEMMA GoneIInv == IInv /\ (Crash \/ Exit) => IInv'
<1> SUFFICES ASSUME IInv, Gone PROVE IInv'
  BY DEF Crash, Exit
<1>1. TypeOK'
  BY DEF Gone, All, IInv, TypeOK, environment, settings, timers
<1>2. TimersAgree' /\ ServesAfterContact' /\ GivesUpLate'
  BY DEF Gone, IInv, TimersAgree, ServesAfterContact, GivesUpLate, settings, timers
<1>3. HookThenRequests' /\ ReadSoFar' /\ ReadsAreTrue' /\ HookContacted' /\ ReadyWasTrue'
  BY DEF Gone, All, Caller, HookThenRequests, ReadSoFar, ReadsAreTrue, HookContacted, ReadyWasTrue
<1> QED
  BY <1>1, <1>2, <1>3 DEF IInv

(* Every step.                                                             *)
LEMMA NextIInv == IInv /\ [Next]_vars => IInv'
<1> SUFFICES ASSUME IInv, [Next]_vars PROVE IInv'
  OBVIOUS
<1>1. CASE Boots
  BY <1>1, BootIInv DEF Boots
<1>2. CASE StartupStep
  BY <1>2, ProbeRegistryIInv, ProbeStoreIInv, RoundIInv, WakeIInv, GoneIInv
     DEF StartupStep, Caller
<1>3. ASSUME NEW c \in Request,
             BeginReady(c) \/ ProbeRegistry(c) \/ ProbeStore(c) \/ AnswerReady(c)
      PROVE  IInv'
  BY <1>3, BeginReadyIInv, ProbeRegistryIInv, ProbeStoreIInv, AnswerReadyIInv DEF Caller
<1>4. CASE UNCHANGED vars
  BY <1>4 DEF vars, environment, settings, timers, probe, IInv, TypeOK, TimersAgree,
     HookThenRequests, ReadSoFar, ReadsAreTrue, Up, HookContacted, ServesAfterContact,
     GivesUpLate, ReadyWasTrue
<1> QED
  BY <1>1, <1>2, <1>3, <1>4, TickIInv, ToggleIInv, GoneIInv DEF Next

(* The invariant in every reachable state.                                 *)
LEMMA AvailabilityInvariance == Spec => []IInv
BY InitIInv, NextIInv, PTL DEF Spec

(* Startup and readiness keep their types; no sleep outlasts the deadline. *)
THEOREM AvailabilityTypeCorrect == Spec => []TypeOK
<1>1. IInv => TypeOK
  BY DEF IInv
<1> QED
  BY <1>1, AvailabilityInvariance, PTL

(* A Solid catalog that checks at startup serves only after contact with   *)
(* the store by the same process.                                          *)
THEOREM ServesOnlyAfterContact == Spec => []ServesAfterContact
<1>1. IInv => ServesAfterContact
  BY DEF IInv
<1> QED
  BY <1>1, AvailabilityInvariance, PTL

(* A process gives up in the Solid mode only, and not before its wait.     *)
THEOREM GivesUpNoEarlier == Spec => []GivesUpLate
<1>1. IInv => GivesUpLate
  BY DEF IInv
<1> QED
  BY <1>1, AvailabilityInvariance, PTL

(* A 200 of /ready rests on observations of its own call.                  *)
THEOREM ReadyIsTrue == Spec => []ReadyWasTrue
<1>1. IInv => ReadyWasTrue
  BY DEF IInv
<1> QED
  BY <1>1, AvailabilityInvariance, PTL
=============================================================================
