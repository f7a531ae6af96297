------------------------ MODULE Configuration_proofs ------------------------
(* Proofs about Configuration, for every set of values an operator tries   *)
(* and every number of edits: what runs as production is strict, and what  *)
(* the script clears starts.                                               *)
EXTENDS Configuration, TLAPS

(* A process that runs has passed the guard with the environment it still  *)
(* keeps, and its settings are those it read from it (create_app).         *)
RunsAsRead ==
    process = "running" =>
        /\ DeploymentAllowed(container.env)
        /\ Registers(container.env, container.contract)
        /\ settings = SettingsOf(container.env, container.contract)

(* What validate_deployment compares and what the components make of the   *)
(* same variables agree (deployment.py:9-25): the raw values it accepts    *)
(* leave none of the components' own defaults and spellings a choice.      *)
LEMMA GuardAgreesWithReaders ==
  ASSUME NEW e, NEW c, DeploymentAllowed(e), e.deployment = "production"
  PROVE  LET s == SettingsOf(e, c)
         IN  /\ s.mode = "solid" /\ s.auth = "oidc"
             /\ s.dpop /\ s.audience
             /\ s.issuer = "https"
             /\ s.cors.origins = {"https"}
             /\ s.registry = "https" \/ c.urlEnv = "other"
<1>1. /\ e.mode = "solid" /\ e.auth = "oidc" /\ e.dpop = "true"
      /\ e.registry = "https" /\ e.issuer = "https" /\ e.audience # "unset"
      /\ e.origins = "https"
  BY DEF DeploymentAllowed
<1>2. Mode(e) = "solid" /\ AuthMode(e) = "oidc" /\ RequireDpop(e)
  BY <1>1 DEF Mode, AuthMode, RequireDpop
<1>3. RegistryUrl(e, c) = "https" \/ c.urlEnv = "other"
  BY <1>1 DEF RegistryUrl
<1>4. Cors(e).origins = {"https"}
  BY <1>1 DEF Cors, CorsOrigins
<1> QED
  BY <1>1, <1>2, <1>3, <1>4 DEF SettingsOf

(* A start keeps the environment it was given; everything else that        *)
(* changes what runs leaves no process running.                            *)
LEMMA NextRunsAsRead == RunsAsRead /\ [Next]_vars => RunsAsRead'
<1> SUFFICES ASSUME RunsAsRead, [Next]_vars PROVE RunsAsRead'
  OBVIOUS
<1>1. CASE Serve
  BY <1>1 DEF Serve, RunsAsRead
<1>2. CASE Refuse \/ Crash \/ Restart
  BY <1>2 DEF Refuse, Crash, Restart, RunsAsRead
<1>3. CASE ComposeUp \/ RunDirectly
  BY <1>3 DEF ComposeUp, RunDirectly, BringUp, RunsAsRead
<1>4. ASSUME UNCHANGED <<container, process, settings>> PROVE RunsAsRead'
  BY <1>4 DEF RunsAsRead
<1>5. CASE \E k \in DOMAIN env, v \in EnvWords : EditEnv(k, v)
  BY <1>4, <1>5 DEF EditEnv
<1>6. CASE \E c \in Rewritten(contract) : EditContract(c)
  BY <1>4, <1>6 DEF EditContract
<1>7. CASE Check \/ UNCHANGED vars
  BY <1>4, <1>7 DEF Check, vars
<1> QED
  BY <1>1, <1>2, <1>3, <1>5, <1>6, <1>7 DEF Next

(* A process that runs as production demands DPoP-bound tokens of an HTTPS *)
(* issuer for a set audience and lets HTTPS origins alone call it, whatever *)
(* was edited since it was brought up.                                      *)
THEOREM ProductionStaysStrict == Spec => []ProductionIsStrict
<1>1. Init => RunsAsRead
  BY DEF Init, RunsAsRead
<1>2. RunsAsRead => ProductionIsStrict
  BY GuardAgreesWithReaders DEF RunsAsRead, ProductionIsStrict
<1> QED
  BY <1>1, <1>2, NextRunsAsRead, PTL DEF Spec
-----------------------------------------------------------------------------
(* What the script clears, the guard lets start. *)

(* The variables that docker-compose.yml fixes and derives, and what       *)
(* check_config.py demands of the others, are all that validate_deployment *)
(* asks for, but for the user and the host of the two URLs; the mode and   *)
(* the authentication are known to the loader.                             *)
LEMMA CheckedEnvIsAllowed ==
  ASSUME NEW e \in EnvValues, NEW c, CheckPasses(e),
         Loads(c), Ttl(Composed(e), c) # "text",
         {Composed(e).registry, Composed(e).issuer} \cap {"no host", "with user"} = {}
  PROVE  DeploymentAllowed(Composed(e)) /\ Registers(Composed(e), c)
<1>1. /\ Composed(e).mode = "solid" /\ Composed(e).auth = "oidc" /\ Composed(e).dpop = "true"
      /\ Composed(e).audience = "solid" /\ Composed(e).origins = "https"
      /\ Composed(e).registry = e.registry /\ Composed(e).issuer = e.issuer
      /\ Composed(e).password = e.password
      /\ e.catalogHost # "a/path" => Composed(e).publicUrl = "https"
  <2>1. /\ e = [k \in DOMAIN e |-> e[k]]
        /\ DOMAIN e = {"catalogHost", "publisherHost", "email", "password", "registry",
                       "issuer", "audience", "ttl", "ttlAlias", "deployment", "mode",
                       "auth", "dpop", "publicUrl", "origins"}
    BY DEF EnvValues
  <2>2. Composed(e).mode = "solid" /\ Composed(e).auth = "oidc"
    BY <2>1 DEF Composed
  <2>3. /\ Composed(e).dpop = "true" /\ Composed(e).audience = "solid"
        /\ Composed(e).origins = "https"
    BY <2>1 DEF Composed
  <2>4. Composed(e).registry = e.registry /\ Composed(e).issuer = e.issuer
    BY <2>1 DEF Composed
  <2>5. Composed(e).password = e.password
    BY <2>1 DEF Composed
  <2>6. e.catalogHost # "a/path" => Composed(e).publicUrl = "https"
    BY <2>1 DEF Composed
  <2> QED BY <2>2, <2>3, <2>4, <2>5, <2>6
<1>2. /\ e.registry \in {"https", "no host", "with user"}
      /\ e.issuer \in {"https", "no host", "with user"}
      /\ e.catalogHost # "a/path" /\ e.password = "hex 48"
  BY DEF CheckPasses
<1>3. DeploymentAllowed(Composed(e))
  BY <1>1, <1>2 DEF DeploymentAllowed
<1>4. Registers(Composed(e), c)
  BY <1>1 DEF Registers, Mode, AuthMode
<1> QED BY <1>3, <1>4

(* The verdict is of the present .env, until it is edited. *)
ToldOfEnv == env \in EnvValues /\ (told = "ready" => CheckPasses(env))

(* What compose brought up from a .env that had passed keeps it. *)
ComposedAsChecked ==
    container.composed /\ container.ready =>
        \E e \in EnvValues : container.env = Composed(e) /\ CheckPasses(e)

LEMMA InitChecked == Init => ToldOfEnv /\ ComposedAsChecked
<1> SUFFICES ASSUME Init PROVE ToldOfEnv /\ ComposedAsChecked
  OBVIOUS
<1>1. env \in EnvValues
  <2>1. FilledEnv \in EnvValues
    BY DEF FilledEnv, EnvValues, Urls
  <2>2. [FilledEnv EXCEPT !.deployment = "production"] \in EnvValues
    BY DEF FilledEnv, EnvValues, Urls
  <2> QED BY <2>1, <2>2 DEF Init
<1>2. told # "ready" /\ ~ container.composed
  BY DEF Init
<1> QED BY <1>1, <1>2 DEF ToldOfEnv, ComposedAsChecked

(* An edit takes the verdict back, and only a start from the present files *)
(* passes it on.                                                           *)
LEMMA NextChecked ==
    ToldOfEnv /\ ComposedAsChecked /\ [Next]_vars => ToldOfEnv' /\ ComposedAsChecked'
<1> SUFFICES ASSUME ToldOfEnv, ComposedAsChecked, [Next]_vars
             PROVE  ToldOfEnv' /\ ComposedAsChecked'
  OBVIOUS
<1>1. ASSUME UNCHANGED container PROVE ComposedAsChecked'
  BY <1>1 DEF ComposedAsChecked
<1>2. ASSUME UNCHANGED <<env, told>> PROVE ToldOfEnv'
  BY <1>2 DEF ToldOfEnv
<1>3. CASE Serve \/ Refuse \/ Crash \/ Restart \/ UNCHANGED vars
  BY <1>1, <1>2, <1>3 DEF Serve, Refuse, Crash, Restart, vars
<1>4. CASE \E k \in DOMAIN env, v \in EnvWords : EditEnv(k, v)
  <2>1. UNCHANGED container /\ env' \in EnvValues /\ told' = "nothing"
    BY <1>4 DEF EditEnv
  <2> QED BY <1>1, <2>1 DEF ToldOfEnv
<1>5. CASE \E c \in Rewritten(contract) : EditContract(c)
  <2>1. UNCHANGED <<container, env, told>>
    BY <1>5 DEF EditContract
  <2> QED BY <1>1, <1>2, <2>1
<1>6. CASE Check
  <2>1. UNCHANGED <<container, env>> /\ (told' = "ready" => CheckPasses(env))
    BY <1>6 DEF Check
  <2>2. CheckPasses(env) => CheckPasses(env)'
    BY <2>1 DEF CheckPasses
  <2> QED BY <1>1, <2>1, <2>2 DEF ToldOfEnv
<1>7. CASE ComposeUp
  <2>1. /\ UNCHANGED <<env, told>> /\ container'.env = Composed(env)
        /\ container'.ready => told = "ready"
    BY <1>7 DEF ComposeUp, BringUp
  <2>2. ToldOfEnv'
    BY <1>2, <2>1
  <2>3. ComposedAsChecked'
    BY <2>1 DEF ToldOfEnv, ComposedAsChecked
  <2> QED BY <2>2, <2>3
<1>8. CASE RunDirectly
  <2>1. UNCHANGED <<env, told>> /\ container'.composed = FALSE
    BY <1>8 DEF RunDirectly, BringUp
  <2> QED BY <1>2, <2>1 DEF ComposedAsChecked
<1> QED BY <1>3, <1>4, <1>5, <1>6, <1>7, <1>8 DEF Next

(* CheckedEnvStarts: a .env that check_config.py has passed is refused under  *)
(* compose only for what the script does not read, whatever was edited since  *)
(* the check or the start, and whatever the contract says.                    *)
THEOREM ClearedEnvStarts == Spec => []CheckedEnvStarts
<1>1. ComposedAsChecked => CheckedEnvStarts
  BY CheckedEnvIsAllowed DEF ComposedAsChecked, CheckedEnvStarts
<1> QED
  BY <1>1, InitChecked, NextChecked, PTL DEF Spec
-----------------------------------------------------------------------------
(* Types. *)

EnvFields ==
    {"catalogHost", "publisherHost", "email", "password", "registry", "issuer", "audience",
     "ttl", "ttlAlias", "deployment", "mode", "auth", "dpop", "publicUrl", "origins"}

(* compose gives the process values that a .env may have, too. *)
LEMMA ComposedTyped == ASSUME NEW e \in EnvValues PROVE Composed(e) \in EnvValues
<1>1. e = [k \in DOMAIN e |-> e[k]] /\ DOMAIN e = EnvFields
  BY DEF EnvValues, EnvFields
<1>2. /\ DOMAIN Composed(e) = EnvFields
      /\ Composed(e) = [k \in EnvFields |-> Composed(e)[k]]
  BY <1>1 DEF Composed
<1>3. /\ Composed(e).deployment = "production" /\ Composed(e).mode = "solid"
      /\ Composed(e).auth = "oidc" /\ Composed(e).dpop = "true"
      /\ Composed(e).audience = "solid" /\ Composed(e).origins = "https"
      /\ Composed(e).publicUrl \in {"https with path", "https"}
  BY <1>1 DEF Composed, EnvFields
<1>4. /\ Composed(e).catalogHost = e.catalogHost /\ Composed(e).publisherHost = e.publisherHost
      /\ Composed(e).email = e.email /\ Composed(e).password = e.password
      /\ Composed(e).registry = e.registry /\ Composed(e).issuer = e.issuer
      /\ Composed(e).ttl = e.ttl /\ Composed(e).ttlAlias = e.ttlAlias
  BY <1>1 DEF Composed, EnvFields
<1> QED BY <1>2, <1>3, <1>4 DEF EnvValues, EnvFields

SettingValues ==
    [mode : {"unset", "solid", "edc"}, auth : {"unset", "oidc", "trusted-header"},
     dpop : BOOLEAN, audience : BOOLEAN, issuer : Urls,
     registry : Urls \cup {"other"}, ttl : {"0", "1", "60", "300"},
     cors : [origins : SUBSET {"http", "https", "*"}, credentials : BOOLEAN]]

(* What a process that starts has read is of the kind its components take:  *)
(* in particular its TTL is a number (registry.py:65-75).                   *)
LEMMA SettingsTyped ==
  ASSUME NEW e \in EnvValues, NEW c \in Contracts, Registers(e, c)
  PROVE  SettingsOf(e, c) \in SettingValues
<1>1. Cors(e) \in [origins : SUBSET {"http", "https", "*"}, credentials : BOOLEAN]
  <2>1. CorsOrigins(e) \in SUBSET {"http", "https", "*"}
    <3>1. e.origins \in {"unset", "blank", "*", "http", "https", "https, *"}
      BY DEF EnvValues
    <3> QED BY <3>1 DEF CorsOrigins
  <2> QED BY <2>1 DEF Cors
<1>2. CASE Mode(e) = "edc"
  BY <1>1, <1>2 DEF SettingsOf, NoSettings, SettingValues, Urls
<1>3. CASE Mode(e) # "edc"
  <2>1. Mode(e) = "solid" /\ AuthMode(e) \in {"oidc", "trusted-header"} /\ Ttl(e, c) # "text"
    BY <1>3 DEF Registers
  <2>2. Ttl(e, c) \in {"0", "1", "60", "300"}
    <3>1. DefaultTtl(c) \in {"0", "1", "300"}
      BY DEF DefaultTtl, Contracts
    <3>2. /\ e.ttl \in {"unset", "0", "60", "text"}
          /\ e.ttlAlias \in {"unset", "0", "60", "text"}
      BY DEF EnvValues
    <3> QED BY <2>1, <3>1, <3>2 DEF Ttl
  <2>3. e.issuer \in Urls /\ RegistryUrl(e, c) \in Urls \cup {"other"}
    BY DEF EnvValues, RegistryUrl, Urls
  <2> QED BY <1>1, <1>3, <2>1, <2>2, <2>3 DEF SettingsOf, RequireDpop, SettingValues
<1> QED BY <1>2, <1>3

(* An edit of the contract leaves a contract. *)
LEMMA RewrittenTyped == ASSUME NEW c \in Contracts PROVE Rewritten(c) \subseteq Contracts
<1>1. ASSUME NEW f \in Field, NEW k \in Tried PROVE [c EXCEPT !.kind[f] = k] \in Contracts
  BY TriedAssumption DEF Contracts
<1>2. /\ [c EXCEPT !.shape = "other"] \in Contracts
      /\ [c EXCEPT !.strategy = "other"] \in Contracts
      /\ [c EXCEPT !.urlEnv = "other"] \in Contracts
      /\ [c EXCEPT !.ttlEnv = "SOLID_REGISTRY_CACHE_SECONDS"] \in Contracts
      /\ [c EXCEPT !.defaultTtl = "0"] \in Contracts
  BY DEF Contracts
<1> QED BY <1>1, <1>2 DEF Rewritten

LEMMA InitTyped == Init => TypeOK
<1> SUFFICES ASSUME Init PROVE TypeOK
  OBVIOUS
<1>1. env \in EnvValues /\ FilledEnv \in EnvValues
  <2>1. FilledEnv \in EnvValues
    BY DEF FilledEnv, EnvValues, Urls
  <2>2. [FilledEnv EXCEPT !.deployment = "production"] \in EnvValues
    BY DEF FilledEnv, EnvValues, Urls
  <2> QED BY <2>1, <2>2 DEF Init
<1>2. ShippedContract \in Contracts
  BY DEF ShippedContract, Contracts, Kinds
<1>3. NoSettings \in SettingValues
  BY DEF NoSettings, SettingValues, Urls
<1> QED BY <1>1, <1>2, <1>3, EditsAssumption DEF Init, TypeOK, SettingValues

LEMMA NextTyped == TypeOK /\ [Next]_vars => TypeOK'
<1> SUFFICES ASSUME TypeOK, [Next]_vars PROVE TypeOK'
  OBVIOUS
<1>0. NoSettings \in SettingValues
  BY DEF NoSettings, SettingValues, Urls
<1>1. CASE Serve
  <2>1. settings' \in SettingValues
    BY <1>1, SettingsTyped DEF Serve, TypeOK
  <2> QED BY <1>1, <2>1 DEF Serve, TypeOK, SettingValues
<1>2. CASE Refuse \/ Restart \/ Check \/ UNCHANGED vars
  BY <1>2 DEF Refuse, Restart, Check, TypeOK, vars
<1>3. CASE Crash
  BY <1>0, <1>3 DEF Crash, TypeOK, SettingValues
<1>4. CASE \E k \in DOMAIN env, v \in EnvWords : EditEnv(k, v)
  BY <1>4, EditsAssumption DEF EditEnv, TypeOK
<1>5. CASE \E c \in Rewritten(contract) : EditContract(c)
  BY <1>5, RewrittenTyped, EditsAssumption DEF EditContract, TypeOK
<1>6. ASSUME NEW e \in EnvValues, NEW composed \in BOOLEAN, BringUp(e, composed) PROVE TypeOK'
  BY <1>0, <1>6 DEF BringUp, TypeOK, SettingValues
<1>7. CASE ComposeUp \/ RunDirectly
  <2>1. env \in EnvValues /\ Composed(env) \in EnvValues
    BY ComposedTyped DEF TypeOK
  <2> QED BY <1>6, <1>7, <2>1 DEF ComposeUp, RunDirectly
<1> QED BY <1>1, <1>2, <1>3, <1>4, <1>5, <1>7 DEF Next

(* TypeOK: every setting keeps to the values that its readers make of it, for *)
(* any values tried and any number of edits.                                  *)
THEOREM ConfigurationTypeCorrect == Spec => []TypeOK
<1> QED
  BY InitTyped, NextTyped, PTL DEF Spec
=============================================================================
