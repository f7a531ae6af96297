--------------------------- MODULE Configuration ---------------------------
(***************************************************************************)
(* How settings reach the catalog.  The operator edits .env and the        *)
(* registry contract, asks scripts/check_config.py, and brings the catalog *)
(* up with docker-compose.yml, or runs it directly on the same .env.  What *)
(* runs keeps the environment and the contract it was brought up with,     *)
(* reads them at every start, and is started again by compose when it ends.*)
(*                                                                         *)
(* Four readers parse the same settings by rules of their own:             *)
(* check_config.py, the interpolation of docker-compose.yml,               *)
(* validate_deployment, and the component that uses the setting.  A value  *)
(* is represented by what these tell apart.  Case is left out: all ignore  *)
(* it where they compare words, but for CATALOG_DEPLOYMENT, which stands   *)
(* here in the lower case it is compared in (deployment.py:7).             *)
(***************************************************************************)
EXTENDS Integers

CONSTANTS
    Tried,     \* kinds of YAML values that the operator writes in a field
    MaxEdits   \* bound: edits of .env and of the contract

ASSUME EditsAssumption == MaxEdits \in Nat

VARIABLES
    env,        \* .env
    contract,   \* the contract file
    told,       \* what check_config.py said of the present .env
    container,  \* what was brought up: its environment and contract, whether by
                \* compose, and whether check_config.py had passed that .env
    process,    \* of the container
    settings,   \* what the running process has read
    edits

vars == <<env, contract, told, container, process, settings, edits>>

-----------------------------------------------------------------------------
(* .env *)

Urls == {"unset", "placeholder", "http", "https", "no host", "with user"}

\* An empty TTL is "text"; an empty word is like any that nobody knows.
EnvValues ==
    [catalogHost : {"unset", "placeholder", "a", "a/path"},
     publisherHost : {"unset", "placeholder", "a", "b"},
     email : {"unset", "placeholder", "mail"},
     password : {"unset", "placeholder", "hex 24", "hex 48"},
     registry : Urls, issuer : Urls, audience : {"unset", "solid"},
     ttl : {"unset", "0", "60", "text"},       \* SOLID_REGISTRY_CACHE_TTL_SECONDS
     ttlAlias : {"unset", "0", "60", "text"},  \* SOLID_REGISTRY_CACHE_SECONDS
     deployment : {"unset", "production"},
     mode : {"unset", "solid", "padded solid", "edc"},
     auth : {"unset", "oidc", "padded oidc", "trusted-header", "unknown"},
     dpop : {"unset", "true", "false", "padded false"},
     publicUrl : {"unset", "http", "https", "https with path"},
     origins : {"unset", "blank", "*", "http", "https", "https, *"}]

\* .env.example with its placeholders filled in.
FilledEnv ==
    [catalogHost |-> "a", publisherHost |-> "b", email |-> "mail",
     password |-> "hex 48", registry |-> "https", issuer |-> "https",
     audience |-> "solid", ttl |-> "0", ttlAlias |-> "unset",
     deployment |-> "unset", mode |-> "solid", auth |-> "oidc", dpop |-> "true",
     publicUrl |-> "https", origins |-> "https"]

-----------------------------------------------------------------------------
(* The registry contract. *)

Sections ==
    {"<root>", "registry", "shape", "shape.container", "shape.member_resource",
     "fetch", "matching", "matching.normalize", "cache", "failure"}

Strings ==
    {"name", "description", "registry.url_env", "registry.rdf_format", "shape.type",
     "matching.strategy", "cache.ttl_seconds_env"}

Predicates ==
    {"shape.container.member_resource_predicates", "shape.member_resource.webid_predicates"}

Numbers ==
    {"version", "fetch.timeout_seconds", "cache.default_ttl_seconds",
     "failure.unregistered_status"}

Flags ==
    {"fetch.follow_member_resources", "matching.normalize.trim",
     "matching.normalize.preserve_fragment", "matching.normalize.lowercase_scheme_host",
     "failure.fail_closed"}

Field == Sections \cup Strings \cup Predicates \cup Numbers \cup Flags

\* Kinds of YAML values: "list" is one of words, "numeral" a quoted integer.
Kinds ==
    {"absent", "null", "mapping", "list", "blank", "text", "numeral", "number", "flag"}

ASSUME TriedAssumption == Tried \subseteq Kinds

Contracts ==
    [kind : [Field -> Kinds],
     shape : {"ldp-container-member-resources", "other"}, strategy : {"exact", "other"},
     urlEnv : {"SOLID_REGISTRY_URL", "other"},
     ttlEnv : {"SOLID_REGISTRY_CACHE_TTL_SECONDS", "SOLID_REGISTRY_CACHE_SECONDS"},
     defaultTtl : {"0", "300"}]

\* config/solid-registry-contract.yaml
ShippedContract ==
    [kind |-> [f \in Field |-> IF f \in Sections THEN "mapping"
                               ELSE IF f \in Strings THEN "text"
                               ELSE IF f \in Predicates THEN "list"
                               ELSE IF f \in Numbers THEN "number" ELSE "flag"],
     shape |-> "ldp-container-member-resources", strategy |-> "exact",
     urlEnv |-> "SOLID_REGISTRY_URL", ttlEnv |-> "SOLID_REGISTRY_CACHE_TTL_SECONDS",
     defaultTtl |-> "300"]

\* The contract's fields are what _mapping, _string, _string_tuple, _float and
\* _int, and _bool accept; float() and int() take numerals and flags too.
FieldsRead(c) ==
    /\ \A f \in Sections : c.kind[f] = "mapping"
    /\ \A f \in Strings : c.kind[f] \in {"text", "numeral"}
    /\ \A f \in Predicates : c.kind[f] = "list"
    /\ \A f \in Numbers : c.kind[f] \in {"number", "numeral", "flag"}
    /\ \A f \in Flags : c.kind[f] = "flag"

\* load_registry_contract returns instead of raising.
Loads(c) ==
    /\ FieldsRead(c)
    /\ c.shape = "ldp-container-member-resources"
    /\ c.strategy = "exact"

\* The default TTL: float(True) is 1.
DefaultTtl(c) == IF c.kind["cache.default_ttl_seconds"] = "flag" THEN "1" ELSE c.defaultTtl

-----------------------------------------------------------------------------
(* check_config.py *)

Required == {"catalogHost", "publisherHost", "email", "password", "registry", "issuer"}

\* Mutant of CheckPasses: the hostname is matched, not fully matched.
CheckPassesPrefix(e) ==
    /\ \A k \in Required : e[k] \notin {"unset", "placeholder"}
    /\ e.catalogHost # e.publisherHost
    /\ e.password = "hex 48"
    /\ {e.registry, e.issuer} \subseteq {"https", "no host", "with user"}

CheckPasses(e) ==
    /\ \A k \in Required : e[k] \notin {"unset", "placeholder"}
    /\ e.catalogHost # "a/path"
    /\ e.catalogHost # e.publisherHost
    /\ e.password = "hex 48"
    /\ {e.registry, e.issuer} \subseteq {"https", "no host", "with user"}

-----------------------------------------------------------------------------
(* The environment of the process. *)

\* docker-compose.yml interpolates only if each `:?` variable is set.
Interpolates(e) == \A k \in Required : e[k] # "unset"

\* It overrides the variables of env_file that it fixes and derives.
Composed(e) ==
    [e EXCEPT !.deployment = "production", !.mode = "solid", !.auth = "oidc",
              !.dpop = "true", !.audience = "solid", !.origins = "https",
              !.publicUrl = IF e.catalogHost = "a/path" THEN "https with path" ELSE "https"]

-----------------------------------------------------------------------------
(* The start of the process: create_app. *)

\* Mutant of DeploymentAllowed: DPoP is required unless it is turned off.
DeploymentAllowedLax(e) ==
    \/ e.deployment # "production"
    \/ /\ e.mode = "solid" /\ e.auth = "oidc" /\ e.dpop \notin {"unset", "padded false"}
       /\ e.registry = "https" /\ e.issuer = "https" /\ e.publicUrl = "https"
       /\ e.audience # "unset"
       /\ e.origins = "https"
       /\ e.password \in {"hex 24", "hex 48"}

\* validate_deployment
DeploymentAllowed(e) ==
    \/ e.deployment # "production"
    \/ /\ e.mode = "solid" /\ e.auth = "oidc" /\ e.dpop = "true"
       /\ e.registry = "https" /\ e.issuer = "https" /\ e.publicUrl = "https"
       /\ e.audience # "unset"
       /\ e.origins = "https"
       /\ e.password \in {"hex 24", "hex 48"}

\* get_settings strips, and load_active_mode knows two modes.
Mode(e) == IF e.mode = "padded solid" THEN "solid" ELSE e.mode

\* build_solid_auth_from_env strips too, and defaults to oidc.
AuthMode(e) == IF e.auth \in {"unset", "padded oidc"} THEN "oidc" ELSE e.auth

\* OidcSolidAuth does not strip; whatever does not say no is yes.
RequireDpop(e) == e.dpop # "false"

\* _cache_ttl_from_env, before float(): the alias is read in second place.
Ttl(e, c) ==
    IF c.ttlEnv = "SOLID_REGISTRY_CACHE_TTL_SECONDS" /\ e.ttl # "unset" THEN e.ttl
    ELSE IF e.ttlAlias # "unset" THEN e.ttlAlias
    ELSE DefaultTtl(c)

\* The registry of SolidRegistryCheck; its default is an HTTPS URL.
RegistryUrl(e, c) ==
    IF c.urlEnv = "other" THEN "other" ELSE IF e.registry = "unset" THEN "https" ELSE e.registry

\* _cors_origins, by scheme; "all" is "*", the default is two HTTP origins.
CorsOrigins(e) ==
    IF e.origins = "blank" THEN {}
    ELSE IF e.origins = "https, *" THEN {"https", "*"}
    ELSE IF e.origins = "unset" THEN {"http"} ELSE {e.origins}

\* _configure_cors: no middleware, or one with credentials but for "*" alone.
Cors(e) == [origins |-> CorsOrigins(e), credentials |-> CorsOrigins(e) \notin {{}, {"*"}}]

\* Mutant of Registers: a TTL that is no number is kept as it is.
RegistersAnyTtl(e, c) ==
    \/ Mode(e) = "edc"
    \/ Mode(e) = "solid" /\ Loads(c) /\ AuthMode(e) \in {"oidc", "trusted-header"}

\* load_active_mode and register() return; EDC mode reads none of these.
Registers(e, c) ==
    \/ Mode(e) = "edc"
    \/ /\ Mode(e) = "solid"
       /\ Loads(c)
       /\ Ttl(e, c) # "text"
       /\ AuthMode(e) \in {"oidc", "trusted-header"}

NoSettings ==
    [mode |-> "unset", auth |-> "unset", dpop |-> FALSE, audience |-> FALSE,
     issuer |-> "unset", registry |-> "unset", ttl |-> "0",
     cors |-> [origins |-> {}, credentials |-> FALSE]]

SettingsOf(e, c) ==
    IF Mode(e) = "edc" THEN [NoSettings EXCEPT !.mode = "edc", !.cors = Cors(e)]
    ELSE [mode |-> Mode(e), auth |-> AuthMode(e), dpop |-> RequireDpop(e),
          audience |-> e.audience # "unset", issuer |-> e.issuer,
          registry |-> RegistryUrl(e, c), ttl |-> Ttl(e, c), cors |-> Cors(e)]

Serve ==
    /\ process = "starting"
    /\ DeploymentAllowed(container.env)
    /\ Registers(container.env, container.contract)
    /\ process' = "running"
    /\ settings' = SettingsOf(container.env, container.contract)
    /\ UNCHANGED <<env, contract, told, container, edits>>

\* An exception of create_app ends the process.
Refuse ==
    /\ process = "starting"
    /\ ~ (DeploymentAllowed(container.env) /\ Registers(container.env, container.contract))
    /\ process' = "exited"
    /\ UNCHANGED <<env, contract, told, container, settings, edits>>

Crash ==
    /\ process = "running"
    /\ process' = "exited"
    /\ settings' = NoSettings
    /\ UNCHANGED <<env, contract, told, container, edits>>

\* restart: unless-stopped
Restart ==
    /\ process = "exited" /\ container.composed
    /\ process' = "starting"
    /\ UNCHANGED <<env, contract, told, container, settings, edits>>

-----------------------------------------------------------------------------
(* The operator. *)

\* Edits change files only, never what runs.
EditEnv(k, v) ==
    /\ edits < MaxEdits /\ v # env[k]
    /\ env' = [env EXCEPT ![k] = v]
    /\ env' \in EnvValues
    /\ told' = "nothing"
    /\ edits' = edits + 1
    /\ UNCHANGED <<contract, container, process, settings>>

EditContract(c) ==
    /\ edits < MaxEdits /\ c # contract
    /\ contract' = c
    /\ edits' = edits + 1
    /\ UNCHANGED <<env, told, container, process, settings>>

Check ==
    /\ told' = IF CheckPasses(env) THEN "ready" ELSE "errors"
    /\ UNCHANGED <<env, contract, container, process, settings, edits>>

BringUp(e, composed) ==
    /\ container' = [env |-> e, contract |-> contract, composed |-> composed,
                     ready |-> told = "ready"]
    /\ process' = "starting"
    /\ settings' = NoSettings
    /\ UNCHANGED <<env, contract, told, edits>>

\* docker compose up -d --build
ComposeUp == Interpolates(env) /\ BringUp(Composed(env), TRUE)

\* uvicorn with .env as its environment
RunDirectly == BringUp(env, FALSE)

-----------------------------------------------------------------------------
\* One field, or one of the values the loader compares, is rewritten.
Rewritten(c) ==
    {[c EXCEPT !.kind[f] = k] : f \in Field, k \in Tried} \cup
    {[c EXCEPT !.shape = "other"], [c EXCEPT !.strategy = "other"],
     [c EXCEPT !.urlEnv = "other"], [c EXCEPT !.ttlEnv = "SOLID_REGISTRY_CACHE_SECONDS"],
     [c EXCEPT !.defaultTtl = "0"]}

EnvWords ==
    {"unset", "placeholder", "a", "a/path", "b", "mail", "hex 24", "hex 48", "http",
     "https", "no host", "with user", "solid", "0", "60", "text", "production",
     "padded solid", "edc", "oidc", "padded oidc", "trusted-header", "unknown",
     "true", "false", "padded false", "https with path", "blank", "*", "https, *"}

Init ==
    /\ env \in {FilledEnv, [FilledEnv EXCEPT !.deployment = "production"]}
    /\ contract = ShippedContract
    /\ told = "nothing"
    /\ container = [env |-> FilledEnv, contract |-> ShippedContract, composed |-> FALSE,
                     ready |-> FALSE]
    /\ process = "none"
    /\ settings = NoSettings
    /\ edits = 0

Next ==
    \/ Serve \/ Refuse \/ Crash \/ Restart
    \/ \E k \in DOMAIN env, v \in EnvWords : EditEnv(k, v)
    \/ \E c \in Rewritten(contract) : EditContract(c)
    \/ Check \/ ComposeUp \/ RunDirectly

Spec == Init /\ [][Next]_vars

-----------------------------------------------------------------------------
(* Properties. *)

\* Every variable keeps to its values; in particular a process that runs has
\* read a TTL that is a number (registry.py:65-75).
TypeOK ==
    /\ env \in EnvValues /\ contract \in Contracts
    /\ told \in {"nothing", "ready", "errors"}
    /\ container \in [env : EnvValues, contract : Contracts, composed : BOOLEAN,
                       ready : BOOLEAN]
    /\ process \in {"none", "starting", "running", "exited"}
    /\ settings \in [mode : {"unset", "solid", "edc"},
                     auth : {"unset", "oidc", "trusted-header"},
                     dpop : BOOLEAN, audience : BOOLEAN, issuer : Urls,
                     registry : Urls \cup {"other"}, ttl : {"0", "1", "60", "300"},
                     cors : [origins : SUBSET {"http", "https", "*"}, credentials : BOOLEAN]]
    /\ edits \in 0..MaxEdits

\* A process that runs as production demands DPoP-bound tokens of an HTTPS
\* issuer for a set audience, lets pages of HTTPS origins call it and no others,
\* and reads the registry's container over HTTPS unless the contract names another
\* variable (the resources it lists may be on any URL): what
\* validate_deployment compares and what each component makes of the same
\* variables agree (deployment.py:9-25), whatever was edited since and however
\* often the process was restarted.
ProductionIsStrict ==
    (process = "running" /\ container.env.deployment = "production") =>
        /\ settings.mode = "solid" /\ settings.auth = "oidc"
        /\ settings.dpop /\ settings.audience
        /\ settings.issuer = "https"
        /\ settings.cors.origins = {"https"}
        /\ settings.registry = "https" \/ container.contract.urlEnv = "other"

\* A .env that check_config.py has passed starts, under compose, unless the
\* fault is in what the script does not read: the contract, the TTLs, and the
\* user and host of the URLs (check_config.py:16-35 against deployment.py).
CheckedEnvStarts ==
    (process = "exited" /\ container.ready /\ container.composed) =>
        \/ DeploymentAllowed(container.env) /\ Registers(container.env, container.contract)
        \/ ~ Loads(container.contract)
        \/ Ttl(container.env, container.contract) = "text"
        \/ {container.env.registry, container.env.issuer} \cap {"no host", "with user"} # {}
=============================================================================
