------------------------------ MODULE Settings ------------------------------
(***************************************************************************)
(* The settings table: integration secrets, sealed with the master key of  *)
(* the environment, the providers, tiers and routes of the language        *)
(* models, the feature switches and the public address.  Every setting     *)
(* falls back on the environment, which a restart may change.              *)
(*                                                                         *)
(* A model is named by the provider that has it.  The environment selects  *)
(* a provider, may hold its key, and may name models of any provider.      *)
(* Base URLs and token budgets are chosen beside the model and left out.   *)
(***************************************************************************)
EXTENDS Integers, FiniteSets

CONSTANTS
  AppKeys,      \* names of the integration secrets
  Providers,    \* providers of language models
  EnvProvider,  \* the one the environment selects
  LocalProvider,\* the OpenAI-compatible one, which needs no key
  LlmRoutes,       \* the uses of language models
  EnvModels,    \* models the environment names: LLM_MODEL, a provider's own variable, LLM_FRONTIER_MODEL
  Typed,        \* secrets people type
  MasterKeys,   \* values of SPECREG_SECRET_KEY
  MaxSaves,     \* bound: saved forms
  MaxRestarts   \* bound: restarts with another environment

CONSTANTS Unset, EnvSecret, LocalSecret  \* keys of the environment: LLM_API_KEY, LLM_CHEAP_API_KEY

ASSUME ProvidersAssumption ==
  /\ EnvProvider \in Providers /\ LocalProvider \in Providers
  /\ EnvModels \subseteq [main : Providers \cup {Unset}, vendor : Providers \cup {Unset}, frontier : Providers \cup {Unset}]

VARIABLES
  secrets,   \* stored secrets: [under, secret]; a missing row reads as a blank one
  choices,   \* stored provider and model of the base configuration and of each tier
  routes,    \* stored tier of each route
  hostname,  \* stored public host
  env,       \* the environment: [master, local, models]
  entered,   \* history: what people entered for each secret last
  mirrored,  \* history: the standard tier was saved after a key was entered for the base
  named,     \* history: models an environment has named
  saves, restarts

history == <<entered, mirrored>>
settingsVars == <<secrets, choices, routes, hostname, env, history, named, saves, restarts>>

Tiers == {"cheap", "standard", "frontier"}
DefaultRoute(r) == "cheap"

App(a) == <<"app", a>>
Ldap == <<"ldap", "bind_password">>
EmbeddingKey == <<"embedding", "api_key">>
Base == <<"llm", "base">>
Tier(t) == <<"tier", t>>
Provider(p) == <<"provider", p>>
SecretNames ==
  {App(a) : a \in AppKeys} \cup {Ldap, EmbeddingKey, Base}
    \cup {Tier(t) : t \in Tiers} \cup {Provider(p) : p \in Providers}

Hosts == {"", "name", "loopback", "wildcard"}
Blank == ""

-----------------------------------------------------------------------------
\* Secrets.

\* encryptSecret: blanks and everything saved without a master key stay as they are.
Sealed(s) == [under |-> IF s = Blank THEN Unset ELSE env.master, secret |-> s]

NeverThrows(n) == TRUE  \* mutant of Readable

\* decryptSecret throws when the key that sealed the value is not the one set now.
Readable(n) == secrets[n].under \in {Unset, env.master}
Stored(n) == secrets[n].secret

Or(a, b) == IF a # Blank THEN a ELSE b

AppKey(a) == Or(Stored(App(a)), EnvSecret)
Single(n) == Stored(n)

\* A form's field for a secret: what was typed, blank, or the order to clear it.
Clear == "clear"
Field == Typed \cup {Blank, Clear}

BlankForgets(field, current) == IF field = Clear THEN Blank ELSE field  \* mutant of Kept

\* What a save stores: blank keeps the current value.
Kept(field, current) == IF field = Clear THEN Blank ELSE Or(field, current)

-----------------------------------------------------------------------------
\* Language models.

ProviderKey(p) == Or(Stored(Provider(p)), IF p = EnvProvider THEN EnvSecret ELSE Blank)

First(model, other) == IF model # Unset THEN model ELSE other

BaseConfig ==
  LET p == IF choices["base"] = Unset THEN EnvProvider ELSE choices["base"].provider
  IN [provider |-> p,
      model |-> IF choices["base"] # Unset THEN choices["base"].model
                ELSE First(env.models.main, First(env.models.vendor, p)),
      key |-> Or(Stored(Base), Or(EnvSecret, ProviderKey(p))),
      reads |-> {Base, Provider(p)}]

Fallback(t) ==
  IF t = "cheap" /\ env.local
  THEN [BaseConfig EXCEPT !.provider = LocalProvider, !.model = LocalProvider, !.key = LocalSecret]
  ELSE IF t = "frontier"
  THEN [BaseConfig EXCEPT !.model = First(env.models.frontier, First(env.models.vendor, @))]
  ELSE BaseConfig

\* The secrets in reads are decrypted on the way, whichever of them is used.
TierConfig(t) ==
  LET fallback == Fallback(t)
      chosen == choices[t]
      p == IF chosen = Unset THEN fallback.provider ELSE chosen.provider
  IN [provider |-> p,
      model |-> IF chosen # Unset THEN chosen.model
                ELSE IF fallback.provider = p THEN fallback.model ELSE p,
      key |-> Or(Stored(Tier(t)), Or(ProviderKey(p), fallback.key)),
      reads |-> fallback.reads \cup {Tier(t), Provider(p)}]

RouteTier(r) == IF routes[r] = Unset THEN DefaultRoute(r) ELSE routes[r]

\* runLlmText: a hosted provider without a key is refused before the call.
Call(r) ==
  LET c == TierConfig(RouteTier(r))
  IN [provider |-> c.provider, model |-> c.model, key |-> c.key,
      refused |-> c.key = Blank /\ c.provider # LocalProvider]

\* The configuration a save of config c with input provider p (Unset: the current one)
\* stores: another provider comes with its own model.
Chosen(c, p, model) ==
  LET q == IF p = Unset THEN c.provider ELSE p
  IN [provider |-> q,
      model |-> IF model # Unset THEN model ELSE IF q # c.provider THEN q ELSE c.model]

-----------------------------------------------------------------------------
\* The public address.

Reachable(host, detected, preserveLoopback) ==
  IF host = "wildcard" \/ (host = "loopback" /\ ~preserveLoopback) THEN detected ELSE host

\* detectServerIpAddress: a server with internal interfaces only has no address.
Detected == {"address", "wildcard"}

\* resolvePublicUrl
PublicHost(configured, forwarded, detected) ==
  IF configured # Blank THEN Reachable(configured, detected, TRUE)
  ELSE IF hostname # Blank THEN Reachable(hostname, detected, TRUE)
  ELSE IF forwarded # Blank THEN Reachable(forwarded, detected, FALSE)
  ELSE detected

\* buildRegistryOperationsAudit, of the settings: no request forwards a host.  It reads the
\* base configuration, and fails where a secret cannot be read.
AuditedSecrets == BaseConfig.reads \cup {App(a) : a \in AppKeys} \cup {Provider(p) : p \in Providers}

AddressWarnings(configured, detected) ==
  (IF configured = Blank /\ hostname = Blank THEN {"detected address"} ELSE {})
    \cup (IF PublicHost(configured, Blank, detected) = "loopback" THEN {"loopback address"} ELSE {})

KeyWarnings ==
  (IF BaseConfig.key = Blank /\ BaseConfig.provider # LocalProvider THEN {"no model key"} ELSE {})
    \cup {<<"no key", a>> : a \in {a \in AppKeys : AppKey(a) = Blank}}

-----------------------------------------------------------------------------
\* Actions: one per PUT handler, and a restart.

NamedBy(models) == {models.main, models.vendor, models.frontier} \ {Unset}

SettingsInit ==
  /\ secrets = [n \in SecretNames |-> [under |-> Unset, secret |-> Blank]]
  /\ choices = [t \in Tiers \cup {"base"} |-> Unset]
  /\ routes = [r \in LlmRoutes |-> Unset]
  /\ hostname = Blank
  /\ env \in [master : MasterKeys \cup {Unset}, local : BOOLEAN, models : EnvModels]
  /\ entered = [n \in SecretNames |-> Blank]
  /\ mirrored = FALSE /\ named = NamedBy(env.models)
  /\ saves = 0 /\ restarts = 0

Saving == saves < MaxSaves /\ saves' = saves + 1 /\ UNCHANGED <<env, named, restarts>>

\* A form with the one field of n.
Only(n, field) == [m \in {n} |-> field]

Enter(fields) ==
  entered' = [n \in SecretNames |->
    IF n \in DOMAIN fields THEN (IF fields[n] = Clear THEN Blank ELSE Or(fields[n], entered[n]))
    ELSE entered[n]]

\* PUT /app-keys: all the keys are read, and all are written.
SaveAppKeys(fields) ==
  LET names == {App(a) : a \in AppKeys}
  IN /\ Saving
     /\ \A n \in names : Readable(n)
     /\ secrets' = [n \in SecretNames |->
          IF n \in names THEN Sealed(Kept(fields[n], AppKey(n[2]))) ELSE secrets[n]]
     /\ Enter(fields)
     /\ UNCHANGED <<choices, routes, hostname, mirrored>>

SaveSingle(n, field) ==
  /\ Saving
  /\ Readable(n)
  /\ secrets' = [secrets EXCEPT ![n] = Sealed(Kept(field, Single(n)))]
  /\ Enter(Only(n, field))
  /\ UNCHANGED <<choices, routes, hostname, mirrored>>

\* PUT /ldap/config
SaveLdapConfig(field) == SaveSingle(Ldap, field)

\* PUT /embeddings/config
SaveEmbeddingConfig(field) == SaveSingle(EmbeddingKey, field)

\* PUT /llm/providers/:provider
SaveLlmProviderConfig(p, field) ==
  LET n == Provider(p)
  IN /\ Saving
     /\ Readable(n)
     /\ secrets' = [secrets EXCEPT ![n] = Sealed(Kept(field, ProviderKey(p)))]
     /\ Enter(Only(n, field))
     /\ UNCHANGED <<choices, routes, hostname, mirrored>>

\* PUT /llm/config
SaveLlmConfig(p, model, field) ==
  /\ Saving
  /\ \A n \in BaseConfig.reads : Readable(n)
  /\ choices' = [choices EXCEPT !["base"] = Chosen(BaseConfig, p, model)]
  /\ secrets' = [secrets EXCEPT ![Base] = Sealed(Kept(field, BaseConfig.key))]
  /\ Enter(Only(Base, field)) /\ mirrored' = (mirrored /\ field = Blank)
  /\ UNCHANGED <<routes, hostname>>

\* saveLlmTierConfig ends by saving the standard tier as the base configuration too.
Mirrored(t) == IF t = "standard" THEN {"base"} ELSE {}

\* The base keeps its key when the tier's is blank and was not cleared.
MirroredKey(field, key) == IF field = Clear THEN Blank ELSE Or(key, BaseConfig.key)

\* PUT /llm/tiering/tier/:tier
SaveLlmTierConfig(t, p, model, field) ==
  LET current == TierConfig(t)
      next == Chosen(current, p, model)
      key == Kept(field, current.key)
      mirror == Mirrored(t) # {}
  IN /\ Saving
     /\ \A n \in current.reads : Readable(n)
     /\ choices' = [c \in DOMAIN choices |-> IF c \in {t} \cup Mirrored(t) THEN next ELSE choices[c]]
     /\ secrets' = [n \in SecretNames |->
          IF n = Tier(t) THEN Sealed(key)
          ELSE IF n = Base /\ mirror THEN Sealed(MirroredKey(field, key)) ELSE secrets[n]]
     /\ entered' = [entered EXCEPT
          ![Tier(t)] = IF field = Clear THEN Blank ELSE Or(field, @),
          ![Base] = IF mirror /\ field = Clear THEN Blank ELSE @]
     /\ mirrored' = (mirrored \/ mirror)
     /\ UNCHANGED <<routes, hostname>>

\* PUT /llm/tiering/routes
SaveLlmRoutes(input) ==
  /\ Saving
  /\ routes' = [r \in LlmRoutes |-> IF r \in DOMAIN input THEN input[r] ELSE routes[r]]
  /\ UNCHANGED <<secrets, choices, hostname, history>>

\* PUT /server/public-url
SavePublicHostname(host) ==
  /\ Saving
  /\ hostname' = host
  /\ UNCHANGED <<secrets, choices, routes, history>>

\* The server comes back with another environment.
Reconfigure(master, local, models) ==
  /\ restarts < MaxRestarts /\ restarts' = restarts + 1
  /\ env' = [master |-> master, local |-> local, models |-> models]
  /\ env' # env
  /\ named' = named \cup NamedBy(models)
  /\ UNCHANGED <<secrets, choices, routes, hostname, history, saves>>

SettingsNext ==
  \/ \E a \in AppKeys, field \in Field :
       SaveAppKeys([n \in {App(b) : b \in AppKeys} |-> IF n = App(a) THEN field ELSE Blank])
  \/ \E field \in Field :
       \/ SaveLdapConfig(field)
       \/ SaveEmbeddingConfig(field)
       \/ \E p \in Providers : SaveLlmProviderConfig(p, field)
       \/ \E p \in Providers \cup {Unset} :
            \/ SaveLlmConfig(p, Unset, field)
            \/ \E t \in Tiers, model \in {p, Unset} : SaveLlmTierConfig(t, p, model, field)
  \/ \E r \in LlmRoutes, t \in Tiers : SaveLlmRoutes(Only(r, t))
  \/ \E h \in Hosts : SavePublicHostname(h)
  \/ \E k \in MasterKeys \cup {Unset}, local \in BOOLEAN, models \in EnvModels : Reconfigure(k, local, models)

-----------------------------------------------------------------------------
Served(n) ==
  IF n[1] = "app" THEN AppKey(n[2])
  ELSE IF n[1] = "provider" THEN ProviderKey(n[2])
  ELSE IF n = Base THEN BaseConfig.key
  ELSE IF n[1] = "tier" THEN TierConfig(n[2]).key ELSE Stored(n)

\* What is used for a secret that can be read is what somebody typed for it last,
\* whatever was saved beside it or before, whichever master keys came and went, and
\* whatever the environment holds.  The key of the base may be lost to a save of the standard
\* tier, even one that types none (llm.ts:549); then it is that tier's key.
SecretsAreServed ==
  \A n \in SecretNames : entered[n] # Blank /\ Readable(n) =>
    IF n = Base /\ mirrored
    THEN Readable(Tier("standard")) => Served(n) = Served(Tier("standard"))
    ELSE Served(n) = entered[n]

\* No save overwrites a secret it cannot read: a start with the wrong master key loses
\* nothing, and the right one brings everything back.
UnreadableSecretsAreKept ==
  [][\A n \in SecretNames :
       secrets[n].under \notin {Unset, env.master}
         => secrets'[n] = secrets[n]]_settingsVars

\* A call asks a provider for another provider's model only if an environment named that
\* model, and, the frontier tier aside, only the provider the environment selects: no order of
\* saves, tiers and fallbacks mixes them otherwise.
ModelsMatchProviders ==
  \A r \in LlmRoutes :
    LET c == Call(r)
    IN c.model # c.provider => c.model \in named /\ (RouteTier(r) # "frontier" => c.provider = EnvProvider)

\* The address agents are given is one they can reach, if the server has one: a loopback
\* address only when the operator chose it, the wildcard only when there is nothing else.
AdvertisedUrlIsReachable ==
  \A configured, forwarded \in Hosts, detected \in Detected :
    LET host == PublicHost(configured, forwarded, detected)
    IN /\ host = "wildcard" => detected = "wildcard"
       /\ host = "loopback" => configured = "loopback" \/ (configured = Blank /\ hostname = "loopback")

\* The audit of the registry reads the base configuration only: when it has nothing against
\* the model's key, no tier that uses the base's provider is refused, the cheap one aside,
\* which a local endpoint of the environment may leave without the base's key; and an
\* address it does not warn of is not a loopback one, whoever asks.
AuditsSeeSettings ==
  (\A n \in AuditedSecrets : Readable(n)) =>
    /\ "no model key" \notin KeyWarnings =>
         \A t \in Tiers \ {"cheap"} :
           TierConfig(t).provider = BaseConfig.provider =>
             TierConfig(t).key # Blank \/ TierConfig(t).provider = LocalProvider
    /\ \A configured \in Hosts, detected \in Detected :
         "loopback address" \notin AddressWarnings(configured, detected) =>
           \A forwarded \in Hosts : PublicHost(configured, forwarded, detected) # "loopback"

\* The four together: whatever was saved, restarted or defaulted in whichever order, what
\* the server uses is what people entered last, fits together and can be reached.
SettingsAreServed ==
  SecretsAreServed /\ ModelsMatchProviders /\ AdvertisedUrlIsReachable /\ AuditsSeeSettings

\* The same, and no save destroys what it cannot read.
SettingsAreSound == []SettingsAreServed /\ UnreadableSecretsAreKept

\* "Never a valid client-facing URL, even if set explicitly" (publicUrl.ts:65).
WildcardIsNeverAdvertised ==
  \A configured, forwarded \in Hosts, detected \in Detected : PublicHost(configured, forwarded, detected) # "wildcard"

\* The older form configures the standard tier (docs/OPERATIONS.md:217).
OlderFormIsStandard ==
  [][\A p \in Providers, field \in Field :
       SaveLlmConfig(p, Unset, field) => TierConfig("standard").provider' = p]_settingsVars

SettingsSpec == SettingsInit /\ [][SettingsNext]_settingsVars
=============================================================================
