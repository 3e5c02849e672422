----------------------------- MODULE AgentLaunch -----------------------------
(***************************************************************************)
(* From a clawfile, written by an author or by `wizard` (internal/cli), to  *)
(* the flags of a container: validation with defaults and capability        *)
(* contracts (internal/claw/validate, internal/capability),                 *)
(* the compiled policy (internal/policy), and the part of manager.Run that  *)
(* comes before a run has a row: runtime choice, LLM key and environment    *)
(* (internal/runtime, internal/llm).  What validation promised a skill has  *)
(* to be what the container gets, although the two happen in different      *)
(* commands, from different inputs and with no check in between.            *)
(*                                                                         *)
(* A definition Name_Slip is a deliberately wrong variant of Name, used to  *)
(* show that some property depends on that part of the code.                *)
(*                                                                         *)
(* Abstracted: apiVersion, kind, name, species, resources, workdir, user    *)
(* and command, which are checked or defaulted one by one and passed on;    *)
(* mount sources; paths and names that are not well-formed, which           *)
(* validation refuses; white space around a value.  A skill given by id     *)
(* has no contract to check.  The files of a compile are read at once       *)
(* (CapsuleRelease has them one by one).  Run's row in table capsules,      *)
(* which no command reads, is left out.  Of the wizard, the questions are:  *)
(* they only fill in the flags.                                             *)
(***************************************************************************)
EXTENDS Naturals, Sequences

CONSTANTS
  EnvNames,   \* names of environment variables
  Values,     \* their values, as users and providers write them
  GeminiURL,  \* the endpoint gemini_openai has by default
  Unset,      \* in an environment: no such variable (or, on the host, a blank one)
  Skills,     \* the agent's skills that are given by path
  Versions,   \* versions of skills
  MountTargets,  \* paths in the container
  Clawfiles,  \* the clawfiles an author may write
  WizardFlags,   \* the flags `wizard` may be given, or the answers to its questions
  Contracts,  \* the capability contracts a skill may come with
  Hosts,      \* the hosts a capsule may run on: environment and runtimes installed
  Options,    \* the flags `run` may be given
  HostOrder,  \* hostDefaultOrder
  NoClawfile, NoWizard, NoContract, NoCapsule, NoContainer

Providers  == {"openai_compatible", "gemini_openai", "anthropic"}
Targets    == {"podman", "apple_container", "docker"}
Networks   == {"none", "outbound", "all"}
\* The variables the code names itself: settings and keys.
Settings == {"METACLAW_LLM_PROVIDER", "METACLAW_LLM_MODEL", "METACLAW_LLM_BASE_URL",
             "OPENAI_BASE_URL", "ANTHROPIC_BASE_URL"}
KeyVariables == {"OPENAI_API_KEY", "ANTHROPIC_API_KEY", "GEMINI_API_KEY"}

\* The variables and mount targets the wizard gives an agent; each variable holds
\* the path of a mount.
WizardVariables == {"OBSIDIAN_VAULT_DIR", "METACLAW_CONFIG_DIR", "METACLAW_LOG_DIR"}
WizardPath(n) == IF n = "OBSIDIAN_VAULT_DIR" THEN "/vault" ELSE
                 IF n = "METACLAW_CONFIG_DIR" THEN "/config" ELSE "/logs"

Environment == [EnvNames -> Values \cup Providers \cup {Unset}]

LLMSpec == [provider : Providers \cup {""}, model : Values \cup {""},
            baseURL : Values \cup {""}, apiKeyEnv : EnvNames \cup {""}]

MountSpec == [target : MountTargets, readOnly : BOOLEAN]

Clawfile ==
  [llm : LLMSpec, env : Environment, network : Networks \cup {""}, mounts : Seq(MountSpec),
   target : Targets \cup {""}, image : {"", "pinned", "unpinned"},
   version : UNION {[S -> Versions \cup {""}] : S \in SUBSET Skills}]

\* The agent's skills; for each, the version the clawfile names, if it names one.
SkillsOf(c) == DOMAIN c.version

WizardOptions ==
  [provider : Providers \cup {"", "none"}, model : Values \cup {""}, baseURL : Values \cup {""},
   apiKeyEnv : EnvNames \cup {""}, disabled : BOOLEAN, network : Networks \cup {""},
   target : Targets \cup {""}, image : {"", "pinned", "unpinned"}, readOnly : BOOLEAN]

MountPermission == [target : MountTargets, access : {"ro", "rw"}, required : BOOLEAN]

Contract ==
  [version : Versions, network : Networks \cup {""}, mounts : SUBSET MountPermission,
   env : SUBSET EnvNames, secrets : SUBSET EnvNames, targets : SUBSET Targets]

Host == [env : Environment, available : SUBSET Targets]

RunOptions ==
  [runtime : Targets \cup {""}, apiKey : Values \cup {Unset},
   apiKeyEnv : EnvNames \cup {""}, secrets : SUBSET EnvNames]

Capsule == [claw : Clawfile, allowlist : SUBSET EnvNames]
Container ==
  [target : Targets, network : {"none", "bridge", "host"}, mounts : Seq(MountSpec),
   env : Environment]

ASSUME AgentLaunchAssumption ==
  /\ Settings \cup KeyVariables \subseteq EnvNames /\ "" \notin EnvNames
  /\ GeminiURL \in Values
  /\ "" \notin Values /\ Unset \notin Values \cup Providers \cup {""}
  /\ WizardVariables \subseteq EnvNames
  /\ {"/vault", "/config", "/logs"} \subseteq Values \cap MountTargets
  /\ Clawfiles \subseteq Clawfile /\ NoClawfile \notin Clawfile
  /\ WizardFlags \subseteq WizardOptions /\ NoWizard \notin WizardOptions
  /\ Contracts \subseteq Contract /\ NoContract \notin Contract
  /\ NoCapsule \notin Capsule /\ NoContainer \notin Container
  /\ Hosts \subseteq Host
  /\ Options \subseteq RunOptions
  /\ HostOrder \in Seq(Targets)

VARIABLES
  claw,      \* the clawfile
  wizard,    \* history: the flags of the `wizard` that wrote it
  contract,  \* contract[s]: the contract in skill s's directory
  capsule,   \* what the last successful compile wrote: ir.json and policy.json
  promised,  \* history: the contracts that compile had checked
  asked,     \* history: flags and host of the last `run`
  container, \* what the last `run` started
  outcome    \* how the last command ended

vars == <<claw, wizard, contract, capsule, promised, asked, container, outcome>>

NoOptions == [runtime |-> "", apiKey |-> Unset, apiKeyEnv |-> "", secrets |-> {}]

Init ==
  /\ claw \in Clawfiles \cup {NoClawfile} /\ wizard = NoWizard
  /\ contract \in [Skills -> Contracts \cup {NoContract}]
  /\ claw = NoClawfile => contract = [s \in Skills |-> NoContract]
  /\ capsule = NoCapsule /\ container = NoContainer
  /\ promised = [s \in Skills |-> NoContract]
  /\ asked = [opts |-> NoOptions, host |-> [env |-> [n \in EnvNames |-> Unset],
                                            available |-> {}]]
  /\ outcome = "none"

-------------------------------------------------------------------------------
(* llm.AllowedEnvKeys and llm.Resolve: which variables, and with what in them *)

OpenAILike == {"openai_compatible", "gemini_openai"}

AllowedEnvKeys_WithoutProvider(l) ==
  {l.apiKeyEnv, "METACLAW_LLM_PROVIDER", "METACLAW_LLM_MODEL"}

AllowedEnvKeys_EveryProvider(l) ==
  IF l.provider = "" THEN {} ELSE {l.apiKeyEnv} \cup Settings \cup KeyVariables

AllowedEnvKeys(l) ==
  LET based(name) == IF l.baseURL = "" THEN {} ELSE {name} IN
  IF l.provider = "" THEN {}
  ELSE {l.apiKeyEnv, "METACLAW_LLM_PROVIDER", "METACLAW_LLM_MODEL"}
       \cup based("METACLAW_LLM_BASE_URL")
       \cup (IF l.provider \in OpenAILike
             THEN {"OPENAI_API_KEY"} \cup based("OPENAI_BASE_URL") ELSE {})
       \cup (IF l.provider = "anthropic"
             THEN {"ANTHROPIC_API_KEY"} \cup based("ANTHROPIC_BASE_URL") ELSE {})
       \cup (IF l.provider = "gemini_openai" THEN {"GEMINI_API_KEY"} ELSE {})

\* A flag with the key, a flag with the name of a host variable, the clawfile's
\* host variable, in this order; a named variable that is empty is an error.
ResolveKey(l, opts, host) ==
  IF opts.apiKey # Unset THEN opts.apiKey
  ELSE IF opts.apiKeyEnv # "" THEN host.env[opts.apiKeyEnv]
  ELSE host.env[l.apiKeyEnv]

TakesBaseURL(l, n) ==
  \/ n = "METACLAW_LLM_BASE_URL"
  \/ n = "OPENAI_BASE_URL" /\ l.provider \in OpenAILike
  \/ n = "ANTHROPIC_BASE_URL" /\ l.provider = "anthropic"

TakesKey(l, n) ==
  \/ n = l.apiKeyEnv
  \/ n = "OPENAI_API_KEY" /\ l.provider \in OpenAILike
  \/ n = "ANTHROPIC_API_KEY" /\ l.provider = "anthropic"
  \/ n = "GEMINI_API_KEY" /\ l.provider = "gemini_openai"

\* Where two assignments meet in one variable the later one of the code wins.
ResolveEnv(l, key) ==
  [n \in EnvNames |->
     IF l.provider = "" THEN Unset
     ELSE IF n = "METACLAW_LLM_PROVIDER" THEN l.provider
     ELSE IF n = "METACLAW_LLM_MODEL" THEN l.model
     ELSE IF l.baseURL # "" /\ TakesBaseURL(l, n) THEN l.baseURL
     ELSE IF TakesKey(l, n) THEN key ELSE Unset]

-------------------------------------------------------------------------------
(* validate.NormalizeAndValidate *)

NormalizeLLM(l) ==
  [l EXCEPT
     !.baseURL = IF l.provider = "gemini_openai" /\ @ = "" THEN GeminiURL ELSE @,
     !.apiKeyEnv = IF @ # "" THEN @
                   ELSE IF l.provider = "gemini_openai" THEN "GEMINI_API_KEY"
                   ELSE IF l.provider = "openai_compatible" THEN "OPENAI_API_KEY" ELSE @]

\* Every species has a pinned default image.
Normalize(c) ==
  [c EXCEPT !.llm = NormalizeLLM(@),
            !.network = IF @ = "" THEN "none" ELSE @,
            !.image = IF @ = "" THEN "pinned" ELSE @]

\* An llm section is complete or empty.
ValidLLM(l) ==
  IF l.provider = "" THEN l.model = "" /\ l.baseURL = "" /\ l.apiKeyEnv = ""
  ELSE l.model # "" /\ l.apiKeyEnv # ""

ValidMounts_AllowsDuplicates(mounts) == TRUE
ValidMounts(mounts) ==
  \A i, j \in DOMAIN mounts : mounts[i].target = mounts[j].target => i = j

Rank(network) == IF network = "all" THEN 2 ELSE IF network = "outbound" THEN 1 ELSE 0

\* The mount an agent has at a target: the last one listed.
IsMountAt(mounts, i, t) ==
  mounts[i].target = t /\ \A j \in DOMAIN mounts : j > i => mounts[j].target # t

EnvOf(env) == {n \in EnvNames : env[n] # Unset}

\* policy.Compile: the names a container of the agent may see.
Allowlist(c) == EnvOf(c.env) \cup AllowedEnvKeys(c.llm)

\* capability.ValidateAgainstAgent.
ValidateAgainstAgent(k, c) ==
  /\ Rank(k.network) <= Rank(c.network)
  /\ \A m \in k.mounts :
       /\ m.required => \E i \in DOMAIN c.mounts : c.mounts[i].target = m.target
       /\ \A i \in DOMAIN c.mounts :
            IsMountAt(c.mounts, i, m.target) /\ c.mounts[i].readOnly => m.access # "rw"
  /\ k.env \cup k.secrets \subseteq EnvOf(c.env) \cup AllowedEnvKeys(c.llm)
  /\ k.targets = {} \/ c.target \in k.targets

\* validateSkills: the contract is there, in the version the clawfile names if
\* it names one, and asks for nothing the agent does not grant.
ValidSkill(s, c) ==
  /\ contract[s] # NoContract
  /\ c.version[s] \in {"", contract[s].version}
  /\ ValidateAgainstAgent(contract[s], c)

\* The verdict on a clawfile that has its defaults.
Valid(c) ==
  /\ ValidLLM(c.llm)
  /\ c.image = "pinned"
  /\ ValidMounts(c.mounts)
  /\ \A s \in SkillsOf(c) : ValidSkill(s, c)

-------------------------------------------------------------------------------
(* wizard: the defaults once more, and a clawfile made from them *)

\* normalizeWizardLLM.  Without an LLM, nothing else about it matters.
NormalizeWizardLLM(o) ==
  IF o.disabled \/ o.provider = "none"
  THEN [provider |-> "", model |-> "", baseURL |-> "", apiKeyEnv |-> ""]
  ELSE [provider |-> o.provider, model |-> o.model,
        baseURL |-> IF o.baseURL = "" /\ o.provider = "gemini_openai" THEN GeminiURL
                    ELSE o.baseURL,
        apiKeyEnv |-> IF o.apiKeyEnv # "" THEN o.apiKeyEnv
                      ELSE IF o.provider = "gemini_openai" THEN "GEMINI_API_KEY"
                      ELSE IF o.provider = "openai_compatible" THEN "OPENAI_API_KEY" ELSE ""]

\* What the wizard refuses.  The image it takes as it is.
WizardAccepts_AnyKeyName(o) ==
  /\ o.network # ""
  /\ o.disabled \/ o.provider = "none" \/ (o.provider # "" /\ o.model # "")
WizardAccepts(o) ==
  /\ o.network # ""
  /\ \/ o.disabled \/ o.provider = "none"
     \/ o.provider # "" /\ o.model # "" /\ NormalizeWizardLLM(o).apiKeyEnv # ""

BuildWizardClawfile(o) ==
  [llm |-> NormalizeWizardLLM(o),
   env |-> [n \in EnvNames |-> IF n \in WizardVariables THEN WizardPath(n) ELSE Unset],
   network |-> o.network,
   mounts |-> <<[target |-> "/vault", readOnly |-> o.readOnly],
                [target |-> "/config", readOnly |-> TRUE],
                [target |-> "/logs", readOnly |-> FALSE]>>,
   target |-> o.target, image |-> o.image, version |-> [s \in {} |-> ""]]

-------------------------------------------------------------------------------
(* release --strict *)

\* The checks on a capsule that loads; those on the paths of mounts and of the
\* source lock hold of every well-formed path.
StrictChecks(cap) ==
  /\ cap.claw.image = "pinned"
  /\ cap.claw.network # "all"
  /\ cap.claw.llm.provider # "" => cap.claw.env[cap.claw.llm.apiKeyEnv] = Unset

-------------------------------------------------------------------------------
(* manager.Run up to InsertRun *)

\* resolver.Resolve: what was asked for and nothing else, or the first at hand.
ResolveTarget(opts, c, host, t) ==
  LET wanted == IF opts.runtime # "" THEN opts.runtime ELSE c.target IN
  /\ t \in host.available
  /\ IF wanted # "" THEN t = wanted
     ELSE \E i \in DOMAIN HostOrder :
            HostOrder[i] = t /\ \A j \in 1..(i - 1) : HostOrder[j] \notin host.available

MergeEnv_ClawfileLast(env, resolved, secret) ==
  [n \in EnvNames |-> IF env[n] # Unset THEN env[n]
                      ELSE IF secret[n] # Unset THEN secret[n] ELSE resolved[n]]
\* Secrets go over the LLM's variables, and these over the clawfile's.
MergeEnv(env, resolved, secret) ==
  [n \in EnvNames |-> IF secret[n] # Unset THEN secret[n]
                      ELSE IF resolved[n] # Unset THEN resolved[n] ELSE env[n]]

FilterEnvAllowlist(env, allowed) ==
  [n \in EnvNames |-> IF n \in allowed THEN env[n] ELSE Unset]

\* The adapters' policyFlags turn the network mode into a network.
PolicyNetwork == [none |-> "none", outbound |-> "bridge", all |-> "host"]

LLMOf(cap, opts, host) == ResolveEnv(cap.claw.llm, ResolveKey(cap.claw.llm, opts, host))
SecretsOf(opts, host) == [n \in EnvNames |-> IF n \in opts.secrets THEN host.env[n] ELSE Unset]

\* The checks in the order of the code; the first that fails ends the command.
Verdict(cap, opts, host) ==
  IF ~\E t \in Targets : ResolveTarget(opts, cap.claw, host, t) THEN "no runtime"
  ELSE IF cap.claw.llm.provider # "" /\ ResolveKey(cap.claw.llm, opts, host) = Unset THEN "no key"
  ELSE IF \E n \in opts.secrets : host.env[n] = Unset THEN "empty secret"
  ELSE IF ~(opts.secrets \subseteq cap.allowlist) THEN "secret refused"
  ELSE IF ~(EnvOf(LLMOf(cap, opts, host)) \subseteq cap.allowlist) THEN "internal error"
  ELSE "launched"

ContainerOf(cap, opts, host) ==
  [target  |-> CHOOSE t \in Targets : ResolveTarget(opts, cap.claw, host, t),
   network |-> PolicyNetwork[cap.claw.network],
   mounts  |-> cap.claw.mounts,
   env     |-> FilterEnvAllowlist(
                 MergeEnv(cap.claw.env, LLMOf(cap, opts, host), SecretsOf(opts, host)),
                 cap.allowlist)]

-------------------------------------------------------------------------------
(* The commands *)

CapsuleOf_RawPolicy(c) == [claw |-> Normalize(c), allowlist |-> Allowlist(c)]
CapsuleOf(c) == [claw |-> Normalize(c), allowlist |-> Allowlist(Normalize(c))]

\* The wizard writes a clawfile over whatever is there; so what was there does not
\* matter, nor do contracts, for its agent has no skills.
Wizard(o) ==
  /\ claw = NoClawfile
  /\ WizardAccepts(o)
  /\ claw' = BuildWizardClawfile(o) /\ wizard' = o
  /\ UNCHANGED <<contract, capsule, promised, asked, container, outcome>>

Compile ==
  /\ outcome = "none" /\ claw # NoClawfile
  /\ \/ /\ Valid(Normalize(claw))
        /\ capsule' = CapsuleOf(claw)
        /\ promised' = contract
        /\ outcome' = "compiled"
     \/ /\ ~Valid(Normalize(claw))
        /\ outcome' = "invalid"
        /\ UNCHANGED <<capsule, promised>>
  /\ UNCHANGED <<claw, wizard, contract, asked, container>>

\* `run` of the capsule's directory, on some host.  Nothing here depends on an
\* earlier `run` of the same capsule, so one is enough.
Run(opts, host) ==
  /\ capsule # NoCapsule /\ outcome = "compiled"
  /\ asked' = [opts |-> opts, host |-> host]
  /\ outcome' = Verdict(capsule, opts, host)
  /\ container' = IF outcome' = "launched" THEN ContainerOf(capsule, opts, host)
                  ELSE NoContainer
  /\ UNCHANGED <<claw, wizard, contract, capsule, promised>>

Next ==
  \/ \E o \in WizardFlags : Wizard(o)
  \/ Compile
  \/ \E opts \in Options, host \in Hosts : Run(opts, host)

Spec == Init /\ [][Next]_vars

-------------------------------------------------------------------------------
(* Safety *)

TypeOK ==
  /\ claw \in Clawfile \cup {NoClawfile} /\ wizard \in WizardOptions \cup {NoWizard}
  /\ contract \in [Skills -> Contract \cup {NoContract}]
  /\ promised \in [Skills -> Contract \cup {NoContract}]
  /\ capsule \in Capsule \cup {NoCapsule}
  /\ asked \in [opts : RunOptions, host : Host]
  /\ container \in Container \cup {NoContainer}
  /\ outcome \in {"none", "compiled", "invalid", "no runtime", "no key", "empty secret",
                  "secret refused", "internal error", "launched"}

\* "This should not happen: llm.AllowedEnvKeys is part of the allowlist
\* computation."  The variables llm.Resolve sets are listed a second time, in
\* AllowedEnvKeys, and the two lists meet in different commands.
LLMEnvAllowlisted == outcome # "internal error"

\* A container sees every variable of its policy and no other: what the clawfile
\* and its LLM section declare is there, whatever flags and host are.
AllowlistIsFilled ==
  outcome = "launched" => EnvOf(container.env) = capsule.allowlist

\* A secret comes from the host, and the LLM's key variables all hold the one
\* key that flags and host give, never a literal of the clawfile; only a secret
\* of the same name goes before, and a setting that apiKeyEnv happens to name.
KeysArrive ==
  outcome = "launched" =>
    LET l == capsule.claw.llm
        provider == IF l.provider \in OpenAILike THEN "OPENAI_API_KEY" ELSE "ANTHROPIC_API_KEY"
    IN
    /\ \A n \in asked.opts.secrets : container.env[n] = asked.host.env[n]
    /\ l.provider # "" =>
         \A n \in {l.apiKeyEnv, provider} \ (asked.opts.secrets \cup Settings) :
           container.env[n] = ResolveKey(l, asked.opts, asked.host)

\* What the container's network lets through.
Reach == [none |-> 0, bridge |-> 1, host |-> 2]

\* The contracts a compile has checked hold in every container started from the
\* capsule: network, mounts, variables and, unless --runtime says otherwise,
\* the runtime.
SkillsGetWhatTheyRequire ==
  outcome = "launched" => \A s \in SkillsOf(capsule.claw) :
    LET k == promised[s] IN
    /\ Rank(k.network) <= Reach[container.network]
    /\ \A m \in k.mounts :
         /\ m.required => \E i \in DOMAIN container.mounts : container.mounts[i].target = m.target
         /\ m.access = "rw" =>
              \A i \in DOMAIN container.mounts :
                container.mounts[i].target = m.target => ~container.mounts[i].readOnly
    /\ \A n \in k.env \cup k.secrets : container.env[n] # Unset
    /\ k.targets # {} /\ asked.opts.runtime = "" => container.target \in k.targets

\* The wizard repeats the defaults and some of the checks of validation, and of the
\* strict release.  Whatever it is asked for, the clawfile it writes compiles, if the
\* image it was given is pinned; it passes the strict checks, if it neither was asked
\* for all of the network nor to take the key from one of its own three variables;
\* and `run` as the wizard proposes it, on a host with a runtime and the key,
\* launches the agent, with that key and in the habitat the wizard was asked for.
WizardKeepsItsWord ==
  wizard # NoWizard =>
    LET l == NormalizeWizardLLM(wizard) IN
    /\ outcome = "invalid" => wizard.image = "unpinned"
    /\ capsule # NoCapsule =>
         (StrictChecks(capsule) <=>
            wizard.network # "all" /\ l.apiKeyEnv \notin WizardVariables)
    /\ /\ outcome \notin {"none", "compiled", "invalid", "no runtime"}
       /\ asked.opts.secrets = {} /\ asked.opts.apiKey = Unset
       /\ asked.opts.apiKeyEnv \in {"", l.apiKeyEnv}
       /\ l.provider # "" => asked.host.env[l.apiKeyEnv] # Unset
       => /\ outcome = "launched"
          /\ l.provider # "" /\ l.apiKeyEnv \notin Settings =>
               container.env[l.apiKeyEnv] = asked.host.env[l.apiKeyEnv]
          /\ \A n \in WizardVariables \ {l.apiKeyEnv} :
               \E i \in DOMAIN container.mounts : container.mounts[i].target = container.env[n]
===============================================================================
