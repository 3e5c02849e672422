-------------------------- MODULE AgentLaunchProofs --------------------------
(***************************************************************************)
(* For any clawfile, contracts, host and flags: a container sees exactly    *)
(* the variables of its policy, keys come from where they should, and what  *)
(* a compile checked for a skill holds in the container.                    *)
(***************************************************************************)
EXTENDS AgentLaunch, TLAPS

\* What a compile has made sure of, for as long as its capsule exists.
CapsuleInv ==
  capsule # NoCapsule =>
    /\ claw \in Clawfile /\ capsule = CapsuleOf(claw)
    /\ ValidLLM(capsule.claw.llm) /\ capsule.claw.image = "pinned"
    /\ ValidMounts(capsule.claw.mounts)
    /\ \A s \in SkillsOf(capsule.claw) :
         promised[s] # NoContract /\ ValidateAgainstAgent(promised[s], capsule.claw)

\* Where the clawfile comes from, and why a compile refuses it.
WizardInv ==
  /\ wizard # NoWizard => WizardAccepts(wizard) /\ claw = BuildWizardClawfile(wizard)
  /\ outcome = "invalid" => claw # NoClawfile /\ ~Valid(Normalize(claw))
  /\ outcome # "none" => claw # NoClawfile

\* What the last `run` has made sure of.
LaunchInv ==
  /\ outcome \notin {"none", "invalid"} => capsule # NoCapsule
  /\ outcome \notin {"none", "invalid", "compiled"} =>
       outcome = Verdict(capsule, asked.opts, asked.host)
  /\ outcome = "launched" =>
       /\ Verdict(capsule, asked.opts, asked.host) = "launched"
       /\ container = ContainerOf(capsule, asked.opts, asked.host)

IInv == TypeOK /\ CapsuleInv /\ WizardInv /\ LaunchInv

-------------------------------------------------------------------------------
(* The operators of the code *)

\* Normalization keeps the shape of a clawfile, and fills in what it has to.
LEMMA NormalizeFacts ==
  ASSUME NEW c \in Clawfile
  PROVE  /\ Normalize(c) \in Clawfile
         /\ SkillsOf(Normalize(c)) \subseteq Skills
         /\ Normalize(c).network \in Networks
         /\ Normalize(c).llm.provider = c.llm.provider
<1>1. c.llm \in LLMSpec /\ NormalizeLLM(c.llm) \in LLMSpec
  BY AgentLaunchAssumption DEF Clawfile, NormalizeLLM, LLMSpec, KeyVariables
<1>2. NormalizeLLM(c.llm).provider = c.llm.provider
  BY <1>1 DEF NormalizeLLM, LLMSpec
<1>3. Normalize(c) \in Clawfile
  BY <1>1 DEF Normalize, Clawfile, Networks
<1>4. SkillsOf(Normalize(c)) \subseteq Skills
  BY <1>3 DEF SkillsOf, Clawfile
<1>5. Normalize(c).network \in Networks /\ Normalize(c).llm.provider = c.llm.provider
  BY <1>2 DEF Normalize, Clawfile, Networks
<1> QED BY <1>3, <1>4, <1>5

\* A capsule read back is in normal form: validating it again changes nothing.
THEOREM NormalizeIdempotent ==
  ASSUME NEW c \in Clawfile PROVE Normalize(Normalize(c)) = Normalize(c)
<1>1. c.llm \in LLMSpec /\ NormalizeLLM(c.llm) \in LLMSpec
  BY AgentLaunchAssumption DEF Clawfile, NormalizeLLM, LLMSpec, KeyVariables
<1>2. NormalizeLLM(NormalizeLLM(c.llm)) = NormalizeLLM(c.llm)
  BY <1>1, AgentLaunchAssumption DEF NormalizeLLM, LLMSpec
<1>3. Normalize(c) \in Clawfile
  BY NormalizeFacts
<1> QED BY <1>1, <1>2, <1>3 DEF Normalize, Clawfile

\* The two lists of the LLM's variables, in Resolve and in AllowedEnvKeys, agree.
THEOREM ResolveMatchesAllowlist ==
  ASSUME NEW l \in LLMSpec, ValidLLM(l), NEW key, l.provider # "" => key \in Values \cup Providers
  PROVE  /\ EnvOf(ResolveEnv(l, key)) = AllowedEnvKeys(l)
         /\ ResolveEnv(l, key) \in Environment
<1>1. CASE l.provider = ""
  BY <1>1 DEF EnvOf, ResolveEnv, AllowedEnvKeys, Environment
<1>2. CASE l.provider # ""
  <2>1. key # Unset /\ l.model # Unset /\ l.baseURL # Unset /\ l.provider # Unset
    BY <1>2, AgentLaunchAssumption DEF LLMSpec
  <2>2. l.apiKeyEnv \in EnvNames /\ l.model \in Values /\ l.provider \in Providers
    BY <1>2 DEF ValidLLM, LLMSpec
  <2>3. Settings \cup KeyVariables \subseteq EnvNames
    BY AgentLaunchAssumption
  <2>4. ASSUME NEW n \in EnvNames
        PROVE  ResolveEnv(l, key)[n] # Unset <=> n \in AllowedEnvKeys(l)
    BY <1>2, <2>1 DEF ResolveEnv, TakesBaseURL, TakesKey, AllowedEnvKeys
  <2>5. AllowedEnvKeys(l) \subseteq EnvNames
    BY <2>2, <2>3 DEF AllowedEnvKeys, Settings, KeyVariables
  <2>6. ResolveEnv(l, key) \in Environment
    BY <1>2, <2>2 DEF ResolveEnv, Environment, LLMSpec
  <2> QED BY <2>4, <2>5, <2>6 DEF EnvOf
<1> QED BY <1>1, <1>2

\* An environment merged from clawfile, LLM and secrets sets what one of them sets.
LEMMA MergeFacts ==
  ASSUME NEW a \in Environment, NEW b \in Environment, NEW c \in Environment
  PROVE  /\ MergeEnv(a, b, c) \in Environment
         /\ EnvOf(MergeEnv(a, b, c)) = EnvOf(a) \cup EnvOf(b) \cup EnvOf(c)
BY DEF MergeEnv, Environment, EnvOf

\* What the flags of a `run` that goes through amount to.
LEMMA LaunchFacts ==
  ASSUME NEW cap \in Capsule, NEW opts \in RunOptions, NEW host \in Host,
         ValidLLM(cap.claw.llm), cap.allowlist = Allowlist(cap.claw)
  PROVE  /\ Verdict(cap, opts, host) # "internal error"
         /\ Verdict(cap, opts, host) = "launched" =>
              /\ ContainerOf(cap, opts, host).target \in Targets
              /\ ResolveTarget(opts, cap.claw, host, ContainerOf(cap, opts, host).target)
              /\ LLMOf(cap, opts, host) \in Environment
              /\ EnvOf(LLMOf(cap, opts, host)) = AllowedEnvKeys(cap.claw.llm)
              /\ SecretsOf(opts, host) \in Environment
              /\ EnvOf(SecretsOf(opts, host)) = opts.secrets
              /\ opts.secrets \subseteq cap.allowlist
              /\ cap.claw.llm.provider # "" =>
                   ResolveKey(cap.claw.llm, opts, host) \in Values \cup Providers
<1> DEFINE l == cap.claw.llm
           key == ResolveKey(l, opts, host)
           refused == \/ ~\E t \in Targets : ResolveTarget(opts, cap.claw, host, t)
                      \/ l.provider # "" /\ key = Unset
                      \/ \E n \in opts.secrets : host.env[n] = Unset
                      \/ ~(opts.secrets \subseteq cap.allowlist)
<1>1. cap.claw \in Clawfile /\ l \in LLMSpec /\ cap.claw.env \in Environment
  BY DEF Capsule, Clawfile
<1>2. ASSUME ~refused PROVE l.provider # "" => key \in Values \cup Providers
  <2>1. opts.apiKey \in Values \cup {Unset} /\ opts.apiKeyEnv \in EnvNames \cup {""}
    BY DEF RunOptions
  <2>2. l.provider # "" => l.apiKeyEnv \in EnvNames
    BY <1>1 DEF ValidLLM, LLMSpec
  <2>3. host.env \in Environment
    BY DEF Host
  <2> QED BY <1>2, <2>1, <2>2, <2>3 DEF ResolveKey, Environment
<1>3. ASSUME ~refused
      PROVE  EnvOf(LLMOf(cap, opts, host)) = AllowedEnvKeys(l) /\ LLMOf(cap, opts, host) \in Environment
  BY <1>1, <1>2, <1>3, ResolveMatchesAllowlist DEF LLMOf
<1>4. ASSUME ~refused PROVE EnvOf(LLMOf(cap, opts, host)) \subseteq cap.allowlist
  BY <1>3, <1>4 DEF Allowlist
<1>5. Verdict(cap, opts, host) # "internal error"
  BY <1>4 DEF Verdict
<1>6. ASSUME Verdict(cap, opts, host) = "launched"
      PROVE  /\ ~refused
             /\ ContainerOf(cap, opts, host).target \in Targets
             /\ ResolveTarget(opts, cap.claw, host, ContainerOf(cap, opts, host).target)
  <2>1. ~refused
    BY <1>6 DEF Verdict
  <2>2. \E t \in Targets : ResolveTarget(opts, cap.claw, host, t)
    BY <2>1
  <2>3. ContainerOf(cap, opts, host).target =
          CHOOSE t \in Targets : ResolveTarget(opts, cap.claw, host, t)
    BY DEF ContainerOf
  <2> HIDE DEF refused
  <2> QED BY <2>1, <2>2, <2>3
<1>7. ASSUME ~refused
      PROVE  /\ SecretsOf(opts, host) \in Environment
             /\ EnvOf(SecretsOf(opts, host)) = opts.secrets
  <2>1. host.env \in Environment /\ opts.secrets \subseteq EnvNames
    BY DEF Host, RunOptions
  <2> QED BY <1>7, <2>1 DEF SecretsOf, EnvOf, Environment
<1> QED BY <1>2, <1>3, <1>5, <1>6, <1>7

-------------------------------------------------------------------------------
(* The invariant *)

\* What the wizard writes is a clawfile, without skills.
LEMMA WizardType ==
  ASSUME NEW o \in WizardOptions, WizardAccepts(o)
  PROVE  BuildWizardClawfile(o) \in Clawfile /\ SkillsOf(BuildWizardClawfile(o)) = {}
<1> DEFINE c == BuildWizardClawfile(o)
           env == [n \in EnvNames |-> IF n \in WizardVariables THEN WizardPath(n) ELSE Unset]
           mounts == <<[target |-> "/vault", readOnly |-> o.readOnly],
                       [target |-> "/config", readOnly |-> TRUE],
                       [target |-> "/logs", readOnly |-> FALSE]>>
           version == [s \in {} |-> ""]
<1>1. NormalizeWizardLLM(o) \in LLMSpec
  BY AgentLaunchAssumption DEF NormalizeWizardLLM, WizardAccepts, WizardOptions, LLMSpec, KeyVariables
<1>2. env \in Environment
  <2>1. \A n \in WizardVariables : WizardPath(n) \in Values
    BY AgentLaunchAssumption DEF WizardPath
  <2> QED BY <2>1 DEF Environment
<1>3. mounts \in Seq(MountSpec)
  <2>1. \A t \in {"/vault", "/config", "/logs"}, r \in BOOLEAN :
          [target |-> t, readOnly |-> r] \in MountSpec
    BY AgentLaunchAssumption DEF MountSpec
  <2>2. ASSUME NEW S, NEW x \in S, NEW y \in S, NEW z \in S PROVE <<x, y, z>> \in Seq(S)
    OBVIOUS
  <2>3. o.readOnly \in BOOLEAN
    BY DEF WizardOptions
  <2> QED BY <2>1, <2>2, <2>3
<1>4. version \in UNION {[S -> Versions \cup {""}] : S \in SUBSET Skills} /\ DOMAIN version = {}
  <2>1. version \in [{} -> Versions \cup {""}]
    OBVIOUS
  <2> QED BY <2>1
<1>5. o.network \in Networks \cup {""} /\ o.target \in Targets \cup {""}
      /\ o.image \in {"", "pinned", "unpinned"}
  BY DEF WizardOptions
<1>6. c = [llm |-> NormalizeWizardLLM(o), env |-> env, network |-> o.network,
           mounts |-> mounts, target |-> o.target, image |-> o.image, version |-> version]
  BY DEF BuildWizardClawfile
<1> HIDE DEF c, env, mounts, version
<1>7. c \in Clawfile
  BY <1>1, <1>2, <1>3, <1>4, <1>5, <1>6 DEF Clawfile
<1>8. SkillsOf(c) = {}
  BY <1>4, <1>6 DEF SkillsOf
<1> QED BY <1>7, <1>8 DEF c

LEMMA WizardStep ==
  ASSUME IInv, NEW o \in WizardFlags, Wizard(o) PROVE IInv'
<1>1. /\ claw = NoClawfile /\ claw' = BuildWizardClawfile(o) /\ wizard' = o /\ WizardAccepts(o)
      /\ UNCHANGED <<contract, capsule, promised, asked, container, outcome>>
  BY DEF Wizard
<1>2. o \in WizardOptions /\ claw' \in Clawfile /\ capsule = NoCapsule /\ outcome = "none"
  BY <1>1, AgentLaunchAssumption, WizardType DEF IInv, CapsuleInv, WizardInv
<1>3. TypeOK'
  BY <1>1, <1>2 DEF IInv, TypeOK
<1>4. CapsuleInv' /\ LaunchInv'
  BY <1>1, <1>2 DEF IInv, CapsuleInv, LaunchInv
<1>5. WizardInv'
  BY <1>1, <1>2, AgentLaunchAssumption DEF WizardInv
<1> QED BY <1>3, <1>4, <1>5 DEF IInv

LEMMA CompileStep == IInv /\ Compile => IInv'
<1> SUFFICES ASSUME IInv, Compile PROVE IInv'
  OBVIOUS
<1>1. /\ UNCHANGED <<claw, wizard, contract, asked, container>>
      /\ claw \in Clawfile /\ claw # NoClawfile
  BY AgentLaunchAssumption DEF Compile, IInv, TypeOK
<1>2. CASE ~Valid(Normalize(claw)) /\ outcome' = "invalid" /\ UNCHANGED <<capsule, promised>>
  <2>1. TypeOK'
    BY <1>1, <1>2 DEF IInv, TypeOK
  <2>2. CapsuleInv' /\ LaunchInv'
    BY <1>1, <1>2 DEF IInv, CapsuleInv, LaunchInv
  <2>3. WizardInv'
    <3>1. Valid(Normalize(claw))' = Valid(Normalize(claw))
      BY <1>1 DEF Valid, ValidSkill, SkillsOf, Normalize, NormalizeLLM
    <3> QED BY <1>1, <1>2, <3>1 DEF IInv, WizardInv
  <2> QED BY <2>1, <2>2, <2>3 DEF IInv
<1>3. CASE /\ Valid(Normalize(claw)) /\ capsule' = CapsuleOf(claw)
           /\ promised' = contract /\ outcome' = "compiled"
  <2>1. Normalize(claw) \in Clawfile
    BY <1>1, NormalizeFacts
  <2>2. /\ ValidLLM(Normalize(claw).llm) /\ Normalize(claw).image = "pinned"
        /\ ValidMounts(Normalize(claw).mounts)
    BY <1>3 DEF Valid
  <2>3. \A s \in SkillsOf(Normalize(claw)) :
          contract[s] # NoContract /\ ValidateAgainstAgent(contract[s], Normalize(claw))
    BY <1>3 DEF Valid, ValidSkill
  <2>4. AllowedEnvKeys(Normalize(claw).llm) \subseteq EnvNames
    <3>1. Normalize(claw).llm \in LLMSpec
      BY <2>1 DEF Clawfile
    <3> QED BY <3>1, <2>2, AgentLaunchAssumption
            DEF AllowedEnvKeys, ValidLLM, LLMSpec, Settings, KeyVariables
  <2>5. CapsuleOf(claw) \in Capsule /\ CapsuleOf(claw).claw = Normalize(claw)
    BY <2>1, <2>4 DEF CapsuleOf, Capsule, Allowlist, EnvOf
  <2>6. TypeOK'
    BY <1>1, <1>3, <2>5 DEF IInv, TypeOK
  <2>7. CapsuleInv'
    BY <1>1, <1>3, <2>2, <2>3, <2>5 DEF CapsuleInv
  <2>8. capsule' # NoCapsule
    BY <1>3, <2>5, AgentLaunchAssumption
  <2>9. LaunchInv' /\ WizardInv'
    BY <1>1, <1>3, <2>8 DEF IInv, LaunchInv, WizardInv
  <2> QED BY <2>6, <2>7, <2>9 DEF IInv
<1> QED BY <1>2, <1>3 DEF Compile

\* A container started from a capsule has the shape of one.
LEMMA ContainerType ==
  ASSUME NEW cap \in Capsule, NEW opts \in RunOptions, NEW host \in Host,
         ValidLLM(cap.claw.llm), cap.allowlist = Allowlist(cap.claw),
         cap.claw.network \in Networks, Verdict(cap, opts, host) = "launched"
  PROVE  ContainerOf(cap, opts, host) \in Container
<1>1. /\ ContainerOf(cap, opts, host).target \in Targets
      /\ LLMOf(cap, opts, host) \in Environment
      /\ SecretsOf(opts, host) \in Environment
  BY LaunchFacts
<1>2. cap.claw.env \in Environment /\ cap.claw.mounts \in Seq(MountSpec)
  BY DEF Capsule, Clawfile
<1>3. ContainerOf(cap, opts, host).env \in Environment
  <2> DEFINE merged == MergeEnv(cap.claw.env, LLMOf(cap, opts, host), SecretsOf(opts, host))
  <2>1. merged \in Environment
    BY <1>1, <1>2, MergeFacts
  <2> HIDE DEF merged
  <2>2. FilterEnvAllowlist(merged, cap.allowlist) \in Environment
    BY <2>1 DEF FilterEnvAllowlist, Environment
  <2> QED BY <2>2 DEF ContainerOf, merged
<1>4. PolicyNetwork[cap.claw.network] \in {"none", "bridge", "host"}
  BY DEF PolicyNetwork, Networks
<1> QED BY <1>1, <1>2, <1>3, <1>4 DEF ContainerOf, Container

LEMMA RunStep ==
  ASSUME IInv, NEW opts \in Options, NEW host \in Hosts, Run(opts, host) PROVE IInv'
<1>1. /\ UNCHANGED <<claw, wizard, contract, capsule, promised>> /\ capsule # NoCapsule
      /\ asked' = [opts |-> opts, host |-> host]
      /\ outcome' = Verdict(capsule, opts, host)
      /\ container' = IF outcome' = "launched" THEN ContainerOf(capsule, opts, host)
                      ELSE NoContainer
  BY DEF Run
<1>2. opts \in RunOptions /\ host \in Host /\ capsule \in Capsule /\ claw \in Clawfile
  BY <1>1, AgentLaunchAssumption DEF IInv, TypeOK, CapsuleInv
<1>3. capsule.allowlist = Allowlist(capsule.claw) /\ capsule.claw = Normalize(claw)
  BY <1>1 DEF IInv, CapsuleInv, CapsuleOf
<1>4. ValidLLM(capsule.claw.llm) /\ capsule.claw.network \in Networks
  BY <1>1, <1>2, <1>3, NormalizeFacts DEF IInv, CapsuleInv
<1>5. asked'.opts = opts /\ asked'.host = host
  BY <1>1
<1>6. TypeOK'
  <2>1. asked' \in [opts : RunOptions, host : Host]
    BY <1>1, <1>2
  <2>2. container' \in Container \cup {NoContainer}
    BY <1>1, <1>2, <1>3, <1>4, ContainerType
  <2>3. outcome' \in {"no runtime", "no key", "empty secret", "secret refused",
                      "internal error", "launched"}
    BY <1>1 DEF Verdict
  <2> QED BY <1>1, <2>1, <2>2, <2>3 DEF IInv, TypeOK
<1>7. CapsuleInv'
  BY <1>1 DEF IInv, CapsuleInv
<1>8. LaunchInv'
  <2>1. outcome' = "launched" => container' = ContainerOf(capsule', asked'.opts, asked'.host)
    BY <1>1, <1>5
  <2>2. outcome' = "launched" => Verdict(capsule', asked'.opts, asked'.host) = "launched"
    BY <1>1, <1>5
  <2>3. outcome' = Verdict(capsule', asked'.opts, asked'.host)
    BY <1>1, <1>5
  <2> QED BY <1>1, <2>1, <2>2, <2>3 DEF LaunchInv
<1>9. WizardInv'
  <2>1. outcome' # "invalid"
    BY <1>1 DEF Verdict
  <2>2. claw # NoClawfile
    BY <1>2, AgentLaunchAssumption
  <2> QED BY <1>1, <2>1, <2>2 DEF IInv, WizardInv
<1> QED BY <1>6, <1>7, <1>8, <1>9 DEF IInv

\* The invariant holds at the start and is inductive.
THEOREM Inductive == Spec => []IInv
<1>1. Init => IInv
  <2> SUFFICES ASSUME Init PROVE IInv
    OBVIOUS
  <2>1. NoOptions \in RunOptions
    BY DEF NoOptions, RunOptions
  <2>2. [env |-> [n \in EnvNames |-> Unset], available |-> {}] \in Host
    BY DEF Host, Environment
  <2>3. asked \in [opts : RunOptions, host : Host]
    BY <2>1, <2>2 DEF Init
  <2>4. contract \in [Skills -> Contract \cup {NoContract}]
    BY AgentLaunchAssumption DEF Init
  <2>5. TypeOK
    BY <2>3, <2>4, AgentLaunchAssumption DEF Init, TypeOK
  <2>6. CapsuleInv /\ LaunchInv /\ WizardInv
    BY DEF Init, CapsuleInv, LaunchInv, WizardInv
  <2> QED BY <2>5, <2>6 DEF IInv
<1>2. IInv /\ [Next]_vars => IInv'
  <2> SUFFICES ASSUME IInv, [Next]_vars PROVE IInv'
    OBVIOUS
  <2>1. CASE UNCHANGED vars
    <3>1. TypeOK' /\ CapsuleInv'
      BY <2>1 DEF vars, IInv, TypeOK, CapsuleInv
    <3>2. LaunchInv'
      BY <2>1 DEF vars, IInv, LaunchInv
    <3>3. WizardInv'
      <4>1. Valid(Normalize(claw))' = Valid(Normalize(claw))
        BY <2>1 DEF vars, Valid, ValidSkill, SkillsOf, Normalize, NormalizeLLM
      <4> QED BY <2>1, <4>1 DEF vars, IInv, WizardInv
    <3> QED BY <3>1, <3>2, <3>3 DEF IInv
  <2> QED BY <2>1, WizardStep, CompileStep, RunStep DEF Next
<1> QED BY <1>1, <1>2, PTL DEF Spec

\* Every variable keeps its type.
THEOREM TypeCorrect == Spec => []TypeOK
<1>1. IInv => TypeOK
  BY DEF IInv
<1> QED BY Inductive, <1>1, PTL

-------------------------------------------------------------------------------
(* What follows *)

\* A launched container, in the terms of the command that started it.
LEMMA Launched ==
  ASSUME IInv, outcome = "launched"
  PROVE  /\ capsule \in Capsule /\ asked.opts \in RunOptions /\ asked.host \in Host
         /\ capsule.allowlist = Allowlist(capsule.claw)
         /\ ValidLLM(capsule.claw.llm)
         /\ Verdict(capsule, asked.opts, asked.host) = "launched"
         /\ container = ContainerOf(capsule, asked.opts, asked.host)
<1>1. capsule # NoCapsule
  BY DEF IInv, LaunchInv
<1>2. capsule \in Capsule /\ asked.opts \in RunOptions /\ asked.host \in Host
  BY <1>1 DEF IInv, TypeOK
<1>3. capsule.allowlist = Allowlist(capsule.claw) /\ ValidLLM(capsule.claw.llm)
  BY <1>1 DEF IInv, CapsuleInv, CapsuleOf
<1> QED BY <1>2, <1>3 DEF IInv, LaunchInv

\* The variables of a launched container, by where they come from.
LEMMA LaunchedEnv ==
  ASSUME IInv, outcome = "launched"
  PROVE  /\ EnvOf(container.env) = capsule.allowlist
         /\ \A n \in EnvNames :
              LET secret == SecretsOf(asked.opts, asked.host)[n]
                  resolved == LLMOf(capsule, asked.opts, asked.host)[n] IN
              n \in capsule.allowlist =>
                container.env[n] = IF secret # Unset THEN secret
                                   ELSE IF resolved # Unset THEN resolved
                                   ELSE capsule.claw.env[n]
<1> DEFINE resolved == LLMOf(capsule, asked.opts, asked.host)
           secret == SecretsOf(asked.opts, asked.host)
           merged == MergeEnv(capsule.claw.env, resolved, secret)
<1>1. /\ resolved \in Environment /\ EnvOf(resolved) = AllowedEnvKeys(capsule.claw.llm)
      /\ secret \in Environment /\ EnvOf(secret) = asked.opts.secrets
      /\ asked.opts.secrets \subseteq capsule.allowlist
  BY Launched, LaunchFacts
<1>2. capsule.claw.env \in Environment /\ capsule.allowlist \subseteq EnvNames
  BY Launched DEF Capsule, Clawfile
<1>3. EnvOf(merged) = capsule.allowlist
  <2> HIDE DEF resolved, secret
  <2>1. EnvOf(merged) = EnvOf(capsule.claw.env) \cup EnvOf(resolved) \cup EnvOf(secret)
    BY <1>1, <1>2, MergeFacts
  <2>2. capsule.allowlist = EnvOf(capsule.claw.env) \cup AllowedEnvKeys(capsule.claw.llm)
    BY Launched DEF Allowlist
  <2> HIDE DEF merged
  <2> QED BY <1>1, <2>1, <2>2
<1>4. container.env = FilterEnvAllowlist(merged, capsule.allowlist)
  BY Launched DEF ContainerOf
<1>5. \A n \in EnvNames : n \in capsule.allowlist => container.env[n] = merged[n]
  BY <1>4 DEF FilterEnvAllowlist
<1>6. \A n \in EnvNames : n \notin capsule.allowlist => container.env[n] = Unset
  BY <1>4 DEF FilterEnvAllowlist
<1>7. \A n \in EnvNames : merged[n] = IF secret[n] # Unset THEN secret[n]
                                      ELSE IF resolved[n] # Unset THEN resolved[n]
                                      ELSE capsule.claw.env[n]
  BY DEF MergeEnv
<1> HIDE DEF merged, resolved, secret
<1>8. EnvOf(container.env) = capsule.allowlist
  BY <1>2, <1>3, <1>5, <1>6 DEF EnvOf
<1> QED BY <1>5, <1>7, <1>8 DEF resolved, secret

\* The error the code calls impossible is impossible.
THEOREM LLMEnvIsAllowlisted == Spec => []LLMEnvAllowlisted
<1>1. IInv /\ Next => outcome' # "internal error"
  <2> SUFFICES ASSUME IInv, Next PROVE outcome' # "internal error"
    OBVIOUS
  <2>0. ASSUME NEW o \in WizardFlags, Wizard(o) PROVE outcome' # "internal error"
    BY <2>0 DEF Wizard, IInv, WizardInv, TypeOK
  <2>1. CASE Compile
    BY <2>1 DEF Compile
  <2>2. ASSUME NEW opts \in Options, NEW host \in Hosts, Run(opts, host)
        PROVE  outcome' # "internal error"
    <3>1. capsule # NoCapsule /\ outcome' = Verdict(capsule, opts, host)
      BY <2>2 DEF Run
    <3>2. opts \in RunOptions /\ host \in Host /\ capsule \in Capsule
      BY <3>1, AgentLaunchAssumption DEF IInv, TypeOK
    <3>3. capsule.allowlist = Allowlist(capsule.claw) /\ ValidLLM(capsule.claw.llm)
      BY <3>1 DEF IInv, CapsuleInv, CapsuleOf
    <3> QED BY <3>1, <3>2, <3>3, LaunchFacts
  <2> QED BY <2>0, <2>1, <2>2 DEF Next
<1>2. Init => LLMEnvAllowlisted
  BY DEF Init, LLMEnvAllowlisted
<1>3. IInv /\ LLMEnvAllowlisted /\ [Next]_vars => LLMEnvAllowlisted'
  BY <1>1 DEF LLMEnvAllowlisted, vars
<1> QED BY Inductive, <1>2, <1>3, PTL DEF Spec

\* A container sees the variables of its policy, all of them and no other.
THEOREM AllowlistFilled == Spec => []AllowlistIsFilled
<1>1. IInv => AllowlistIsFilled
  BY LaunchedEnv DEF AllowlistIsFilled
<1> QED BY Inductive, <1>1, PTL

LEMMA KeysArriveHere == IInv => KeysArrive
<1>1. ASSUME IInv, outcome = "launched", NEW n \in asked.opts.secrets
      PROVE  container.env[n] = asked.host.env[n]
  <2>1. /\ n \in EnvNames /\ n \in capsule.allowlist
        /\ n \in EnvOf(SecretsOf(asked.opts, asked.host))
    BY <1>1, Launched, LaunchFacts DEF RunOptions
  <2>2. SecretsOf(asked.opts, asked.host)[n] = asked.host.env[n]
    BY <2>1, <1>1 DEF SecretsOf
  <2>3. SecretsOf(asked.opts, asked.host)[n] # Unset
    BY <2>1 DEF EnvOf
  <2> QED BY <1>1, <2>1, <2>2, <2>3, LaunchedEnv
<1>2. ASSUME IInv, outcome = "launched", NEW n, n \notin asked.opts.secrets, n \notin Settings,
             capsule.claw.llm.provider # "",
             \/ n = capsule.claw.llm.apiKeyEnv
             \/ n = IF capsule.claw.llm.provider \in OpenAILike THEN "OPENAI_API_KEY"
                    ELSE "ANTHROPIC_API_KEY"
      PROVE  container.env[n] = ResolveKey(capsule.claw.llm, asked.opts, asked.host)
  <2> DEFINE l == capsule.claw.llm
             key == ResolveKey(l, asked.opts, asked.host)
  <2>1. /\ l \in LLMSpec /\ ValidLLM(l) /\ key \in Values \cup Providers
        /\ capsule.allowlist = EnvOf(capsule.claw.env) \cup AllowedEnvKeys(l)
    BY <1>1, <1>2, Launched, LaunchFacts DEF Capsule, Clawfile, Allowlist
  <2>2. TakesKey(l, n) /\ n \in EnvNames
    <3>1. l.apiKeyEnv \in EnvNames /\ l.provider \in Providers
      BY <2>1, <1>2 DEF ValidLLM, LLMSpec
    <3>2. KeyVariables \subseteq EnvNames
      BY AgentLaunchAssumption
    <3> QED BY <1>2, <3>1, <3>2 DEF TakesKey, KeyVariables, OpenAILike, Providers
  <2>3. ~TakesBaseURL(l, n)
    BY <1>2 DEF TakesBaseURL, Settings
  <2>4. LLMOf(capsule, asked.opts, asked.host)[n] = key
    <3> HIDE DEF key
    <3>1. ResolveEnv(l, key)[n] = key
      BY <1>2, <2>2, <2>3 DEF ResolveEnv, Settings
    <3> QED BY <3>1 DEF LLMOf, key
  <2>5. n \in capsule.allowlist
    BY <2>2, <1>2, <2>1 DEF TakesKey, AllowedEnvKeys
  <2>6. SecretsOf(asked.opts, asked.host)[n] = Unset
    BY <1>2, <2>2 DEF SecretsOf
  <2>7. key # Unset
    BY <2>1, AgentLaunchAssumption
  <2> HIDE DEF key, l
  <2>8. container.env[n] = key
    BY <1>2, <2>2, <2>4, <2>5, <2>6, <2>7, LaunchedEnv
  <2> QED BY <2>8 DEF key, l
<1> QED BY <1>1, <1>2 DEF KeysArrive

\* Secrets come from the host, the LLM's key from flags and host.
THEOREM KeysAlwaysArrive == Spec => []KeysArrive
BY Inductive, KeysArriveHere, PTL

\* What a compile has checked for a skill holds in every container.
THEOREM SkillsAreServed == Spec => []SkillsGetWhatTheyRequire
<1>1. IInv => SkillsGetWhatTheyRequire
  <2> SUFFICES ASSUME IInv, outcome = "launched",
                      NEW s \in SkillsOf(capsule.claw)
               PROVE  LET k == promised[s] IN
                 /\ Rank(k.network) <= Reach[container.network]
                 /\ \A m \in k.mounts :
                      /\ m.required =>
                           \E i \in DOMAIN container.mounts :
                             container.mounts[i].target = m.target
                      /\ m.access = "rw" =>
                           \A i \in DOMAIN container.mounts :
                             container.mounts[i].target = m.target =>
                               ~container.mounts[i].readOnly
                 /\ \A n \in k.env \cup k.secrets : container.env[n] # Unset
                 /\ k.targets # {} /\ asked.opts.runtime = "" => container.target \in k.targets
    BY DEF SkillsGetWhatTheyRequire
  <2> DEFINE k == promised[s]
             c == capsule.claw
  <2>1. /\ k \in Contract /\ ValidateAgainstAgent(k, c) /\ ValidMounts(c.mounts)
        /\ c \in Clawfile /\ c.network \in Networks
    <3>1. capsule # NoCapsule
      BY DEF IInv, LaunchInv
    <3>2. promised[s] # NoContract /\ ValidateAgainstAgent(k, c) /\ ValidMounts(c.mounts)
      BY <3>1 DEF IInv, CapsuleInv
    <3>3. c = Normalize(claw) /\ claw \in Clawfile
      BY <3>1 DEF IInv, CapsuleInv, CapsuleOf
    <3>4. s \in Skills
      BY <3>3, NormalizeFacts
    <3> QED BY <3>2, <3>3, <3>4, NormalizeFacts DEF IInv, TypeOK
  <2>2. /\ container.network = PolicyNetwork[c.network] /\ container.mounts = c.mounts
        /\ ResolveTarget(asked.opts, c, asked.host, container.target)
    <3>1. container = ContainerOf(capsule, asked.opts, asked.host)
      BY Launched
    <3>2. ResolveTarget(asked.opts, c, asked.host,
                        ContainerOf(capsule, asked.opts, asked.host).target)
      BY Launched, LaunchFacts
    <3>3. /\ container.network = PolicyNetwork[c.network]
          /\ container.mounts = c.mounts
      BY <3>1 DEF ContainerOf
    <3> QED BY <3>1, <3>2, <3>3
  <2>3. Rank(k.network) <= Reach[container.network]
    <3>1. Rank(c.network) = Reach[PolicyNetwork[c.network]]
      BY <2>1 DEF Rank, Reach, PolicyNetwork, Networks
    <3> QED BY <2>1, <2>2, <3>1 DEF ValidateAgainstAgent
  <2>4. ASSUME NEW m \in k.mounts, m.required
        PROVE  \E i \in DOMAIN container.mounts : container.mounts[i].target = m.target
    BY <2>1, <2>2, <2>4 DEF ValidateAgainstAgent
  <2>5. ASSUME NEW m \in k.mounts, m.access = "rw", NEW i \in DOMAIN container.mounts,
               container.mounts[i].target = m.target
        PROVE  ~container.mounts[i].readOnly
    <3>1. DOMAIN c.mounts \subseteq Nat
      <4>1. c.mounts \in Seq(MountSpec)
        BY <2>1 DEF Clawfile
      <4> HIDE DEF c
      <4>2. DOMAIN c.mounts = 1..Len(c.mounts) /\ Len(c.mounts) \in Nat
        BY <4>1
      <4> QED BY <4>2
    <3>2. IsMountAt(c.mounts, i, m.target)
      BY <2>1, <2>2, <2>5, <3>1 DEF IsMountAt, ValidMounts
    <3> QED BY <2>1, <2>2, <2>5, <3>2 DEF ValidateAgainstAgent
  <2>6. ASSUME NEW n \in k.env \cup k.secrets PROVE container.env[n] # Unset
    <3>1. k.env \cup k.secrets \subseteq capsule.allowlist
      BY <2>1, Launched DEF ValidateAgainstAgent, Allowlist
    <3> QED BY <3>1, LaunchedEnv DEF EnvOf
  <2>7. ASSUME k.targets # {}, asked.opts.runtime = "" PROVE container.target \in k.targets
    <3>1. c.target \in k.targets /\ c.target # ""
      BY <2>1, <2>7 DEF ValidateAgainstAgent, Contract, Targets
    <3> QED BY <2>2, <2>7, <3>1 DEF ResolveTarget
  <2> HIDE DEF k
  <2>8. /\ Rank(k.network) <= Reach[container.network]
        /\ \A m \in k.mounts :
             /\ m.required =>
                  \E i \in DOMAIN container.mounts : container.mounts[i].target = m.target
             /\ m.access = "rw" =>
                  \A i \in DOMAIN container.mounts :
                    container.mounts[i].target = m.target => ~container.mounts[i].readOnly
        /\ \A n \in k.env \cup k.secrets : container.env[n] # Unset
        /\ k.targets # {} /\ asked.opts.runtime = "" => container.target \in k.targets
    BY <2>3, <2>4, <2>5, <2>6, <2>7
  <2> QED BY <2>8 DEF k
<1> QED BY Inductive, <1>1, PTL

\* What validation makes of a clawfile by the wizard: both have the same defaults,
\* so only the image can change.
LEMMA WizardClawfile ==
  ASSUME NEW o \in WizardOptions, WizardAccepts(o)
  PROVE  LET c == Normalize(BuildWizardClawfile(o)) IN
         /\ c.llm = NormalizeWizardLLM(o) /\ ValidLLM(c.llm)
         /\ c.network = o.network /\ c.network # ""
         /\ c.mounts = BuildWizardClawfile(o).mounts
         /\ c.env = BuildWizardClawfile(o).env
         /\ c.image = IF o.image = "" THEN "pinned" ELSE o.image
         /\ SkillsOf(c) = {}
<1> DEFINE b == BuildWizardClawfile(o)
           l == NormalizeWizardLLM(o)
<1>1. b \in Clawfile /\ SkillsOf(b) = {}
  BY WizardType
<1>2. b.llm = l /\ b.network = o.network /\ b.network # "" /\ b.image = o.image
  BY DEF BuildWizardClawfile, WizardAccepts
<1>3. l \in LLMSpec
  BY <1>1, <1>2 DEF Clawfile
<1>4. ValidLLM(l) /\ NormalizeLLM(l) = l
  <2>1. CASE o.disabled \/ o.provider = "none"
    <3>1. l.provider = "" /\ l.model = "" /\ l.baseURL = "" /\ l.apiKeyEnv = ""
      BY <2>1 DEF NormalizeWizardLLM
    <3> HIDE DEF l
    <3>2. NormalizeLLM(l) = l
      BY <1>3, <3>1 DEF NormalizeLLM, LLMSpec
    <3> QED BY <3>1, <3>2 DEF ValidLLM
  <2>2. CASE ~(o.disabled \/ o.provider = "none")
    <3>1. /\ l.provider = o.provider /\ l.model = o.model /\ l.apiKeyEnv # ""
          /\ l.provider # "" /\ l.model # ""
          /\ l.provider = "gemini_openai" => l.baseURL # ""
      BY <2>2, AgentLaunchAssumption DEF NormalizeWizardLLM, WizardAccepts
    <3> HIDE DEF l
    <3>2. NormalizeLLM(l) = l
      BY <1>3, <3>1 DEF NormalizeLLM, LLMSpec
    <3> QED BY <3>1, <3>2 DEF ValidLLM
  <2> QED BY <2>1, <2>2
<1> HIDE DEF b, l
<1>5. /\ Normalize(b).llm = l /\ Normalize(b).network = o.network
      /\ Normalize(b).mounts = b.mounts /\ Normalize(b).env = b.env
      /\ Normalize(b).image = IF o.image = "" THEN "pinned" ELSE o.image
      /\ SkillsOf(Normalize(b)) = {}
  BY <1>1, <1>2, <1>4 DEF Normalize, Clawfile, SkillsOf
<1> QED BY <1>2, <1>4, <1>5 DEF b, l

\* The three mounts of the wizard's clawfile have different targets, one for each
\* of its variables.
LEMMA WizardMounts ==
  ASSUME NEW o \in WizardOptions
  PROVE  LET c == BuildWizardClawfile(o) IN
         /\ ValidMounts(c.mounts)
         /\ \A n \in WizardVariables :
              \E i \in DOMAIN c.mounts : c.mounts[i].target = WizardPath(n)
<1> DEFINE mounts == BuildWizardClawfile(o).mounts
<1>1. /\ DOMAIN mounts = 1..3 /\ mounts[1].target = "/vault"
      /\ mounts[2].target = "/config" /\ mounts[3].target = "/logs"
  BY DEF BuildWizardClawfile
<1> HIDE DEF mounts
<1>2. ValidMounts(mounts)
  BY <1>1 DEF ValidMounts
<1>3. \A n \in WizardVariables : \E i \in DOMAIN mounts : mounts[i].target = WizardPath(n)
  BY <1>1 DEF WizardPath, WizardVariables
<1> QED BY <1>2, <1>3 DEF mounts

\* A clawfile by the wizard compiles unless its image is not pinned.
LEMMA WizardValid ==
  ASSUME NEW o \in WizardOptions, WizardAccepts(o), o.image # "unpinned"
  PROVE  Valid(Normalize(BuildWizardClawfile(o)))
<1> DEFINE c == Normalize(BuildWizardClawfile(o))
<1>1. ValidLLM(c.llm) /\ SkillsOf(c) = {} /\ c.mounts = BuildWizardClawfile(o).mounts
  BY WizardClawfile
<1>2. c.image = "pinned"
  <2>1. c.image = IF o.image = "" THEN "pinned" ELSE o.image
    BY WizardClawfile
  <2> QED BY <2>1 DEF WizardOptions
<1>3. ValidMounts(c.mounts)
  BY <1>1, WizardMounts
<1> QED BY <1>1, <1>2, <1>3 DEF Valid

\* The wizard's clawfile compiles, passes the strict checks and runs as proposed.
THEOREM WizardWord == Spec => []WizardKeepsItsWord
<1>1. IInv => WizardKeepsItsWord
  <2> SUFFICES ASSUME IInv, wizard # NoWizard PROVE WizardKeepsItsWord
    BY DEF WizardKeepsItsWord
  <2> DEFINE l == NormalizeWizardLLM(wizard)
             w == BuildWizardClawfile(wizard)
             c == capsule.claw
  <2>1. wizard \in WizardOptions /\ WizardAccepts(wizard) /\ claw = w
    BY DEF IInv, TypeOK, WizardInv
  <2>2. outcome = "invalid" => wizard.image = "unpinned"
    BY <2>1, WizardValid DEF IInv, WizardInv
  <2>3. ASSUME capsule # NoCapsule
        PROVE  /\ capsule \in Capsule /\ c \in Clawfile /\ c = Normalize(w)
               /\ capsule.allowlist = Allowlist(c) /\ ValidLLM(c.llm)
               /\ c.llm = l /\ c.network = wizard.network
               /\ c.env = w.env /\ c.mounts = w.mounts /\ c.image = "pinned"
    <3>1. capsule = CapsuleOf(w) /\ capsule \in Capsule
      BY <2>1, <2>3 DEF IInv, CapsuleInv, TypeOK
    <3>2. c = Normalize(w) /\ c \in Clawfile /\ capsule.allowlist = Allowlist(c)
      BY <3>1 DEF CapsuleOf, Capsule
    <3>3. c.image = "pinned"
      BY <2>3 DEF IInv, CapsuleInv
    <3> QED BY <2>1, <3>1, <3>2, <3>3, WizardClawfile
  <2>4. ASSUME capsule # NoCapsule
        PROVE  StrictChecks(capsule) <=>
                 wizard.network # "all" /\ l.apiKeyEnv \notin WizardVariables
    <3>1. ASSUME l.provider # ""
          PROVE  c.env[l.apiKeyEnv] = Unset <=> l.apiKeyEnv \notin WizardVariables
      <4>1. l.apiKeyEnv \in EnvNames
        BY <2>3, <2>4, <3>1 DEF ValidLLM, Clawfile, LLMSpec
      <4>2. c.env[l.apiKeyEnv] = IF l.apiKeyEnv \in WizardVariables
                                 THEN WizardPath(l.apiKeyEnv) ELSE Unset
        BY <2>3, <2>4, <4>1 DEF BuildWizardClawfile
      <4>3. WizardPath(l.apiKeyEnv) # Unset
        BY AgentLaunchAssumption DEF WizardPath
      <4> QED BY <4>2, <4>3
    <3>2. l.provider = "" => l.apiKeyEnv \notin WizardVariables
      BY <2>3, <2>4 DEF ValidLLM, WizardVariables
    <3> HIDE DEF l, c
    <3>3. c.llm = l /\ c.network = wizard.network /\ c.image = "pinned"
      BY <2>3, <2>4
    <3>4. StrictChecks(capsule) <=>
            c.network # "all" /\ (l.provider # "" => c.env[l.apiKeyEnv] = Unset)
      BY <3>3 DEF StrictChecks, c
    <3> QED BY <3>1, <3>2, <3>3, <3>4
  <2>5. ASSUME outcome \notin {"none", "compiled", "invalid", "no runtime"},
               asked.opts.secrets = {}, asked.opts.apiKey = Unset,
               asked.opts.apiKeyEnv \in {"", l.apiKeyEnv},
               l.provider # "" => asked.host.env[l.apiKeyEnv] # Unset
        PROVE  /\ outcome = "launched"
               /\ l.provider # "" /\ l.apiKeyEnv \notin Settings =>
                    container.env[l.apiKeyEnv] = asked.host.env[l.apiKeyEnv]
               /\ \A n \in WizardVariables \ {l.apiKeyEnv} :
                    \E i \in DOMAIN container.mounts :
                      container.mounts[i].target = container.env[n]
    <3>1. capsule # NoCapsule /\ outcome = Verdict(capsule, asked.opts, asked.host)
      BY <2>5 DEF IInv, LaunchInv
    <3>2. asked.opts \in RunOptions /\ asked.host \in Host
      BY DEF IInv, TypeOK
    <3>3. l.provider # "" => ResolveKey(l, asked.opts, asked.host) = asked.host.env[l.apiKeyEnv]
      BY <2>5 DEF ResolveKey
    <3>4. outcome # "internal error"
      BY <2>3, <3>1, <3>2, LaunchFacts
    <3>5. outcome = "launched"
      <4> HIDE DEF l, c
      <4>1. c.llm = l
        BY <2>3, <3>1
      <4> QED BY <2>5, <3>1, <3>3, <3>4, <4>1 DEF Verdict, c
    <3>6. l.provider # "" /\ l.apiKeyEnv \notin Settings =>
            container.env[l.apiKeyEnv] = asked.host.env[l.apiKeyEnv]
      <4>1. KeysArrive
        BY KeysArriveHere
      <4> HIDE DEF l
      <4>2. capsule.claw.llm = l
        BY <2>3, <3>1
      <4> QED BY <2>5, <3>3, <3>5, <4>1, <4>2 DEF KeysArrive
    <3>7. ASSUME NEW n \in WizardVariables, n # l.apiKeyEnv
          PROVE  container.env[n] = WizardPath(n)
      <4>1. n \in EnvNames /\ WizardPath(n) # Unset
        BY AgentLaunchAssumption DEF WizardPath
      <4>2. c.env[n] = WizardPath(n)
        BY <2>3, <3>1, <4>1 DEF BuildWizardClawfile
      <4>3. n \in capsule.allowlist
        BY <2>3, <3>1, <4>1, <4>2 DEF Allowlist, EnvOf
      <4>4. LLMOf(capsule, asked.opts, asked.host)[n] = Unset
        <5>1. n \notin Settings \cup KeyVariables
          BY DEF WizardVariables, Settings, KeyVariables
        <5>2. \A key : ResolveEnv(l, key)[n] = Unset
          BY <3>7, <4>1, <5>1 DEF ResolveEnv, TakesBaseURL, TakesKey, Settings, KeyVariables
        <5> HIDE DEF l
        <5>3. capsule.claw.llm = l
          BY <2>3, <3>1
        <5> QED BY <5>2, <5>3 DEF LLMOf
      <4>5. SecretsOf(asked.opts, asked.host)[n] = Unset
        BY <2>5, <4>1 DEF SecretsOf
      <4> QED BY <3>5, <4>1, <4>2, <4>3, <4>4, <4>5, LaunchedEnv
    <3>8. container.mounts = w.mounts
      <4>1. container = ContainerOf(capsule, asked.opts, asked.host)
        BY <3>5, Launched
      <4> HIDE DEF w
      <4>2. c.mounts = w.mounts
        BY <2>3, <3>1
      <4> QED BY <4>1, <4>2 DEF ContainerOf
    <3>9. \A n \in WizardVariables : \E i \in DOMAIN w.mounts : w.mounts[i].target = WizardPath(n)
      BY <2>1, WizardMounts
    <3> HIDE DEF l, w
    <3> QED BY <3>5, <3>6, <3>7, <3>8, <3>9
  <2> HIDE DEF l
  <2>6. /\ outcome = "invalid" => wizard.image = "unpinned"
        /\ capsule # NoCapsule =>
             (StrictChecks(capsule) <=>
                wizard.network # "all" /\ l.apiKeyEnv \notin WizardVariables)
    BY <2>2, <2>4
  <2> QED BY <2>5, <2>6 DEF WizardKeepsItsWord, l
<1> QED BY Inductive, <1>1, PTL

===============================================================================
