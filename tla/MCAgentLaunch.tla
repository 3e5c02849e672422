---------------------------- MODULE MCAgentLaunch ----------------------------
(***************************************************************************)
(* Clawfiles, contracts, hosts and flags for checking AgentLaunch with TLC: *)
(* one family of clawfiles varies the LLM section and the environment, the  *)
(* other network, mounts and runtime.                                       *)
(***************************************************************************)
EXTENDS AgentLaunch

CONSTANTS s1, v1, v2

MCEnvNames == Settings \cup KeyVariables \cup {"CUSTOM"} \cup WizardVariables
MCValues   == {"gemini", "proxy", "model", "literal", "flag", "host1", "host2",
              "/vault", "/config", "/logs"}

\* The environment that sets `names` to v.
Only(names, v) == [n \in MCEnvNames |-> IF n \in names THEN v ELSE Unset]
UserNames == {"OPENAI_API_KEY", "CUSTOM"}

NoLLM == [provider |-> "", model |-> "", baseURL |-> "", apiKeyEnv |-> ""]
LLMs ==
  [provider : Providers, model : {"model"}, baseURL : {"", "proxy"},
   apiKeyEnv : {"", "OPENAI_API_KEY", "CUSTOM", "METACLAW_LLM_MODEL"}]

LLMFamily ==
  [llm : LLMs \cup {NoLLM, [NoLLM EXCEPT !.model = "model"]},
   env : {Only(ns, "literal") : ns \in SUBSET UserNames},
   network : {""}, mounts : {<<>>}, target : {""}, image : {"", "unpinned"},
   version : [{s1} -> {""}]]

Mounts == UNION {[1..n -> [target : {"data"}, readOnly : BOOLEAN]] : n \in 0..2}

HabitatFamily ==
  [llm : {NoLLM}, env : {Only(ns, "literal") : ns \in {{}, {"CUSTOM"}}},
   network : {"", "outbound", "all"}, mounts : Mounts, target : {"", "docker"},
   image : {"pinned"}, version : [{s1} -> {"", v2}]]

MCClawfiles == LLMFamily \cup HabitatFamily

MCWizardFlags ==
  [provider : Providers \cup {"", "none"}, model : {"", "model"}, baseURL : {"", "gemini"},
   apiKeyEnv : {"", "GEMINI_API_KEY", "CUSTOM", "OBSIDIAN_VAULT_DIR"}, disabled : BOOLEAN,
   network : {"", "outbound", "all"}, target : {"", "docker"}, image : {"pinned", "unpinned"},
   readOnly : {FALSE}]

MCContracts ==
  [version : {v1, v2}, network : {"", "outbound", "all"},
   mounts : {{}} \cup {{m} : m \in [target : {"data"}, access : {"ro", "rw"}, required : BOOLEAN]},
   env : {{}, {"CUSTOM"}}, secrets : {{}, {"OPENAI_API_KEY"}}, targets : {{}, {"docker"}}]

MCHosts ==
  [env : {Only({}, "host1"), [Only({"OPENAI_API_KEY"}, "host1") EXCEPT !["CUSTOM"] = "host2"]},
   available : {{"docker"}, {"podman", "docker"}}]

MCOptions ==
  [runtime : {"", "podman"}, apiKey : {Unset, "flag"}, apiKeyEnv : {"", "CUSTOM"},
   secrets : SUBSET UserNames]

MCHostOrder == <<"podman", "docker", "apple_container">>
===============================================================================
