\* One skill; every flag, key source and contract clause with and without.
SPECIFICATION Spec
CONSTANTS
  s1 = s1  v1 = v1  v2 = v2
  Skills = {s1}
  Versions = {v1, v2}
  MountTargets = {"data", "/vault", "/config", "/logs"}
  EnvNames <- MCEnvNames
  Values <- MCValues
  GeminiURL = "gemini"
  Unset = Unset
  Clawfiles <- MCClawfiles
  WizardFlags <- MCWizardFlags
  Contracts <- MCContracts
  Hosts <- MCHosts
  Options <- MCOptions
  HostOrder <- MCHostOrder
  NoClawfile = NoClawfile  NoWizard = NoWizard
  NoContract = NoContract  NoCapsule = NoCapsule  NoContainer = NoContainer
INVARIANTS TypeOK LLMEnvAllowlisted AllowlistIsFilled KeysArrive SkillsGetWhatTheyRequire WizardKeepsItsWord
CHECK_DEADLOCK FALSE
