SPECIFICATION Spec
CONSTANTS
  podman = podman  docker = docker
  Runtimes = {podman, docker}
  ProbeRank <- MCProbeRank
  KeyNames = {"OPENAI", "OTHER"}
  DefaultRuntime = podman
  DefaultKey = "OPENAI"
  Manifests = {{"chat", "bot"}}
  AutoRuntime = AutoRuntime
  NoImage = NoImage
  NoKey = NoKey
  Outside = Outside
  MaxEvents = 1
INVARIANTS TypeOK ChatFindsImage OnboardedChatFindsKey NoFalseConflicts
PROPERTY UserFilesSurvive
CHECK_DEADLOCK FALSE
