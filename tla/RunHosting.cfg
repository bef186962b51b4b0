CONSTANTS
  Channels = {"claude"}
  Policy = "policy"
  McpServers = {"m"}
  MaxVersion <- MCMaxVersion
  Identity <- MCIdentity
  None = None
SPECIFICATION MCSpec
INVARIANTS
  ServingColorIsReady
  NoLostUpdate
  ServedIsRendered
  McpFatalStopsServing
PROPERTIES
  FirstCauseWins
  FrontDoorSpec
  PathSpec
  EditServed
  ShutdownCompletes
