CONSTANTS
  Names = {"github", "api", "sub"}
  Below <- MCBelow
  Sanitized <- MCSanitized
  GithubGate <- MCGithubGate
  ClaudeHosts = {"api"}
  None = None
  AllowLines <- MCAllowLines
  AuthLines <- MCAuthLines
  BlockLines <- MCBlockLines
  ImportRows <- MCImportRows
  McpFiles <- MCMcpFiles
SPECIFICATION PolicySpec
INVARIANTS
  EnvoyAccepts
  RoutesAsListed
  LeafCoversTerminated
  InjectedAsPromised
