----------------------------- MODULE PolicyFiles -----------------------------
(***************************************************************************)
(* The policy files of an environment and the run-hosting that serves      *)
(* them: an edit of a list is picked up by the watcher, re-read with the   *)
(* other two and rendered (readParsedPolicy and applyPolicy of             *)
(* src/runHosting/runHostingLoop.ts); mcp-servers.yaml and the flags are   *)
(* read when run-hosting starts and stay for its life.  How the rendered   *)
(* files reach a color is RunHosting's subject.                            *)
(***************************************************************************)
EXTENDS NetworkPolicy

CONSTANTS
  AllowLines, AuthLines, BlockLines,    \* bounds: the lines an edit may add or remove
  ImportRows,                           \* bound: the rows of an upstream policy file
  McpFiles                              \* bound: the sets of hosts mcp-servers.yaml declares

ASSUME LinesAssumption ==
  /\ AllowLines \subseteq AllowLine /\ AuthLines \subseteq AuthLine
  /\ BlockLines \subseteq BlockLine /\ ImportRows \subseteq ImportRow
  /\ McpFiles \subseteq SUBSET Names

VARIABLES
  lists,                \* allow-list.txt, auth-list.txt, block-list.txt as sets of lines
  fault,                \* "none", "unreadable" (one of them), "pragma" (auth-list's structure)
  hosting,              \* the running run-hosting's mcp and open (--skip-allow-list), or None
  read,                 \* history: what envoy.yaml was last rendered from
  config,               \* envoy.yaml
  leaf,                 \* names the leaf certificate on disk carries
  served,               \* names of the leaf the serving color loaded, or None
  reissued              \* history: generate-ca issued the leaf after the last Apply

policyVars == <<lists, fault, hosting, read, config, leaf, served, reissued>>
outputs == <<read, config, leaf, served, reissued>>

Lists == [allow: SUBSET AllowLine, auth: SUBSET AuthLine, block: SUBSET BlockLine]
Source(ls, h) == [allow |-> ls.allow, auth |-> ls.auth, block |-> ls.block,
                  mcp |-> h.mcp, open |-> h.open]

PolicyTypeOK ==
  /\ lists \in Lists
  /\ fault \in {"none", "unreadable", "pragma"}
  /\ hosting \in [mcp: SUBSET Names, open: BOOLEAN] \cup {None}
  /\ read # None => read \in [allow: SUBSET AllowLine, auth: SUBSET AuthLine,
                              block: SUBSET BlockLine, mcp: SUBSET Names, open: BOOLEAN]
  /\ leaf \in SUBSET Names
  /\ served \in (SUBSET Names) \cup {None}
  /\ reissued \in BOOLEAN

PolicyInit ==
  /\ lists = [allow |-> {}, auth |-> {}, block |-> {}]
  /\ fault = "none"
  /\ hosting = None
  /\ read = None
  /\ config = None
  /\ leaf = {}
  /\ served = None
  /\ reissued = FALSE

-----------------------------------------------------------------------------
\* The user's edits.  Bound: one at a time, the next one when this one has been read.

Settled == read # None /\ fault = "none" /\ hosting # None /\ read = Source(lists, hosting)

Toggled(s, l) == IF l \in s THEN s \ {l} ELSE s \cup {l}

EditList ==
  /\ Settled
  /\ \/ \E l \in AllowLines : lists' = [lists EXCEPT !.allow = Toggled(@, l)]
     \/ \E l \in AuthLines : lists' = [lists EXCEPT !.auth = Toggled(@, l)]
     \/ \E l \in BlockLines : lists' = [lists EXCEPT !.block = Toggled(@, l)]
  /\ UNCHANGED <<fault, hosting, outputs>>

\* import-sbx-network-policy, with the environment's lists as its outputs.
ImportPolicy ==
  /\ Settled
  /\ \E rows \in SUBSET ImportRows :
       lists' = [lists EXCEPT !.allow = ImportedAllow(rows), !.auth = ImportedAuth(rows)]
  /\ UNCHANGED <<fault, hosting, outputs>>

\* A file disappears for a moment, or a pragma is misspelt.
Damage ==
  /\ Settled
  /\ fault' \in {"unreadable", "pragma"}
  /\ UNCHANGED <<lists, hosting, outputs>>

Repair ==
  /\ fault # "none"
  /\ fault' = "none"
  /\ UNCHANGED <<lists, hosting, outputs>>

-----------------------------------------------------------------------------
\* run-hosting.

\* mutant: the leaf is reissued for the terminated hosts alone.
ApplyWithoutMcp(h) ==
  /\ read' = Source(lists, h)
  /\ config' = ConfigOf(Source(lists, h))
  /\ leaf' = TerminatedHosts(McpResolved(Combined(Source(lists, h)), h.mcp))
  /\ served' = leaf'
  /\ reissued' = FALSE

\* ensureLeaf (nothing is issued for no names) and buildConfig, and the swap to a color
\* that loads both.
Apply(h) ==
  LET f == Source(lists, h) IN
  /\ read' = f
  /\ config' = ConfigOf(f)
  /\ leaf' = IF LeafOf(f) = {} THEN leaf ELSE LeafOf(f)
  /\ served' = leaf'
  /\ reissued' = FALSE

\* mcp-servers.yaml is read once, here; without a readable policy run-hosting exits.
StartHosting ==
  /\ hosting = None /\ fault = "none"
  /\ \E declared \in McpFiles, open \in BOOLEAN :
       LET h == [mcp |-> declared, open |-> open] IN
       /\ hosting' = h
       /\ Apply(h)
  /\ UNCHANGED <<lists, fault>>

\* A watcher fired: the three lists are re-read together.
Reload ==
  /\ hosting # None /\ fault = "none"
  /\ read # Source(lists, hosting)
  /\ Apply(hosting)
  /\ UNCHANGED <<lists, fault, hosting>>

\* parseAuthListFile throws and nobody catches it: the process is gone.  An unreadable
\* file, instead, changes nothing.
ReloadThrows ==
  /\ hosting # None /\ fault = "pragma"
  /\ hosting' = None
  /\ UNCHANGED <<lists, fault, outputs>>

\* The colors stay up and serve what they loaded.
StopHosting ==
  /\ hosting # None
  /\ hosting' = None
  /\ UNCHANGED <<lists, fault, outputs>>

\* generate-ca, whose leaf carries the hosts of auth-list.txt and no others.
GenerateCa ==
  /\ Settled
  /\ LET sans == {e.name : e \in On("443", UNION {ParsedAuth(lists.auth, s) : s \in AuthSections})} IN
     /\ sans # {} /\ sans # leaf
     /\ leaf' = sans
     /\ reissued' = TRUE
  /\ UNCHANGED <<lists, fault, hosting, read, config, served>>

\* A credential changed: the next color loads the files as they are.
Rotate ==
  /\ hosting # None
  /\ served # leaf
  /\ served' = leaf
  /\ UNCHANGED <<lists, fault, hosting, read, config, leaf, reissued>>

PolicyNext ==
  \/ EditList \/ ImportPolicy \/ Damage \/ Repair
  \/ StartHosting \/ Reload \/ ReloadThrows \/ StopHosting
  \/ GenerateCa \/ Rotate

PolicySpec == PolicyInit /\ [][PolicyNext]_policyVars

-----------------------------------------------------------------------------
\* What the lists promise (docs/adr/0020, 0021), stated of their lines alone.

LineListed(f, s, n, port) ==
  \E l \in f.auth : l.section = s /\ l.name = n /\ l.kind = "exact" /\ l.port = port

Allows(f, n, port) ==
  \E l \in f.allow : l.kind # "bad" /\ l.port = port /\ Matches(PatternOf(l), n)

\* Some other line's wildcard allows it: what is left to a host that lost its own entry.
AllowsByWildcard(f, n, port) ==
  \E l \in f.allow : l.kind = "wild" /\ l.port = port /\ <<n, l.name>> \in Below

Blocking(f, n) == {l \in f.block : l.kind # "bad" /\ ~l.port /\ Matches(PatternOf(l), n)}

\* The exact block line of an MCP host is set aside.
SetAside(f, n) == {l \in Blocking(f, n) : l.kind = "exact" /\ n \in f.mcp}

Denies(f, n) == Blocking(f, n) # SetAside(f, n)

Otherwise(f) == IF f.open THEN "open" ELSE "deny"

\* A TLS connection for n.
Promised443(f, n) ==
  IF n \in f.mcp THEN "mcp"
  ELSE IF Denies(f, n) THEN "blocklist"
  ELSE IF LineListed(f, "candidate", n, "443") THEN "candidate"
  ELSE IF LineListed(f, "github", n, "443") /\ GithubGate[n] # None THEN "github"
  ELSE IF LineListed(f, "github", n, "443")
    THEN IF AllowsByWildcard(f, n, "443") THEN "pass" ELSE Otherwise(f)
  ELSE IF LineListed(f, "codex", n, "443") THEN "codex"
  ELSE IF LineListed(f, "claude", n, "443") THEN "claude"
  ELSE IF Allows(f, n, "443") THEN "pass"
  ELSE Otherwise(f)

\* A request for n on port 80.  A host's own entry is lost to the auth list, where port 80
\* means nothing, and to a block line, even one that is set aside.
Promised80(f, n) ==
  IF Denies(f, n) THEN "blocklist"
  ELSE IF SetAside(f, n) # {} \/ \E s \in AuthSections : LineListed(f, s, n, "80")
    THEN IF AllowsByWildcard(f, n, "80") THEN "http" ELSE Otherwise(f)
  ELSE IF Allows(f, n, "80") THEN "http"
  ELSE Otherwise(f)

\* What Envoy does is what was promised.
RoutesTo(cs, default, n, route) ==
  /\ \A c \in Selected(cs, n) : c.route = route
  /\ Selected(cs, n) = {} => default = route

\* A connection or request for a host goes where the lists say, whatever lines the files
\* hold together: no pruned, outranked or wildcard entry opens what a block line denies,
\* or takes a host from the section it is listed in (combinePolicy, generateEnvoyConfig).
RoutesAsListed ==
  config # None =>
    \A n \in Names :
      /\ RoutesTo(config.chains, config.default, n, Promised443(read, n))
      /\ RoutesTo(config.hosts, config.default, n, Promised80(read, n))

\* Envoy accepts the configuration: no name is matched by two filter chains, no host by
\* two virtual hosts, and clusters of one name come only from hosts that sanitizeName
\* cannot tell apart (resolveMcpAllowlistCollisions, combinePolicy).
EnvoyAccepts ==
  config # None =>
    /\ Disjoint(config.chains) /\ Disjoint(config.hosts)
    /\ Clash(config) => \E n, m \in Names : n # m /\ Sanitized[n] = Sanitized[m]

\* The leaf the serving color loaded carries every name whose TLS the configuration
\* terminates, unless generate-ca issued one in between.
LeafCoversTerminated ==
  config # None /\ ~reissued =>
    \A c \in config.chains :
      c.route \in {"claude", "codex", "github", "candidate", "mcp"} =>
        \A p \in c.names : p.name \in served

\* A credential-injected destination gets the host's credential exactly when the request
\* carries its placeholder, the account id with it and never without; what the client
\* sent otherwise, and what it did not send, reaches the upstream as it was, and no
\* proxy-internal marker or sentinel ever does (gate.lua, the gates of envoyConfig.ts).
InjectedAsPromised ==
  config # None =>
    \A c \in {d \in config.chains : d.filters.gated}, h \in Headers :
      LET known == h.auth \in c.filters.accepts IN
      Upstream(c, h) =
        [auth |-> IF known THEN c.filters.inject ELSE h.auth,
         account |-> IF known /\ c.filters.account # None THEN c.filters.account ELSE h.account,
         noAuth |-> FALSE, noAccount |-> FALSE]

\* "The leaf carries the current TLS-terminated auth-list and authentication-candidate
\* hosts, plus declared host-run MCP hostnames" (docs/adr/0006:3).  Refuted: generate-ca,
\* run while run-hosting is up, issues it without them, and the next credential swap
\* serves that leaf.
ServedLeafCoversMcp == hosting # None => hosting.mcp \subseteq served

=============================================================================
