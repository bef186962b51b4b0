---------------------------- MODULE NetworkPolicy ----------------------------
(***************************************************************************)
(* The network policy: how the three lists (src/allowlist.ts,              *)
(* src/blockList.ts) and mcp-servers.yaml (src/mcpServers.ts) become the   *)
(* proxy's configuration (src/envoyConfig.ts), and what Envoy does with a  *)
(* guest's connection or request under it.  Pure operators only; the       *)
(* commands that edit, read and apply the lists are PolicyFiles.           *)
(*                                                                         *)
(* A host name is a value; `Below` says which names end with "." and       *)
(* another name.  A name pattern is a name and whether it stood behind     *)
(* "*.".  Envoy's own matching (external, at the end) prefers an exact     *)
(* name, then the longest suffix.  Hosts are taken to be written in one    *)
(* case; headers have one value each.                                      *)
(***************************************************************************)
EXTENDS FiniteSets, TLC

CONSTANTS
  Names,                \* host names
  Below,                \* <<n, s>>: n ends with "." followed by s
  Sanitized,            \* sanitizeName: the letters and digits of a name
  GithubGate,           \* GITHUB_INJECTION: "basic" or "api" for two names, None for the rest
  ClaudeHosts,          \* CLAUDE_AUTHENTICATED_HOSTS
  None

\* Names form trees: what a name ends with is ordered by length, and of any names there are
\* longest ones.
ASSUME NamesAssumption ==
  /\ Below \subseteq Names \X Names
  /\ \A n \in Names : <<n, n>> \notin Below
  /\ \A n, m, k \in Names : <<n, m>> \in Below /\ <<m, k>> \in Below => <<n, k>> \in Below
  /\ \A n, m, k \in Names :
       <<n, m>> \in Below /\ <<n, k>> \in Below
         => m = k \/ <<m, k>> \in Below \/ <<k, m>> \in Below
  /\ \A ns \in (SUBSET Names) \ {{}} : \E m \in ns : \A k \in ns : <<k, m>> \notin Below
  /\ GithubGate \in [Names -> {"basic", "api", None}]
  /\ None \notin Names \cup {"basic", "api", "codex account"}

AuthSections == {"claude", "codex", "github", "candidate"}
Ports == {"80", "443", "other"}

\* "bad": any other use of "*"; "double": "**." (the import's format only).
Pattern == [name: Names, wild: BOOLEAN]
AllowLine == [name: Names, kind: {"exact", "wild", "bad"}, port: Ports]
AuthLine == [section: AuthSections \cup {"none"}, name: Names, kind: {"exact", "bad"}, port: Ports]
BlockLine == [name: Names, kind: {"exact", "wild", "bad"}, port: BOOLEAN]
ImportRow == [name: Names, kind: {"exact", "wild", "double", "bad"}, port: Ports,
              network: BOOLEAN, allowed: BOOLEAN]
Entry == [name: Names, wild: BOOLEAN, port: Ports]

Exact(n) == [name |-> n, wild |-> FALSE]
PatternOf(l) == [name |-> l.name, wild |-> l.kind = "wild"]
EntryOf(l) == [name |-> l.name, wild |-> l.kind = "wild", port |-> l.port]
On(port, es) == {[name |-> e.name, wild |-> e.wild] : e \in {x \in es : x.port = port}}

-----------------------------------------------------------------------------
\* Parsing and combining the lists.

\* mutant: a wildcard prunes the exact entries of every port.
CoveredOnAnyPort(e, es) == \E w \in es : w.wild /\ <<e.name, w.name>> \in Below

Covered(e, es) == \E w \in es : w.wild /\ w.port = e.port /\ <<e.name, w.name>> \in Below

\* prunePassthrough: an exact entry that a wildcard of its port covers is dropped.
Pruned(es) == {e \in es : e.wild \/ ~Covered(e, es)}

ParsedAllow(lines) == Pruned({EntryOf(l) : l \in {x \in lines : x.kind # "bad"}})

\* Lines before the first pragma belong to no section; wildcards are excluded.
ParsedAuth(lines, s) == {EntryOf(l) : l \in {x \in lines : x.section = s /\ x.kind # "bad"}}

ParsedBlock(lines) == {PatternOf(l) : l \in {x \in lines : ~x.port /\ x.kind # "bad"}}

\* isBlocked
Blocked(e, bs) ==
  \E b \in bs : (b.name = e.name /\ b.wild = e.wild) \/ (b.wild /\ <<e.name, b.name>> \in Below)

Unblocked(es, bs) == {e \in es : ~Blocked(e, bs)}

\* Sections a section loses to when both list the same host and port.
StrongerThan ==
  [candidate |-> {}, github |-> {"candidate"}, codex |-> {"candidate", "github"},
   claude |-> {"candidate", "github", "codex"}, pass |-> AuthSections]

\* combinePolicy: drop what is blocked, then leave each entry to its strongest section.
Combined(f) ==
  LET blocks == ParsedBlock(f.block)
      auth == [s \in AuthSections |-> Unblocked(ParsedAuth(f.auth, s), blocks)]
      listed(s) == IF s = "pass" THEN Pruned(Unblocked(ParsedAllow(f.allow), blocks)) ELSE auth[s] IN
  [entries |-> [s \in AuthSections \cup {"pass"} |->
                  {e \in listed(s) : \A t \in StrongerThan[s] : e \notin auth[t]}],
   blocked |-> blocks]

\* mutant: MCP hosts keep the entries of the lists.
CollisionsKept(list, mcp) == list

\* resolveMcpAllowlistCollisions: an MCP host wins over the lists' entries for it.
McpResolved(list, mcp) ==
  [entries |-> [s \in DOMAIN list.entries |->
                  {e \in list.entries[s] : ~(e.name \in mcp /\ ~e.wild /\ e.port = "443")}],
   blocked |-> {b \in list.blocked : ~(b.name \in mcp /\ ~b.wild)}]

\* terminateTlsHosts and the MCP hosts: the names the leaf must carry.
TerminatedHosts(list) == {e.name : e \in UNION {{x \in list.entries[s] : x.port = "443"} : s \in AuthSections}}
LeafNames(list, mcp) == TerminatedHosts(list) \cup mcp

-----------------------------------------------------------------------------
\* The filter chains of listener 443.  A chain is what it matches, the tag of its route,
\* its cluster and its HTTP filters (none for a chain that does not terminate TLS).

NoFilters == [accepts |-> {}, couples |-> FALSE, inject |-> None, account |-> None, gated |-> FALSE]
Gated(accepts, inject) ==
  [accepts |-> accepts, couples |-> FALSE, inject |-> inject, account |-> None, gated |-> TRUE]

Chain(route, names, cluster, filters) ==
  [route |-> route, names |-> names, cluster |-> cluster, filters |-> filters]

\* The cluster of a terminated host: it dials that host and accepts a certificate for that
\* name only (the test-only overrides of its address are left out).
TlsCluster(section, n) == <<section, n>>

ClaudeChain(n) ==
  Chain("claude", {Exact(n)}, TlsCluster("claude", n), Gated({"claude placeholder"}, "claude token"))

\* mutant: the account id is injected whoever the request's bearer is.
CodexUncoupled(n) ==
  Chain("codex", {Exact(n)}, TlsCluster("codex", n),
        [Gated({"codex placeholder"}, "codex token") EXCEPT !.account = "codex account"])

CodexChain(n) ==
  Chain("codex", {Exact(n)}, TlsCluster("codex", n),
        [Gated({"codex placeholder"}, "codex token") EXCEPT
           !.couples = TRUE, !.account = "codex account"])

\* Basic with the placeholder password for git; the token and Bearer forms for the API.
GithubChain(n) ==
  Chain("github", {Exact(n)}, TlsCluster("github", n),
        IF GithubGate[n] = "basic" THEN Gated({"github basic placeholder"}, "github basic")
        ELSE Gated({"github token placeholder", "github bearer placeholder"}, "github token"))

CandidateChain(n) == Chain("candidate", {Exact(n)}, TlsCluster("authcandidate", n), NoFilters)

McpChain(n) == Chain("mcp", {Exact(n)}, <<"mcp", n>>, NoFilters)

PassthroughChain(ps) == Chain("pass", ps, <<"forward", None>>, NoFilters)

BlockedChain(bs) == Chain("blocklist", bs, <<"blackhole", None>>, NoFilters)

\* A github host that no injection is known for gets no chain of its own.
InspectingChains(list) ==
  LET of(s) == {p.name : p \in On("443", list.entries[s])} IN
  {ClaudeChain(n) : n \in of("claude")} \cup {CodexChain(n) : n \in of("codex")}
    \cup {CandidateChain(n) : n \in of("candidate")}
    \cup {GithubChain(n) : n \in {m \in of("github") : GithubGate[m] # None}}

\* The virtual hosts of listener 80: one per exact entry, one for all wildcards.
VirtualHost(route, domains, cluster) == [route |-> route, names |-> domains, cluster |-> cluster]

VirtualHosts(list) ==
  LET ps == On("80", list.entries["pass"])
      wild == {p \in ps : p.wild} IN
  {VirtualHost("http", {p}, <<"http", p.name>>) : p \in ps \ wild}
    \cup {VirtualHost("http", w, <<"forward", None>>) : w \in {wild} \ {{}}}
    \cup {VirtualHost("blocklist", bs, None) : bs \in {list.blocked} \ {{}}}

\* generateEnvoyConfig
Rendered(list, mcp, open) ==
  [chains |-> InspectingChains(list) \cup {McpChain(n) : n \in mcp}
                \cup {PassthroughChain(ps) : ps \in {On("443", list.entries["pass"])} \ {{}}}
                \cup {BlockedChain(bs) : bs \in {list.blocked} \ {{}}},
   hosts |-> VirtualHosts(list),
   default |-> IF open THEN "open" ELSE "deny"]

\* What the loop makes of the files it read.
ConfigOf(f) == Rendered(McpResolved(Combined(f), f.mcp), f.mcp, f.open)
LeafOf(f) == LeafNames(McpResolved(Combined(f), f.mcp), f.mcp)

-----------------------------------------------------------------------------
\* The import of an upstream policy (src/policyFile.ts): allowed network rows, "**." as "*.".

Imported(rows) == {r \in rows : r.network /\ r.allowed /\ r.kind # "bad"}
IsClaude(r) == r.kind = "exact" /\ r.name \in ClaudeHosts

ImportedAllow(rows) ==
  {[name |-> r.name, kind |-> IF r.kind = "exact" THEN "exact" ELSE "wild", port |-> r.port] :
     r \in {x \in Imported(rows) : ~IsClaude(x)}}

ImportedAuth(rows) ==
  {[section |-> "claude", name |-> r.name, kind |-> "exact", port |-> r.port] :
     r \in {x \in Imported(rows) : IsClaude(x)}}

-----------------------------------------------------------------------------
\* The HTTP filters of a terminating chain, on the headers of one request.

Placeholders == {"claude placeholder", "codex placeholder", "github basic placeholder",
                 "github token placeholder", "github bearer placeholder"}
Headers == [auth: Placeholders \cup {"absent", "foreign"}, account: {"absent", "foreign"},
            noAuth: BOOLEAN, noAccount: BOOLEAN]

\* The Lua gate: forged markers go; an absent header gets a sentinel and its marker, so
\* that the injector leaves it alone; a recognized placeholder makes room for the injector.
Gate(c, h) ==
  LET known == h.auth \in c.filters.accepts
      bare == c.filters.couples /\ ~known /\ h.account = "absent" IN
  [auth |-> IF h.auth = "absent" THEN "sentinel" ELSE IF known THEN "absent" ELSE h.auth,
   account |-> IF bare THEN "sentinel"
               ELSE IF c.filters.couples /\ known THEN "absent" ELSE h.account,
   noAuth |-> h.auth = "absent",
   noAccount |-> bare]

\* credential_injector with overwrite: false, once per header.
InjectAuth(c, h) == IF h.auth = "absent" THEN [h EXCEPT !.auth = c.filters.inject] ELSE h
InjectAccount(c, h) ==
  IF c.filters.account # None /\ h.account = "absent" THEN [h EXCEPT !.account = c.filters.account]
  ELSE h

\* AUTH_POST_FILTER_LUA: what a marker stands for is absent again.
Post(h) ==
  [auth |-> IF h.noAuth THEN "absent" ELSE h.auth,
   account |-> IF h.noAccount THEN "absent" ELSE h.account,
   noAuth |-> FALSE, noAccount |-> FALSE]

Upstream(c, h) ==
  IF c.filters.gated THEN Post(InjectAccount(c, InjectAuth(c, Gate(c, h)))) ELSE h

-----------------------------------------------------------------------------
\* Envoy (external): which chain a server name selects, which virtual host a host header.

Matches(p, n) == IF p.wild THEN <<n, p.name>> \in Below ELSE p.name = n
Narrower(p, q) == q.wild /\ (~p.wild \/ <<p.name, q.name>> \in Below)

\* The members of a set of chains, or of virtual hosts, that hold the narrowest match.
Selected(cs, n) ==
  {c \in cs : \E p \in c.names :
     Matches(p, n) /\ \A d \in cs : \A q \in d.names : Matches(q, n) => ~Narrower(q, p)}

\* Envoy rejects a configuration in which two chains, or two hosts, match the same pattern.
Disjoint(cs) == \A c, d \in cs : c # d => c.names \cap d.names = {}

ClustersOf(cfg) ==
  {c.cluster : c \in cfg.chains} \cup {v.cluster : v \in {x \in cfg.hosts : x.route = "http"}}
ClusterName(cl) == IF cl[2] = None THEN <<cl[1]>> ELSE <<cl[1], Sanitized[cl[2]]>>

\* Two clusters of one name: it rejects these too.
Clash(cfg) == \E a, b \in ClustersOf(cfg) : a # b /\ ClusterName(a) = ClusterName(b)

=============================================================================
