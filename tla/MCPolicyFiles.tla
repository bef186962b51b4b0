---------------------------- MODULE MCPolicyFiles ----------------------------
(***************************************************************************)
(* github.com, api.github.com under it, and a third name under both that   *)
(* no injection is known for; for the import, api is a Claude host.        *)
(***************************************************************************)
EXTENDS PolicyFiles

MCBelow == {<<"sub", "api">>, <<"sub", "github">>, <<"api", "github">>}
MCSanitized == [n \in Names |-> IF n = "sub" THEN "sub_api" ELSE n]
MCGithubGate == [github |-> "basic", api |-> "api", sub |-> None]

Allowed(n, kind, port) == [name |-> n, kind |-> kind, port |-> port]
Authed(s, n, port) == [section |-> s, name |-> n, kind |-> "exact", port |-> port]
Denied(n, kind) == [name |-> n, kind |-> kind, port |-> FALSE]
Row(n, kind) == [name |-> n, kind |-> kind, port |-> "443", network |-> TRUE, allowed |-> TRUE]

MCAllowLines == {Allowed("api", "exact", "443"), Allowed("github", "wild", "443"),
                 Allowed("api", "wild", "80"), Allowed("api", "exact", "80")}
MCAuthLines == {Authed("codex", "api", "443"), Authed("github", "api", "443"),
                Authed("github", "sub", "443"), Authed("candidate", "sub", "443")}
MCBlockLines == {Denied("github", "wild"), Denied("api", "exact")}
MCImportRows == {Row("github", "double"), Row("api", "exact")}
MCMcpFiles == {{}, {"api"}}
=============================================================================
