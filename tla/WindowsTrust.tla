---------------------------- MODULE WindowsTrust ----------------------------
(***************************************************************************)
(* Windows guest trust (src/guestSetup/windows/trustPlanner.ts and         *)
(* trustReconciler.ts, the guest's side in trustScripts.ts): setup takes   *)
(* one snapshot of the host's selected roots, the environment's proxy CA   *)
(* and the guest's trust, plans the operations that converge the guest,    *)
(* and runs them one guest invocation at a time, stopping at the first     *)
(* failure without rollback.  Between runs the proxy CA is rotated, the    *)
(* host's selection changes, and setup is run again.                       *)
(*                                                                         *)
(* A certificate is its fingerprint.  An invocation that fails may have    *)
(* done any part of its work.  `foreign` and `recorded` are history: the   *)
(* roots somebody else put into the guest's store, and the proxy CAs in it *)
(* that a manifest has recorded as installed by setup.                     *)
(***************************************************************************)
EXTENDS Naturals, FiniteSets

CONSTANTS
  Certs,                \* certificates, by SHA-256 fingerprint
  None

Manifests == [ambient: SUBSET Certs, proxy: Certs, owned: BOOLEAN]

Plans ==
  [proxy: Certs, retained: SUBSET Certs, write: SUBSET Certs, import: SUBSET Certs,
   owned: BOOLEAN, gone: SUBSET Certs]

ASSUME TrustAssumption ==
  /\ None \notin Certs \cup Manifests \cup Plans \cup {"ok", "failed"}
  /\ \A S \in SUBSET Certs : S # None

VARIABLES
  selected,             \* host roots the enumerator selects
  proxy,                \* the environment's cert.pem
  roots,                \* the guest's LocalMachine\Root
  pems,                 \* managed ambient-<sha256>.pem files
  proxyFile,            \* managed proxy-ca.pem, or None
  manifest,             \* managed manifest.json, or None
  bundle,               \* node-extra-ca-bundle.pem, or None
  env,                  \* whether machine NODE_EXTRA_CA_CERTS names the bundle
  plan,                 \* what the planner decided, or None when no run is under way
  todo,                 \* kinds of operations of the plan still to run
  result,               \* of the last run: None, "ok", "failed"
  broken,               \* history: "no", "failed" (a run stopped half way), "deleted" (a file was)
  foreign, recorded     \* history, see above

hostVars == <<selected, proxy>>
managedVars == <<pems, proxyFile, manifest, bundle, env>>
runVars == <<plan, todo, result, broken>>
vars == <<hostVars, roots, managedVars, runVars, foreign, recorded>>

Kinds == {"write-ambient-pems", "import-ambient", "import-proxy", "verify-store", "publish",
          "set-environment", "remove-proxy", "verify-removed"}

\* As it would be with the old proxy CA removed before the new one is published.
RemovesFirst ==
  [k \in Kinds |->
     CASE k = "write-ambient-pems" -> 1 [] k = "import-ambient" -> 2
       [] k = "import-proxy" -> 3       [] k = "verify-store" -> 4
       [] k = "remove-proxy" -> 5       [] k = "verify-removed" -> 6
       [] k = "publish" -> 7            [] k = "set-environment" -> 8]

\* The order the planner pushes the operations in.
Rank ==
  [k \in Kinds |->
     CASE k = "write-ambient-pems" -> 1 [] k = "import-ambient" -> 2
       [] k = "import-proxy" -> 3       [] k = "verify-store" -> 4
       [] k = "publish" -> 5            [] k = "set-environment" -> 6
       [] k = "remove-proxy" -> 7       [] k = "verify-removed" -> 8]

-----------------------------------------------------------------------------
\* The planner, a pure function of the snapshot.

Retained ==
  selected \cup pems \cup (IF manifest = None THEN {} ELSE manifest.ambient)

\* A retained root neither selected nor on file cannot be published again.
MissingPem == \E c \in Retained : c \notin selected /\ c \notin pems

\* Manifest and proxy PEM disagree, and not because this very rotation was interrupted.
Ambiguous ==
  /\ manifest # None /\ proxyFile # None
  /\ proxyFile \notin {manifest.proxy, proxy}

\* A malformed managed file is refused too; RemoveFile is what the user does about it.
Refused == MissingPem \/ Ambiguous

ImportsProxy == proxy \notin roots /\ proxy \notin Retained

\* As it would be if handling a CA counted as installing it.
OwnedOnceHandled == TRUE

Owned ==
  \/ ImportsProxy
  \/ manifest # None /\ manifest.proxy = proxy /\ manifest.owned

NothingSuperseded == {}

Superseded ==
  IF manifest # None /\ manifest.owned /\ manifest.proxy # proxy
  THEN ({manifest.proxy} \cap roots) \ Retained ELSE {}

\* As it would be if only what is imported were put on file.
ToWriteIfImported == selected \ (pems \cup roots)

ToWrite == selected \ pems

Plan ==
  [proxy |-> proxy,
   retained |-> Retained,
   write |-> ToWrite,
   import |-> Retained \ roots,
   owned |-> Owned,
   gone |-> Superseded]

Planned ==
  {"verify-store", "publish", "set-environment"}
    \cup (IF ToWrite # {} THEN {"write-ambient-pems"} ELSE {})
    \cup (IF Retained \ roots # {} THEN {"import-ambient"} ELSE {})
    \cup (IF ImportsProxy THEN {"import-proxy"} ELSE {})
    \cup (IF Superseded # {} THEN {"remove-proxy", "verify-removed"} ELSE {})

Required == plan.retained \cup {plan.proxy}

-----------------------------------------------------------------------------
\* Around the reconciliation.  What changes while a run is under way is for the next one,
\* which takes its snapshot when it starts; nobody else imports roots meanwhile.

Idle == plan = None

\* generate-ca, or setup run from another environment's directory.
Rotate(c) ==
  /\ Idle
  /\ proxy' = c
  /\ UNCHANGED <<selected, roots, managedVars, runVars, foreign, recorded>>

SelectRoots(S) ==
  /\ Idle
  /\ selected' = S
  /\ UNCHANGED <<proxy, roots, managedVars, runVars, foreign, recorded>>

OthersAdd(c) ==
  /\ Idle
  /\ c \notin roots
  /\ roots' = roots \cup {c}
  /\ foreign' = foreign \cup {c}
  /\ UNCHANGED <<hostVars, managedVars, runVars, recorded>>

\* A managed file is malformed or lost, and deleted, as the refusal tells the user to.
RemoveFile ==
  /\ Idle
  /\ \/ manifest # None /\ manifest' = None /\ UNCHANGED <<proxyFile, pems>>
     \/ proxyFile # None /\ proxyFile' = None /\ UNCHANGED <<manifest, pems>>
     \/ \E c \in pems : pems' = pems \ {c} /\ UNCHANGED <<manifest, proxyFile>>
  /\ broken' = "deleted"
  /\ UNCHANGED <<hostVars, roots, bundle, env, plan, todo, result, foreign, recorded>>

-----------------------------------------------------------------------------
\* The reconciliation.

\* The host is read, the guest inspected and the plan made; a failure there, or a refusal,
\* changes nothing.
MakePlan ==
  /\ Idle /\ ~Refused
  /\ plan' = Plan
  /\ todo' = Planned
  /\ result' = None
  /\ UNCHANGED <<hostVars, roots, managedVars, broken, foreign, recorded>>

End(outcome) ==
  /\ result' = outcome
  /\ plan' = None
  /\ todo' = {}
  /\ broken' = IF outcome = "failed" /\ broken = "no" THEN "failed" ELSE broken

Current(k) == k \in todo /\ \A j \in todo : Rank[k] <= Rank[j]

\* Operation k went well.
Done(k) ==
  /\ Current(k)
  /\ IF todo = {k} THEN End("ok")
     ELSE todo' = todo \ {k} /\ UNCHANGED <<plan, result, broken>>

\* Operation k failed; the reconciliation stops there.
Failed(k) == Current(k) /\ End("failed")

Added(S) == roots' = roots \cup S

WritePems ==
  /\ \/ Done("write-ambient-pems") /\ pems' = pems \cup plan.write
     \/ Failed("write-ambient-pems") /\ \E S \in SUBSET plan.write : pems' = pems \cup S
  /\ UNCHANGED <<hostVars, roots, proxyFile, manifest, bundle, env, foreign, recorded>>

ImportAmbient ==
  /\ \/ Done("import-ambient") /\ Added(plan.import)
     \/ Failed("import-ambient") /\ \E S \in SUBSET plan.import : Added(S)
  /\ UNCHANGED <<hostVars, managedVars, foreign, recorded>>

ImportProxy ==
  /\ \/ Done("import-proxy") /\ Added({plan.proxy})
     \/ Failed("import-proxy") /\ roots' \in {roots, roots \cup {plan.proxy}}
  /\ UNCHANGED <<hostVars, managedVars, foreign, recorded>>

VerifyStore ==
  /\ \/ Done("verify-store") /\ Required \subseteq roots
     \/ Failed("verify-store")
  /\ UNCHANGED <<hostVars, roots, managedVars, foreign, recorded>>

NewManifest == [ambient |-> plan.retained, proxy |-> plan.proxy, owned |-> plan.owned]

\* Proxy PEM, then bundle, then manifest, each replaced atomically.
Recorded ==
  /\ manifest' = NewManifest
  /\ recorded' = IF plan.owned THEN recorded \cup {plan.proxy} ELSE recorded

Publish ==
  /\ \/ Done("publish") /\ proxyFile' = plan.proxy /\ bundle' = Required /\ Recorded
     \/ Failed("publish") /\ proxyFile' = plan.proxy /\ bundle' = Required /\ Recorded
     \/ /\ Failed("publish")
        /\ proxyFile' \in {proxyFile, plan.proxy}
        /\ bundle' = bundle \/ (proxyFile' = plan.proxy /\ bundle' = Required)
        /\ UNCHANGED <<manifest, recorded>>
  /\ UNCHANGED <<hostVars, roots, pems, env, foreign>>

\* The bundle is checked to hold exactly what it should before the variable is set.
SetEnvironment ==
  /\ \/ Done("set-environment") /\ bundle = Required /\ env' = TRUE
     \/ Failed("set-environment") /\ bundle = Required /\ env' = TRUE
     \/ Failed("set-environment") /\ UNCHANGED env
  /\ UNCHANGED <<hostVars, roots, pems, proxyFile, manifest, bundle, foreign, recorded>>

Removed(S) == roots' = roots \ S /\ recorded' = recorded \ S

RemoveProxy ==
  /\ \/ Done("remove-proxy") /\ Removed(plan.gone)
     \/ Failed("remove-proxy") /\ Removed(plan.gone)
     \/ Failed("remove-proxy") /\ UNCHANGED <<roots, recorded>>
  /\ UNCHANGED <<hostVars, managedVars, foreign>>

VerifyRemoved ==
  /\ \/ Done("verify-removed") /\ Required \subseteq roots /\ plan.gone \cap roots = {}
     \/ Failed("verify-removed")
  /\ UNCHANGED <<hostVars, roots, managedVars, foreign, recorded>>

-----------------------------------------------------------------------------
Init ==
  /\ selected \in SUBSET Certs /\ proxy \in Certs
  /\ roots \in SUBSET Certs /\ foreign = roots
  /\ pems = {} /\ proxyFile = None /\ manifest = None /\ bundle = None /\ env = FALSE
  /\ plan = None /\ todo = {} /\ result = None /\ broken = "no"
  /\ recorded = {}

Environment ==
  \/ \E c \in Certs : Rotate(c) \/ OthersAdd(c)
  \/ \E S \in SUBSET Certs : SelectRoots(S)
  \/ RemoveFile

Reconcile ==
  \/ MakePlan
  \/ WritePems \/ ImportAmbient \/ ImportProxy \/ VerifyStore
  \/ Publish \/ SetEnvironment \/ RemoveProxy \/ VerifyRemoved

Next == Environment \/ Reconcile

Spec == Init /\ [][Next]_vars

-----------------------------------------------------------------------------
\* Properties.

\* The type invariant; among others, a plan never names the proxy CA it installs, or a root
\* it retains, for removal (trustPlanner.ts:230-237).
TypeOK ==
  /\ selected \subseteq Certs /\ proxy \in Certs
  /\ roots \subseteq Certs /\ pems \subseteq Certs
  /\ proxyFile \in Certs \cup {None}
  /\ manifest \in Manifests \cup {None}
  /\ bundle \in (SUBSET Certs) \cup {None}
  /\ env \in BOOLEAN
  /\ todo \subseteq Kinds
  /\ result \in {None, "ok", "failed"} /\ broken \in {"no", "failed", "deleted"}
  /\ foreign \subseteq Certs /\ recorded \subseteq Certs
  /\ Idle => todo = {}
  /\ ~Idle => plan \in Plans /\ plan.gone \cap Required = {}

\* Over any sequence of rotations, failures and replays, a root that setup did not put into
\* the guest's store is never removed from it: ownership is only recorded from an import
\* this tool performed (trustPlanner.ts:130-136, 252-254).
NeverRemovesForeign == foreign \subseteq roots

\* Ambient trust is additive: a root that is managed and trusted stays trusted, even when
\* it has been the proxy CA in between (trustPlanner.ts:130-134, 234).
AmbientStaysTrusted == [][pems \cap roots \subseteq roots']_vars

\* Whatever is published to Node is trusted by the guest's own store too, at every moment:
\* nothing is published before it is verified, or removed while it is still published.
BundleIsTrusted ==
  /\ env => bundle # None
  /\ bundle # None => bundle \subseteq roots

\* GuestTrust's view: what the guest is to trust is what the host selects and the proxy CA.
State ==
  IF ~Idle THEN "running" ELSE IF result = None THEN "new" ELSE result

Promised == INSTANCE GuestTrust WITH
              wanted <- selected \cup {proxy}, store <- roots, filed <- pems,
              published <- bundle, named <- env, state <- State

\* Every run does what GuestTrust allows, wherever it fails and whatever it finds: roots and
\* files are only added until all there is to trust is verified, published and named, nothing
\* but setup's own is removed then, and a run that ends well leaves all of it in place
\* (trustPlanner.ts:130-136, 239-316; trustReconciler.ts:259-331).
GuestTrustSpec == Promised!Spec

\* What setup leaves behind never makes it refuse the next run: as long as no run fails half
\* way the planner accepts whatever it finds, after any rotation and change of selection,
\* and even then the PEM of every retained root is on file (trustPlanner.ts:187-223).
RerunIsAccepted ==
  Idle => /\ broken = "no" => ~Refused
          /\ broken = "failed" => ~MissingPem

\* A run that ends well has removed every other proxy CA setup had installed, unless an
\* ambient role keeps it or an earlier run failed half way (trustPlanner.ts:206-237).
Superseding == recorded \ manifest.ambient \subseteq {manifest.proxy}

SupersededIsRemoved == result = "ok" /\ broken = "no" => Superseding

-----------------------------------------------------------------------------
\* What the code's comments say, and the code does not do.

\* trustReconciler.ts:142-145: after a failure "a replay converges from any" residual state.
ReplayConverges == result = "ok" /\ broken # "deleted" => Superseding
=============================================================================
