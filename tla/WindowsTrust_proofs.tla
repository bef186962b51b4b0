------------------------ MODULE WindowsTrust_proofs ------------------------
(***************************************************************************)
(* What the Windows guest trust reconciliation guarantees for any set of   *)
(* certificates and any sequence of rotations, failures and replays,       *)
(* proved by TLAPS.                                                        *)
(***************************************************************************)
EXTENDS WindowsTrust, TLAPS

\* A proxy CA the manifest calls setup's own is in the store, and nobody else put it there.
Owning ==
  manifest # None /\ manifest.owned =>
    manifest.proxy \in roots /\ manifest.proxy \notin foreign

\* What is left to do ends with the environment, or with the check of the removal.
Ordered ==
  /\ {"write-ambient-pems", "import-ambient", "import-proxy", "verify-store"} \cap todo # {} =>
       "publish" \in todo
  /\ "publish" \in todo => "set-environment" \in todo
  /\ "remove-proxy" \in todo => "verify-removed" \in todo

\* What a plan relies on, and what its operations have established so far.
Planning ==
  ~Idle =>
    /\ result = None
    /\ pems \subseteq plan.retained /\ plan.write \subseteq plan.retained
    /\ plan.retained \subseteq pems \cup plan.write
    /\ selected \subseteq plan.retained /\ plan.proxy = proxy
    /\ plan.gone \cap foreign = {}
    /\ plan.owned => plan.proxy \notin foreign
    /\ "write-ambient-pems" \notin todo => plan.write \subseteq pems
    /\ "verify-store" \notin todo => Required \subseteq roots
    /\ "publish" \notin todo => manifest = NewManifest /\ bundle = Required
    /\ "set-environment" \notin todo => env

\* Unless somebody deletes files, every ambient root of the manifest is on file.
Backed == broken # "deleted" /\ manifest # None => manifest.ambient \subseteq pems

\* Unless a publication was interrupted, manifest and proxy PEM agree.
Agreeing ==
  broken = "no" => IF manifest = None THEN proxyFile = None ELSE proxyFile = manifest.proxy

\* The proxy CAs setup has installed are accounted for: retained, about to be removed, or the
\* current one.
Recording ==
  broken = "no" =>
    /\ Idle /\ manifest = None => recorded = {}
    /\ Idle /\ manifest # None =>
         \A c \in recorded \ manifest.ambient : manifest.owned /\ c = manifest.proxy
    /\ ~Idle =>
         /\ \A c \in recorded \ (plan.retained \cup plan.gone) : plan.owned /\ c = plan.proxy
         /\ "remove-proxy" \notin todo => recorded \cap plan.gone = {}

IInv ==
  /\ TypeOK /\ NeverRemovesForeign /\ BundleIsTrusted
  /\ Owning /\ Ordered /\ Planning /\ Backed /\ Agreeing /\ Recording

-----------------------------------------------------------------------------
\* The order of the operations, as a table.
LEMMA RankValues ==
  /\ Rank["write-ambient-pems"] = 1 /\ Rank["import-ambient"] = 2
  /\ Rank["import-proxy"] = 3 /\ Rank["verify-store"] = 4
  /\ Rank["publish"] = 5 /\ Rank["set-environment"] = 6
  /\ Rank["remove-proxy"] = 7 /\ Rank["verify-removed"] = 8
BY Zenon DEF Rank, Kinds

\* Nothing is published, and nothing removed, while an operation before it is left.
LEMMA CurrentIsFirst ==
  /\ Current("publish") \/ Current("set-environment") =>
       {"write-ambient-pems", "import-ambient", "import-proxy", "verify-store"} \cap todo = {}
  /\ Current("set-environment") => "publish" \notin todo
  /\ Current("remove-proxy") => {"verify-store", "publish", "set-environment"} \cap todo = {}
  /\ Current("verify-removed") =>
       {"verify-store", "publish", "set-environment", "remove-proxy"} \cap todo = {}
BY RankValues DEF Current

\* A failure ends the run and is remembered.
LEMMA FailureStops ==
  ASSUME TypeOK, NEW k \in Kinds, Failed(k)
  PROVE  /\ ~Idle /\ Idle' /\ todo' = {} /\ result' = "failed"
         /\ broken' \in {"failed", "deleted"} /\ (broken = "deleted" <=> broken' = "deleted")
BY DEF Failed, Current, End, TypeOK, Idle

\* A success goes on with what is left, or ends the run after its last operation.
LEMMA SuccessGoesOn ==
  ASSUME TypeOK, Ordered, NEW k \in Kinds, Done(k)
  PROVE  /\ ~Idle /\ broken' = broken
         /\ \/ todo' = todo \ {k} /\ ~Idle' /\ plan' = plan /\ result' = result
            \/ /\ Idle' /\ todo' = {} /\ result' = "ok"
               /\ k \in {"set-environment", "verify-removed"} /\ todo = {k}
<1>1. k \in todo /\ ~Idle /\ plan # None
  BY DEF Done, Current, TypeOK, Idle
<1>2. CASE todo = {k}
  <2>1. k \in {"set-environment", "verify-removed"}
    BY <1>2 DEF Ordered, Kinds
  <2> QED
    BY <1>1, <1>2, <2>1 DEF Done, End, Idle
<1>3. CASE todo # {k}
  BY <1>1, <1>3 DEF Done, Idle
<1> QED
  BY <1>2, <1>3

\* What the planner decides is well typed, and names nothing needed for removal.
LEMMA PlanIsSound ==
  ASSUME TypeOK
  PROVE  /\ Plan \in Plans
         /\ Plan.gone \subseteq roots /\ Plan.gone \cap (Plan.retained \cup {Plan.proxy}) = {}
         /\ Plan # None
<1>1. Retained \subseteq Certs
  BY DEF TypeOK, Retained, Manifests
<1>2. Superseded \subseteq roots /\ Superseded \cap (Retained \cup {proxy}) = {}
  BY DEF Superseded
<1>3. Owned \in BOOLEAN
  BY DEF Owned, ImportsProxy, TypeOK, Manifests
<1> QED
  BY <1>1, <1>2, <1>3, TrustAssumption DEF Plan, Plans, ToWrite, TypeOK

LEMMA MakePlanStep ==
  ASSUME IInv, MakePlan
  PROVE  IInv'
<1> USE DEF IInv
<1>1. /\ Idle /\ ~Refused /\ plan' = Plan /\ todo' = Planned /\ result' = None
      /\ UNCHANGED <<hostVars, roots, managedVars, broken, foreign, recorded>>
  BY DEF MakePlan
<1>2. /\ ~Idle' /\ plan' \in Plans
      /\ plan'.gone = Superseded /\ plan'.retained = Retained /\ plan'.write = ToWrite
      /\ plan'.proxy = proxy /\ plan'.owned = Owned
      /\ Superseded \cap (Retained \cup {proxy}) = {}
  BY <1>1, PlanIsSound DEF Plan, Idle
<1>3. TypeOK'
  BY <1>1, <1>2 DEF TypeOK, Planned, Kinds, Required, hostVars, managedVars
<1>4. Ordered'
  BY <1>1 DEF Ordered, Planned
<1>5. Planning'
  <2>1. /\ pems \subseteq Retained /\ ToWrite \subseteq Retained
        /\ Retained \subseteq pems \cup ToWrite /\ selected \subseteq Retained
    BY <1>1 DEF Retained, ToWrite, Refused, MissingPem
  <2>2. Superseded \cap foreign = {}
    BY DEF Superseded, Owning
  <2>3. Owned => proxy \notin foreign
    BY DEF Owned, ImportsProxy, Owning, NeverRemovesForeign
  <2>4. "write-ambient-pems" \notin todo' => ToWrite = {}
    BY <1>1 DEF Planned
  <2>5. {"verify-store", "publish", "set-environment"} \subseteq todo'
    BY <1>1 DEF Planned
  <2> QED
    BY <1>1, <1>2, <2>1, <2>2, <2>3, <2>4, <2>5 DEF Planning, managedVars, hostVars
<1>6. Recording'
  <2> SUFFICES ASSUME broken = "no"
               PROVE  /\ \A c \in recorded \ (Retained \cup Superseded) : Owned /\ c = proxy
                      /\ "remove-proxy" \notin todo' => Superseded = {}
    BY <1>1, <1>2 DEF Recording
  <2>1. "remove-proxy" \notin todo' => Superseded = {}
    BY <1>1 DEF Planned
  <2>2. CASE manifest = None
    BY <2>1, <2>2, <1>1 DEF Recording
  <2>3. CASE manifest # None
    <3>1. \A c \in recorded \ manifest.ambient : manifest.owned /\ c = manifest.proxy
      BY <2>3, <1>1 DEF Recording
    <3>2. manifest.ambient \subseteq Retained
      BY <2>3 DEF Retained
    <3>3. ASSUME manifest.owned, manifest.proxy # proxy, manifest.proxy \notin Retained
          PROVE  manifest.proxy \in Superseded
      BY <3>3, <2>3 DEF Superseded, Owning
    <3>4. manifest.owned /\ manifest.proxy = proxy => Owned
      BY <2>3 DEF Owned
    <3> QED
      BY <3>1, <3>2, <3>3, <3>4, <2>1
  <2> QED
    BY <2>2, <2>3
<1> QED
  BY <1>1, <1>3, <1>4, <1>5, <1>6
     DEF NeverRemovesForeign, BundleIsTrusted, Owning, Backed, Agreeing, managedVars

\* Rotations, other roots and deleted files only touch what a plan is made from.
LEMMA EnvironmentStep ==
  ASSUME IInv, Environment
  PROVE  IInv'
<1> USE DEF IInv
<1>1. ASSUME NEW c \in Certs, Rotate(c) PROVE IInv'
  BY <1>1 DEF Rotate, TypeOK, NeverRemovesForeign, BundleIsTrusted, Owning, Ordered, Planning,
     Backed, Agreeing, Recording, managedVars, runVars, Idle, Required, NewManifest
<1>2. ASSUME NEW S \in SUBSET Certs, SelectRoots(S) PROVE IInv'
  BY <1>2 DEF SelectRoots, TypeOK, NeverRemovesForeign, BundleIsTrusted, Owning, Ordered, Planning,
     Backed, Agreeing, Recording, managedVars, runVars, Idle, Required, NewManifest
<1>3. ASSUME NEW c \in Certs, OthersAdd(c) PROVE IInv'
  BY <1>3 DEF OthersAdd, TypeOK, NeverRemovesForeign, BundleIsTrusted, Owning, Ordered, Planning,
     Backed, Agreeing, Recording, hostVars, managedVars, runVars, Idle, Required, NewManifest
<1>4. ASSUME RemoveFile PROVE IInv'
  BY <1>4 DEF RemoveFile, TypeOK, NeverRemovesForeign, BundleIsTrusted, Owning, Ordered, Planning,
     Backed, Agreeing, Recording, hostVars, Idle, Required, NewManifest
<1> QED
  BY <1>1, <1>2, <1>3, <1>4 DEF Environment


\* What a failed operation must keep, whatever part of its work it did.
Standing ==
  /\ selected \subseteq Certs /\ proxy \in Certs
  /\ roots \subseteq Certs /\ pems \subseteq Certs
  /\ proxyFile \in Certs \cup {None} /\ manifest \in Manifests \cup {None}
  /\ bundle \in (SUBSET Certs) \cup {None} /\ env \in BOOLEAN
  /\ foreign \subseteq Certs /\ recorded \subseteq Certs
  /\ NeverRemovesForeign /\ BundleIsTrusted /\ Owning /\ Backed

LEMMA AfterFailure ==
  ASSUME IInv, NEW k \in Kinds, Failed(k), Standing'
  PROVE  IInv'
<1>1. /\ Idle' /\ todo' = {} /\ result' = "failed" /\ broken' \in {"failed", "deleted"}
  BY FailureStops DEF IInv
<1> QED
  BY <1>1 DEF IInv, Standing, TypeOK, Ordered, Planning, Agreeing, Recording

\* Removing the current operation keeps the rest in order.
LEMMA OrderKept ==
  ASSUME TypeOK, Ordered, NEW k \in Kinds, Done(k)
  PROVE  Ordered'
<1>1. Current(k) /\ (todo' = todo \ {k} \/ todo' = {})
  BY DEF Done, End
<1>2. CASE k = "publish"
  BY <1>1, <1>2, CurrentIsFirst DEF Ordered
<1>3. CASE k = "set-environment"
  BY <1>1, <1>3, CurrentIsFirst DEF Ordered
<1>4. CASE k = "verify-removed"
  BY <1>1, <1>4, CurrentIsFirst DEF Ordered
<1>5. CASE k \notin {"publish", "set-environment", "verify-removed"}
  BY <1>1, <1>5 DEF Ordered
<1> QED
  BY <1>2, <1>3, <1>4, <1>5

LEMMA AfterSuccess ==
  ASSUME IInv, NEW k \in Kinds, Done(k), Standing', Planning', Agreeing', Recording'
  PROVE  IInv'
<1>1. Ordered'
  BY OrderKept DEF IInv
<1>2. TypeOK'
  <2>1. /\ todo' \subseteq Kinds /\ result' \in {None, "ok", "failed"} /\ broken' = broken
        /\ Idle' => todo' = {}
        /\ ~Idle' => plan' = plan
    BY SuccessGoesOn, TrustAssumption DEF IInv, TypeOK
  <2>2. ~Idle' => plan' \in Plans /\ plan'.gone \cap Required' = {}
    BY <2>1, SuccessGoesOn DEF IInv, TypeOK, Required
  <2> QED
    BY <2>1, <2>2 DEF Standing, TypeOK, IInv
<1> QED
  BY <1>1, <1>2 DEF IInv, Standing

\* A run that ends well has recorded what is installed in its manifest.
LEMMA RecordingKept ==
  ASSUME IInv, NEW k \in Kinds \ {"remove-proxy"}, Done(k),
         UNCHANGED <<manifest, recorded>>
  PROVE  Recording'
<1> USE DEF IInv
<1> SUFFICES ASSUME broken = "no" PROVE Recording'
  BY SuccessGoesOn DEF Recording
<1>1. CASE ~Idle' /\ todo' = todo \ {k} /\ plan' = plan
  BY <1>1, SuccessGoesOn DEF Recording
<1>2. CASE Idle' /\ todo = {k} /\ k \in {"set-environment", "verify-removed"}
  <2>1. ~Idle /\ manifest = NewManifest /\ recorded \cap plan.gone = {}
    BY <1>2, SuccessGoesOn DEF Planning, Recording
  <2>2. \A c \in recorded \ plan.retained : plan.owned /\ c = plan.proxy
    BY <2>1 DEF Recording
  <2>3. manifest # None
    BY <2>1, TrustAssumption DEF NewManifest, Manifests, Plans, TypeOK
  <2>4. manifest.ambient = plan.retained /\ manifest.owned = plan.owned
        /\ manifest.proxy = plan.proxy
    BY <2>1 DEF NewManifest
  <2> QED
    BY <1>2, <2>2, <2>3, <2>4 DEF Recording
<1> QED
  BY <1>1, <1>2, SuccessGoesOn

\* Nothing is renewed in the manifest or the proxy PEM by an operation but the publication.
LEMMA AgreeingKept ==
  ASSUME IInv, NEW k \in Kinds, Done(k), UNCHANGED <<manifest, proxyFile>>
  PROVE  Agreeing'
BY SuccessGoesOn DEF IInv, Agreeing

-----------------------------------------------------------------------------
\* One lemma per operation.

LEMMA WritePemsStep ==
  ASSUME IInv, WritePems
  PROVE  IInv'
<1> USE DEF IInv
<1> DEFINE k == "write-ambient-pems"
<1>0. k \in Kinds \ {"remove-proxy"} /\ k \in Kinds
  BY DEF Kinds
<1>1. /\ UNCHANGED <<hostVars, roots, proxyFile, manifest, bundle, env, foreign, recorded>>
      /\ Failed(k) \/ Done(k)
      /\ pems \subseteq pems' /\ pems' \subseteq pems \cup plan.write
      /\ Done(k) => pems' = pems \cup plan.write \/ Failed(k)
  BY DEF WritePems
<1>2. ~Idle /\ plan \in Plans /\ (broken = "deleted" => broken' = "deleted")
  BY <1>0, <1>1, FailureStops, SuccessGoesOn DEF TypeOK
<1>3. Standing'
  BY <1>1, <1>2 DEF Standing, TypeOK, NeverRemovesForeign, BundleIsTrusted, Owning, Backed,
     hostVars, Plans
<1>4. CASE Failed(k)
  BY <1>0, <1>3, <1>4, AfterFailure
<1>5. CASE Done(k) /\ ~Failed(k)
  <2>1. Planning'
    BY <1>0, <1>1, <1>2, <1>5, SuccessGoesOn DEF Planning, Required, NewManifest, hostVars
  <2> QED
    BY <1>0, <1>1, <1>3, <1>5, <2>1, AgreeingKept, RecordingKept, AfterSuccess
<1> QED
  BY <1>1, <1>4, <1>5

LEMMA ImportStep ==
  ASSUME IInv, ImportAmbient \/ ImportProxy \/ VerifyStore
  PROVE  IInv'
<1> USE DEF IInv
<1>1. PICK k \in {"import-ambient", "import-proxy", "verify-store"} :
        /\ UNCHANGED <<hostVars, managedVars, foreign, recorded>>
        /\ Failed(k) \/ Done(k)
        /\ roots \subseteq roots' /\ roots' \subseteq roots \cup plan.import \cup {plan.proxy}
        /\ k = "verify-store" => Failed(k) \/ Required \subseteq roots'
  BY DEF ImportAmbient, ImportProxy, VerifyStore, Added
<1>2. k \in Kinds \ {"remove-proxy"} /\ k \in Kinds
  BY DEF Kinds
<1>3. ~Idle /\ plan \in Plans /\ (broken = "deleted" => broken' = "deleted")
  BY <1>1, <1>2, FailureStops, SuccessGoesOn DEF TypeOK
<1>4. Standing'
  BY <1>1, <1>3 DEF Standing, TypeOK, NeverRemovesForeign, BundleIsTrusted, Owning, Backed,
     hostVars, managedVars, Plans
<1>5. CASE Failed(k)
  BY <1>2, <1>4, <1>5, AfterFailure
<1>6. CASE Done(k) /\ ~Failed(k)
  <2>1. Planning'
    BY <1>1, <1>2, <1>3, <1>6, SuccessGoesOn
       DEF Planning, Required, NewManifest, hostVars, managedVars
  <2>2. UNCHANGED <<manifest, proxyFile, recorded>>
    BY <1>1 DEF managedVars
  <2> QED
    BY <1>2, <1>4, <1>6, <2>1, <2>2, AgreeingKept, RecordingKept, AfterSuccess
<1> QED
  BY <1>1, <1>5, <1>6

\* What is published has been verified, and its PEMs are on file.
LEMMA PublishStep ==
  ASSUME IInv, Publish
  PROVE  IInv'
<1> USE DEF IInv
<1> DEFINE k == "publish"
<1>0. k \in Kinds
  BY DEF Kinds
<1>1. /\ UNCHANGED <<hostVars, roots, pems, env, foreign>>
      /\ Failed(k) \/ (Done(k) /\ proxyFile' = plan.proxy /\ bundle' = Required /\ Recorded)
      /\ proxyFile' \in {proxyFile, plan.proxy}
      /\ bundle' \in {bundle, Required}
      /\ Recorded \/ UNCHANGED <<manifest, recorded>>
      /\ Current(k)
  BY DEF Publish, Failed, Done
<1>2. ~Idle /\ plan \in Plans /\ (broken = "deleted" => broken' = "deleted")
  BY <1>0, <1>1, FailureStops, SuccessGoesOn DEF TypeOK
<1>3. /\ {"write-ambient-pems", "verify-store"} \cap todo = {}
      /\ Required \subseteq roots /\ plan.retained \subseteq pems
      /\ plan.owned => plan.proxy \in roots \ foreign
  BY <1>1, <1>2, CurrentIsFirst DEF Planning, Required
<1>4. Required \in SUBSET Certs /\ Required # None
  BY <1>2, TrustAssumption DEF Plans, Required
<1>5. NewManifest \in Manifests /\ NewManifest # None
  BY <1>2, TrustAssumption DEF NewManifest, Plans, Manifests
<1>6. Standing'
  <2>1. BundleIsTrusted' /\ NeverRemovesForeign'
    BY <1>1, <1>3, <1>4 DEF BundleIsTrusted, NeverRemovesForeign
  <2>2. Owning' /\ Backed'
    <3>1. CASE Recorded
      BY <1>1, <1>2, <1>3, <1>5, <3>1 DEF Recorded, NewManifest, Owning, Backed
    <3>2. CASE UNCHANGED <<manifest, recorded>>
      BY <1>1, <1>2, <3>2 DEF Owning, Backed
    <3> QED
      BY <1>1, <3>1, <3>2
  <2>3. manifest' \in Manifests \cup {None} /\ recorded' \subseteq Certs
    BY <1>1, <1>2, <1>5 DEF Recorded, TypeOK, Plans
  <2> QED
    BY <1>1, <1>2, <1>4, <2>1, <2>2, <2>3 DEF Standing, TypeOK, hostVars, Plans
<1>7. CASE Failed(k)
  BY <1>0, <1>6, <1>7, AfterFailure
<1>8. CASE Done(k) /\ proxyFile' = plan.proxy /\ bundle' = Required /\ Recorded
  <2>1. /\ ~Idle' /\ plan' = plan /\ todo' = todo \ {k} /\ result' = result /\ broken' = broken
        /\ manifest' = NewManifest /\ recorded' \subseteq recorded \cup {plan.proxy}
        /\ ~plan.owned => recorded' = recorded
    BY <1>0, <1>8, SuccessGoesOn DEF Recorded
  <2>2. Planning'
    BY <1>1, <1>2, <1>3, <1>8, <2>1 DEF Planning, Required, NewManifest, hostVars
  <2>3. Agreeing'
    BY <1>5, <1>8, <2>1 DEF Agreeing, NewManifest
  <2>4. Recording'
    <3>1. plan.proxy \notin plan.gone
      BY <1>2 DEF TypeOK, Required
    <3> QED
      BY <1>2, <2>1, <3>1 DEF Recording
  <2> QED
    BY <1>0, <1>6, <1>8, <2>2, <2>3, <2>4, AfterSuccess
<1> QED
  BY <1>1, <1>7, <1>8

LEMMA SetEnvironmentStep ==
  ASSUME IInv, SetEnvironment
  PROVE  IInv'
<1> USE DEF IInv
<1> DEFINE k == "set-environment"
<1>0. k \in Kinds \ {"remove-proxy"} /\ k \in Kinds
  BY DEF Kinds
<1>1. /\ UNCHANGED <<hostVars, roots, pems, proxyFile, manifest, bundle, foreign, recorded>>
      /\ Failed(k) \/ (Done(k) /\ env')
      /\ env' = env \/ (env' = TRUE /\ bundle = Required)
  BY DEF SetEnvironment
<1>2. ~Idle /\ plan \in Plans /\ (broken = "deleted" => broken' = "deleted")
  BY <1>0, <1>1, FailureStops, SuccessGoesOn DEF TypeOK
<1>3. Required # None
  BY <1>2, TrustAssumption DEF Plans, Required
<1>4. Standing'
  <2>1. env' \in BOOLEAN
    BY <1>1 DEF TypeOK
  <2>2. BundleIsTrusted'
    BY <1>1, <1>3 DEF BundleIsTrusted
  <2> QED
    BY <1>1, <1>2, <2>1, <2>2 DEF Standing, TypeOK, NeverRemovesForeign, Owning, Backed, hostVars
<1>5. CASE Failed(k)
  BY <1>0, <1>4, <1>5, AfterFailure
<1>6. CASE Done(k) /\ env'
  <2>1. Planning'
    BY <1>0, <1>1, <1>2, <1>6, SuccessGoesOn DEF Planning, Required, NewManifest, hostVars
  <2> QED
    BY <1>0, <1>1, <1>4, <1>6, <2>1, AgreeingKept, RecordingKept, AfterSuccess
<1> QED
  BY <1>1, <1>5, <1>6

\* What is removed is setup's own, and neither retained nor published.
LEMMA RemoveProxyStep ==
  ASSUME IInv, RemoveProxy
  PROVE  IInv'
<1> USE DEF IInv
<1> DEFINE k == "remove-proxy"
<1>0. k \in Kinds
  BY DEF Kinds
<1>1. /\ UNCHANGED <<hostVars, managedVars, foreign>>
      /\ Failed(k) \/ (Done(k) /\ Removed(plan.gone))
      /\ Removed(plan.gone) \/ UNCHANGED <<roots, recorded>>
      /\ Current(k)
  BY DEF RemoveProxy, Failed, Done
<1>2. ~Idle /\ plan \in Plans /\ (broken = "deleted" => broken' = "deleted")
  BY <1>0, <1>1, FailureStops, SuccessGoesOn DEF TypeOK
<1>3. /\ Required \subseteq roots /\ manifest = NewManifest /\ bundle = Required
      /\ plan.gone \cap foreign = {} /\ plan.gone \cap Required = {}
  BY <1>1, <1>2, CurrentIsFirst DEF Planning, TypeOK
<1>4. roots \ plan.gone \subseteq roots' /\ roots' \subseteq roots /\ Required \subseteq roots'
  BY <1>1, <1>3 DEF Removed
<1>5. Standing'
  BY <1>1, <1>2, <1>3, <1>4 DEF Standing, TypeOK, NeverRemovesForeign, BundleIsTrusted, Owning,
     Backed, hostVars, managedVars, Removed, NewManifest, Required
<1>6. CASE Failed(k)
  BY <1>0, <1>5, <1>6, AfterFailure
<1>7. CASE Done(k) /\ Removed(plan.gone)
  <2>1. ~Idle' /\ plan' = plan /\ todo' = todo \ {k} /\ result' = result /\ broken' = broken
    BY <1>0, <1>7, SuccessGoesOn
  <2>2. Planning'
    BY <1>1, <1>2, <1>4, <2>1 DEF Planning, Required, NewManifest, hostVars, managedVars
  <2>3. Agreeing'
    BY <1>1, <2>1 DEF Agreeing, managedVars
  <2>4. Recording'
    BY <1>2, <1>7, <2>1 DEF Recording, Removed
  <2> QED
    BY <1>0, <1>5, <1>7, <2>2, <2>3, <2>4, AfterSuccess
<1> QED
  BY <1>1, <1>6, <1>7

LEMMA VerifyRemovedStep ==
  ASSUME IInv, VerifyRemoved
  PROVE  IInv'
<1> USE DEF IInv
<1> DEFINE k == "verify-removed"
<1>0. k \in Kinds \ {"remove-proxy"} /\ k \in Kinds
  BY DEF Kinds
<1>1. /\ UNCHANGED <<hostVars, roots, managedVars, foreign, recorded>>
      /\ Failed(k) \/ Done(k)
  BY DEF VerifyRemoved
<1>2. ~Idle /\ plan \in Plans /\ (broken = "deleted" => broken' = "deleted")
  BY <1>0, <1>1, FailureStops, SuccessGoesOn DEF TypeOK
<1>3. Standing'
  BY <1>1, <1>2 DEF Standing, TypeOK, NeverRemovesForeign, BundleIsTrusted, Owning, Backed,
     hostVars, managedVars
<1>4. CASE Failed(k)
  BY <1>0, <1>3, <1>4, AfterFailure
<1>5. CASE Done(k)
  <2>1. Planning'
    BY <1>0, <1>1, <1>2, <1>5, SuccessGoesOn
       DEF Planning, Required, NewManifest, hostVars, managedVars
  <2>2. UNCHANGED <<manifest, proxyFile, recorded>>
    BY <1>1 DEF managedVars
  <2> QED
    BY <1>0, <1>3, <1>5, <2>1, <2>2, AgreeingKept, RecordingKept, AfterSuccess
<1> QED
  BY <1>1, <1>4, <1>5

-----------------------------------------------------------------------------
LEMMA InitIInv == Init => IInv
BY TrustAssumption DEF Init, IInv, TypeOK, NeverRemovesForeign, BundleIsTrusted, Owning, Ordered,
   Planning, Backed, Agreeing, Recording, Idle

LEMMA StutterStep ==
  ASSUME IInv, UNCHANGED vars
  PROVE  IInv'
BY DEF IInv, vars, hostVars, managedVars, runVars, TypeOK, NeverRemovesForeign, BundleIsTrusted,
   Owning, Ordered, Planning, Backed, Agreeing, Recording, Idle, Required, NewManifest

\* The inductive invariant: what the manifest calls setup's own is setup's own, what a plan
\* relies on stays true until the operation that needs it, and the operations left are in
\* the planner's order (trustPlanner.ts:187-316).
THEOREM Invariance == Spec => []IInv
<1>1. IInv /\ [Next]_vars => IInv'
  BY EnvironmentStep, MakePlanStep, WritePemsStep, ImportStep, PublishStep, SetEnvironmentStep,
     RemoveProxyStep, VerifyRemovedStep, StutterStep DEF Next, Reconcile
<1> QED
  BY InitIInv, <1>1, PTL DEF Spec

\* A plan never names a retained root, or the proxy CA it installs, for removal
\* (trustPlanner.ts:230-237).
THEOREM TypeCorrectness == Spec => []TypeOK
BY Invariance, PTL DEF IInv

\* A root that somebody else put into the guest's store is never removed by setup, over any
\* sequence of rotations, failures and replays (trustPlanner.ts:130-136, 252-254).
THEOREM KeepsForeignRoots == Spec => []NeverRemovesForeign
BY Invariance, PTL DEF IInv

\* The bundle that Node reads only ever names roots the guest's own store holds
\* (trustPlanner.ts:256-316: verify before publish, publish before remove).
THEOREM PublishesTrusted == Spec => []BundleIsTrusted
BY Invariance, PTL DEF IInv

\* As long as no run fails half way, no run leaves the next one something it would refuse;
\* and only a deleted file can take away the PEM of a retained root (trustPlanner.ts:187-223).
THEOREM RerunsAreAccepted == Spec => []RerunIsAccepted
<1>1. IInv => RerunIsAccepted
  <2> SUFFICES ASSUME IInv, Idle PROVE RerunIsAccepted
    BY DEF RerunIsAccepted
  <2>1. broken # "deleted" => ~MissingPem
    BY DEF IInv, Backed, MissingPem, Retained
  <2>2. broken = "no" => ~Ambiguous
    BY DEF IInv, Agreeing, Ambiguous
  <2> QED
    BY <2>1, <2>2 DEF RerunIsAccepted, Refused
<1> QED
  BY Invariance, <1>1, PTL

\* A run that ends well has removed every other proxy CA setup had installed, but the ones an
\* ambient role keeps, as long as no run failed half way (trustPlanner.ts:206-237).
THEOREM RemovesSuperseded == Spec => []SupersededIsRemoved
<1>1. IInv => SupersededIsRemoved
  <2> SUFFICES ASSUME IInv, result = "ok", broken = "no" PROVE Superseding
    BY DEF SupersededIsRemoved
  <2>1. Idle
    BY TrustAssumption DEF IInv, Planning
  <2>2. CASE manifest = None
    BY <2>1, <2>2 DEF IInv, Recording, Superseding
  <2>3. CASE manifest # None
    BY <2>1, <2>3 DEF IInv, Recording, Superseding
  <2> QED
    BY <2>2, <2>3
<1> QED
  BY Invariance, <1>1, PTL

\* Ambient trust is additive: no step takes a root that is on file out of the guest's store
\* (trustPlanner.ts:130-134, 234).
THEOREM AmbientIsAdditive == Spec => AmbientStaysTrusted
<1> DEFINE Kept == pems \cap roots \subseteq roots'
<1>1. IInv /\ [Next]_vars => [Kept]_vars
  <2> SUFFICES ASSUME IInv, Next PROVE Kept
    OBVIOUS
  <2>1. CASE Environment
    BY <2>1 DEF Environment, Rotate, SelectRoots, OthersAdd, RemoveFile
  <2>2. CASE RemoveProxy
    <3>1. ~Idle /\ pems \subseteq plan.retained /\ plan.gone \cap plan.retained = {}
      BY <2>2 DEF IInv, TypeOK, Idle, Planning, Required, RemoveProxy, Done, Failed, Current
    <3> QED
      BY <2>2, <3>1 DEF RemoveProxy, Removed
  <2>3. CASE Reconcile /\ ~RemoveProxy
    BY <2>3 DEF Reconcile, MakePlan, WritePems, ImportAmbient, ImportProxy, VerifyStore, Publish,
       SetEnvironment, VerifyRemoved, Added
  <2> QED
    BY <2>1, <2>2, <2>3 DEF Next
<1> QED
  BY Invariance, <1>1, PTL DEF Spec, AmbientStaysTrusted

-----------------------------------------------------------------------------
\* The refinement of GuestTrust: each step of the reconciliation is one of its, or a stutter.

\* A run is under way until its last operation, or the first that fails; it ends well only when
\* all is published, named and trusted.
LEMMA OperationRuns ==
  ASSUME IInv, NEW k \in Kinds, Done(k) \/ Failed(k)
  PROVE  /\ ~Idle /\ State = "running" /\ State' \in {"running", "ok", "failed"}
         /\ State' = "ok" => /\ Done(k) /\ Idle'
                             /\ k \in {"set-environment", "verify-removed"} /\ todo = {k}
<1> USE DEF IInv
<1>1. CASE Failed(k)
  BY <1>1, FailureStops, TrustAssumption DEF State
<1>2. CASE Done(k)
  BY <1>2, SuccessGoesOn, TrustAssumption DEF State, Planning
<1> QED
  BY <1>1, <1>2

\* What a run knows once everything is published.
LEMMA PublishedIsAll ==
  ASSUME IInv, ~Idle, {"verify-store", "publish"} \cap todo = {}
  PROVE  /\ bundle = Required /\ Required \subseteq roots
         /\ selected \cup {proxy} \cup pems \subseteq bundle
BY DEF IInv, Planning, Required

\* Before a run: somebody else's roots, lost files, another selection or proxy CA.
LEMMA EnvironmentIsBetween ==
  ASSUME IInv, Environment
  PROVE  Promised!Between
<1>1. Idle /\ Idle' /\ State # "running" /\ State' = State /\ UNCHANGED <<bundle, env>>
  <2>1. Idle /\ UNCHANGED <<plan, result, bundle, env>>
    BY DEF Environment, Rotate, SelectRoots, OthersAdd, RemoveFile, runVars, managedVars
  <2> QED
    BY <2>1 DEF State, Idle, IInv, TypeOK
<1>2. ASSUME NEW c \in Certs, Rotate(c)
      PROVE  Promised!Between
  <2>1. UNCHANGED <<roots, foreign, pems>> /\ selected' \in SUBSET Certs /\ proxy' \in Certs
    BY <1>2 DEF Rotate, managedVars, IInv, TypeOK
  <2> QED
    BY <1>1, <2>1 DEF Promised!Between, Promised!Change
<1>3. ASSUME NEW c \in Certs, OthersAdd(c)
      PROVE  Promised!Between
  <2>1. Promised!OthersAdd(c)
    BY <1>1, <1>3 DEF OthersAdd, Promised!OthersAdd, hostVars, managedVars
  <2> QED
    BY <1>1, <2>1 DEF Promised!Between
<1>4. CASE RemoveFile
  <2>1. pems' \in SUBSET pems
    BY <1>4 DEF RemoveFile
  <2> QED
    BY <1>1, <1>4, <2>1 DEF RemoveFile, Promised!Between, Promised!Lose, hostVars
<1>5. CASE \E S \in SUBSET Certs : SelectRoots(S)
  <2>1. UNCHANGED <<roots, foreign, pems>> /\ selected' \in SUBSET Certs /\ proxy' \in Certs
    BY <1>5 DEF SelectRoots, managedVars, IInv, TypeOK
  <2> QED
    BY <1>1, <2>1 DEF Promised!Between, Promised!Change
<1> QED
  BY <1>2, <1>3, <1>4, <1>5 DEF Environment

LEMMA MakePlanBegins ==
  ASSUME IInv, MakePlan
  PROVE  Promised!Begin
<1>1. Idle /\ plan' # None
  BY PlanIsSound DEF MakePlan, IInv
<1>2. State # "running" /\ State' = "running"
  BY <1>1 DEF State, Idle, IInv, TypeOK
<1> QED
  BY <1>2 DEF MakePlan, Promised!Begin, hostVars, managedVars

\* The operations before the publication add.
LEMMA AdditionIsWithin ==
  ASSUME IInv, WritePems \/ ImportAmbient \/ ImportProxy \/ VerifyStore
  PROVE  Promised!Within
<1>1. PICK k \in {"write-ambient-pems", "import-ambient", "import-proxy", "verify-store"} :
        /\ Done(k) \/ Failed(k)
        /\ UNCHANGED <<hostVars, bundle, env, foreign>>
        /\ \/ UNCHANGED roots /\ pems \subseteq pems' /\ pems' \subseteq pems \cup plan.write
           \/ /\ UNCHANGED pems /\ roots \subseteq roots'
              /\ roots' \subseteq roots \cup plan.import \cup {plan.proxy}
  <2>1. CASE WritePems
    BY <2>1 DEF WritePems
  <2>2. CASE ImportAmbient
    BY <2>2 DEF ImportAmbient, Added, managedVars
  <2>3. CASE ImportProxy
    BY <2>3 DEF ImportProxy, Added, managedVars
  <2>4. CASE VerifyStore
    BY <2>4 DEF VerifyStore, managedVars
  <2> QED
    BY <2>1, <2>2, <2>3, <2>4
<1>2. State = "running" /\ State' \in {"running", "failed"} /\ ~Idle
  BY <1>1, OperationRuns DEF Kinds
<1>3. plan \in Plans
  BY <1>2 DEF IInv, TypeOK
<1>4. Promised!File \/ Promised!Import
  BY <1>1, <1>3 DEF Promised!File, Promised!Import, Plans, IInv, TypeOK
<1> QED
  BY <1>1, <1>2, <1>4 DEF Promised!Within, hostVars

\* What is published is trusted, and is all that is on file and all there is to trust.
LEMMA PublishIsWithin ==
  ASSUME IInv, Publish
  PROVE  Promised!Within
<1>1. /\ Done("publish") \/ Failed("publish")
      /\ bundle' \in {bundle, Required}
      /\ UNCHANGED <<hostVars, roots, pems, env, foreign>>
      /\ Current("publish")
  BY DEF Publish, Done, Failed
<1>2. State = "running" /\ State' \in {"running", "failed"} /\ ~Idle
  BY <1>1, OperationRuns DEF Kinds
<1>3. "verify-store" \notin todo
  BY <1>1, CurrentIsFirst
<1>4. Required \subseteq roots /\ selected \cup {proxy} \cup pems \subseteq Required
  BY <1>2, <1>3 DEF IInv, Planning, Required
<1>5. Promised!Publish \/ Promised!Rest
  BY <1>1, <1>4 DEF Promised!Publish, Promised!Rest
<1> QED
  BY <1>1, <1>2, <1>5 DEF Promised!Within, hostVars

LEMMA SetEnvironmentIsWithin ==
  ASSUME IInv, SetEnvironment
  PROVE  Promised!Within
<1>1. /\ Done("set-environment") \/ Failed("set-environment")
      /\ (bundle = Required /\ env' = TRUE) \/ (UNCHANGED env /\ Failed("set-environment"))
      /\ UNCHANGED <<hostVars, roots, pems, bundle, foreign>>
      /\ Current("set-environment")
  BY DEF SetEnvironment, Done, Failed
<1>2. /\ State = "running" /\ State' \in {"running", "ok", "failed"} /\ ~Idle
      /\ Failed("set-environment") => State' = "failed"
  BY <1>1, OperationRuns, FailureStops, TrustAssumption DEF Kinds, State, IInv
<1>3. /\ bundle = Required /\ Required \subseteq roots
      /\ selected \cup {proxy} \cup pems \subseteq bundle
  BY <1>1, <1>2, CurrentIsFirst, PublishedIsAll
<1>4. Promised!Name \/ Promised!Rest
  BY <1>1, <1>3 DEF Promised!Name, Promised!Rest
<1>5. State' = "ok" => Promised!Converged'
  <2> SUFFICES ASSUME State' = "ok" PROVE Promised!Converged'
    OBVIOUS
  <2>1. env'
    BY <1>1, <1>2
  <2> QED
    BY <1>1, <1>3, <2>1 DEF Promised!Converged, hostVars
<1> QED
  BY <1>1, <1>2, <1>4, <1>5 DEF Promised!Within, hostVars

\* The old proxy CA goes after all else is in place, and alone.
LEMMA RemovalIsWithin ==
  ASSUME IInv, RemoveProxy \/ VerifyRemoved
  PROVE  Promised!Within
<1>1. PICK k \in {"remove-proxy", "verify-removed"} :
        /\ Done(k) \/ Failed(k)
        /\ UNCHANGED <<hostVars, pems, bundle, env, foreign>>
        /\ roots' \in {roots, roots \ plan.gone}
        /\ Current(k)
  BY DEF RemoveProxy, VerifyRemoved, Removed, Done, Failed, managedVars
<1>2. State = "running" /\ State' \in {"running", "ok", "failed"} /\ ~Idle
  BY <1>1, OperationRuns DEF Kinds
<1>3. {"verify-store", "publish", "set-environment"} \cap todo = {}
  BY <1>1, CurrentIsFirst
<1>4. /\ env /\ bundle = Required /\ Required \subseteq roots
      /\ selected \cup {proxy} \cup pems \subseteq bundle
  BY <1>2, <1>3, PublishedIsAll DEF IInv, Planning
<1>5. foreign \cup Required \subseteq roots'
  BY <1>1, <1>2, <1>4 DEF IInv, TypeOK, Planning, NeverRemovesForeign
<1>6. Promised!Remove
  BY <1>1, <1>4, <1>5 DEF Promised!Remove
<1>7. Promised!Converged'
  BY <1>1, <1>4, <1>5 DEF Promised!Converged, hostVars
<1> QED
  BY <1>1, <1>2, <1>6, <1>7 DEF Promised!Within, hostVars

LEMMA StepTrust ==
  ASSUME IInv, [Next]_vars
  PROVE  [Promised!Next]_(Promised!trustVars)
<1>1. CASE UNCHANGED vars
  BY <1>1 DEF vars, hostVars, managedVars, runVars, State, Idle, Promised!trustVars
<1>2. CASE Environment
  BY <1>2, EnvironmentIsBetween DEF Promised!Next
<1>3. CASE Reconcile
  BY <1>3, MakePlanBegins, AdditionIsWithin, PublishIsWithin, SetEnvironmentIsWithin,
     RemovalIsWithin DEF Reconcile, Promised!Next
<1> QED
  BY <1>1, <1>2, <1>3 DEF Next

\* Setup does what GuestTrust promises, for any certificates and over any sequence of rotations,
\* failures and replays: it adds until all is verified, published and named, then removes only
\* what is its own, and says "ok" only when all there is to trust is trusted everywhere
\* (trustPlanner.ts:239-316, trustReconciler.ts:259-331).
THEOREM ImplementsTrust == Spec => GuestTrustSpec
<1>1. Init => Promised!Init
  BY DEF Init, Idle, State, Promised!Init
<1> QED
  BY Invariance, <1>1, StepTrust, PTL DEF Spec, GuestTrustSpec, Promised!Spec
=============================================================================
