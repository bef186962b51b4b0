----------------------------- MODULE HostCommands ----------------------------
(***************************************************************************)
(* One operator's commands on one host and environment: the host network's *)
(* (HostNetwork), generate-ca (src/commands/generateCa.ts, src/leaf.ts)    *)
(* and run-hosting as a process (src/commands/runHosting.ts): its relaunch *)
(* through the dedicated node.exe, what it refuses to start without, the   *)
(* services it binds and gives back, its exit code and its alert.  What it *)
(* does while it serves is RunHosting's subject, the names of the leaf     *)
(* PolicyFiles'.                                                           *)
(*                                                                         *)
(* A key pair is a number; a root certificate is the number of its key.    *)
(***************************************************************************)
EXTENDS HostNetwork

VARIABLES
  files,                \* certificates and keys, see Files
  roots,                \* history: root keys made so far
  discarded,            \* history: keys the operator deleted, from the last place they were in
  issued,               \* generate-ca commands given so far
  gca,                  \* generate-ca: its step and the root it works with
  beside,               \* history: run-hosting wrote a leaf's file since generate-ca last began
  hosting,              \* run-hosting, see Hosting
  bound,                \* services that are bound, in the order they were started
  starts                \* times run-hosting was started

caVars == <<files, roots, discarded, issued, gca, beside>>
runVars == <<hosting, bound, starts>>
hostVars == <<networkVars, caVars, runVars>>

Keys == 0..(MaxCommands + 1)
NoKey == 0
\* The leaf: the root that signed it and its own key pair.  Bound: generate-ca and one start of
\* run-hosting make one pair at most.  linux, windows: the copies for the guests.
Pairs == 0..(2 * MaxCommands)
Leaf == [root: Keys, pair: Pairs]
Files == [caCert: Keys, caKey: Keys, legacyKey: Keys, leafCert: Leaf, leafKey: Pairs,
          linux: Keys, windows: Keys, terminates: BOOLEAN]

GcaSteps == {"look", "unlink", "check", "cert", "key", "leaf", "leaf key", "linux", "windows"}

Phases == {"relaunch", "check", "start", "serve", "close", "leave", "ended"}
Parents == {"none", "waits", "spoke"}
Ends == {"none", "usage", "returned", "interrupted", "signal", "lost"}
\* parent: of this process, or what this one is to become; listen: the Internal switch's
\* address it resolved; leaf: what it has written of a leaf; code: 0 where none is set, 2
\* where the loop threw; own: alerts of this process.
Hosting == [phase: Phases, parent: Parents, forward: BOOLEAN, listen: Subnets \cup {None},
            leaf: {"none", "cert", "both"}, code: 0..2, own: 0..2, end: Ends]

HostTypeOK ==
  /\ NetworkTypeOK
  /\ files \in Files
  /\ roots \in Keys /\ discarded \in SUBSET Keys
  /\ issued \in Commands
  /\ gca \in [step: GcaSteps \cup Ended, root: Keys]
  /\ beside \in BOOLEAN
  /\ hosting \in Hosting
  /\ bound \in {<<>>, <<"gateway">>, <<"gateway", "dns">>, <<"gateway", "dns", "dhcp">>}
  /\ starts \in Commands

\* A new environment, or one of the time when the key was in the proxy's directory.
HostInit ==
  /\ NetworkInit
  /\ \E old \in {NoKey, 1}, terminates \in BOOLEAN :
       /\ files = [caCert |-> old, caKey |-> NoKey, legacyKey |-> old,
                   leafCert |-> [root |-> NoKey, pair |-> 0], leafKey |-> 0,
                   linux |-> old, windows |-> NoKey, terminates |-> terminates]
       /\ roots = old
  /\ discarded = {}
  /\ issued = 0
  /\ gca = [step |-> "ok", root |-> NoKey]
  /\ beside = FALSE
  /\ hosting = [phase |-> "ended", parent |-> "none", forward |-> FALSE, listen |-> None,
                leaf |-> "none", code |-> 0, own |-> 0, end |-> "none"]
  /\ bound = <<>>
  /\ starts = 0

-----------------------------------------------------------------------------
\* The operator gives one command at a time; run-hosting goes on beside it.

OneAtATime == Resting /\ gca.step \in Ended
MayCommand == OneAtATime /\ count + issued + starts < MaxCommands

NetworkCommand ==
  /\ NetworkNext
  /\ Resting /\ ~Resting' => MayCommand
  /\ UNCHANGED <<caVars, runVars>>

-----------------------------------------------------------------------------
\* generate-ca.

GcaAt(step) == gca.step = step
GcaTo(step) == gca' = [gca EXCEPT !.step = step]
GcaUnchanged == UNCHANGED <<networkVars, runVars, discarded, issued, beside>>

StartGenerateCa ==
  /\ MayCommand
  /\ issued' = issued + 1
  /\ gca' = [step |-> "look", root |-> NoKey]
  /\ beside' = FALSE
  /\ UNCHANGED <<networkVars, runVars, files, roots, discarded>>

\* A key in the old place is renamed, or copied and deleted where that fails.
LegacyKey ==
  /\ GcaAt("look")
  /\ \/ files.legacyKey = NoKey /\ GcaTo("check") /\ UNCHANGED files
     \/ /\ files.legacyKey # NoKey /\ files.caKey # NoKey
        /\ GcaTo("error") /\ UNCHANGED files
     \/ /\ files.legacyKey # NoKey /\ files.caKey = NoKey
        /\ \/ /\ files' = [files EXCEPT !.caKey = files.legacyKey, !.legacyKey = NoKey]
              /\ GcaTo("check")
           \/ /\ files' = [files EXCEPT !.caKey = files.legacyKey]
              /\ GcaTo("unlink")
  /\ UNCHANGED roots /\ GcaUnchanged

UnlinkLegacy ==
  /\ GcaAt("unlink")
  /\ files' = [files EXCEPT !.legacyKey = NoKey]
  /\ GcaTo("check")
  /\ UNCHANGED roots /\ GcaUnchanged

\* mutant: a root is made whenever its certificate or its key is missing.
EitherMissing ==
  /\ GcaAt("check")
  /\ \/ /\ files.caCert = NoKey \/ files.caKey = NoKey
        /\ gca' = [step |-> "cert", root |-> roots + 1]
     \/ /\ files.caCert # NoKey /\ files.caKey = files.caCert
        /\ gca' = [step |-> "leaf", root |-> files.caCert]
  /\ UNCHANGED <<files, roots>> /\ GcaUnchanged

\* validateCaPair is equality of the numbers.
CheckRoot ==
  /\ GcaAt("check")
  /\ \/ /\ files.caCert = NoKey /\ files.caKey = NoKey
        /\ gca' = [step |-> "cert", root |-> roots + 1]
     \/ /\ files.caCert # NoKey /\ files.caKey = files.caCert
        /\ gca' = [step |-> "leaf", root |-> files.caCert]
     \/ /\ files.caCert # files.caKey
        /\ GcaTo("error")
  /\ UNCHANGED <<files, roots>> /\ GcaUnchanged

WriteRootCert ==
  /\ GcaAt("cert")
  /\ files' = [files EXCEPT !.caCert = gca.root]
  /\ GcaTo("key")
  /\ UNCHANGED roots /\ GcaUnchanged

WriteRootKey ==
  /\ GcaAt("key")
  /\ files' = [files EXCEPT !.caKey = gca.root]
  /\ roots' = gca.root
  /\ GcaTo("leaf")
  /\ GcaUnchanged

\* mutant: an interrupted issue is not noticed.
LeafLooksValid(root) == files.leafCert.pair # 0 /\ files.leafCert.root = root

\* ensureLeaf: is the leaf on disk a pair, and signed by this root?  (Another set of names is
\* left to PolicyFiles.)
LeafValid(root) ==
  /\ files.leafCert.pair # 0 /\ files.leafKey = files.leafCert.pair
  /\ files.leafCert.root = root

WriteLeafCert ==
  /\ GcaAt("leaf")
  /\ \/ /\ ~files.terminates \/ LeafValid(gca.root)
        /\ GcaTo("linux") /\ UNCHANGED files
     \/ /\ files.terminates /\ ~LeafValid(gca.root)
        /\ files' = [files EXCEPT !.leafCert = [root |-> gca.root, pair |-> issued]]
        /\ GcaTo("leaf key")
  /\ UNCHANGED roots /\ GcaUnchanged

WriteLeafKey ==
  /\ GcaAt("leaf key")
  /\ files' = [files EXCEPT !.leafKey = issued]
  /\ GcaTo("linux")
  /\ UNCHANGED roots /\ GcaUnchanged

CopyToLinux ==
  /\ GcaAt("linux")
  /\ files' = [files EXCEPT !.linux = files.caCert]
  /\ GcaTo("windows")
  /\ UNCHANGED roots /\ GcaUnchanged

CopyToWindows ==
  /\ GcaAt("windows")
  /\ files' = [files EXCEPT !.windows = files.caCert]
  /\ GcaTo("ok")
  /\ UNCHANGED roots /\ GcaUnchanged

\* A write fails or the process is killed between two of them.
GenerateCaCutOff ==
  /\ gca.step \notin Ended
  /\ GcaTo("cut off")
  /\ UNCHANGED <<files, roots>> /\ GcaUnchanged

\* What the errors ask for: "delete the one you do not want", "delete it and re-run".
Discard(f) ==
  /\ OneAtATime /\ gca.step = "error"
  /\ files[f] # NoKey
  /\ files' = [files EXCEPT ![f] = NoKey]
  /\ discarded' = IF f = "caCert" \/ files[f] \in {files'.caKey, files'.legacyKey}
                    THEN discarded ELSE discarded \cup {files[f]}
  /\ UNCHANGED <<networkVars, runVars, roots, issued, gca, beside>>

GenerateCa ==
  \/ StartGenerateCa \/ LegacyKey \/ UnlinkLegacy \/ CheckRoot \/ WriteRootCert \/ WriteRootKey
  \/ WriteLeafCert \/ WriteLeafKey \/ CopyToLinux \/ CopyToWindows \/ GenerateCaCutOff
  \/ \E f \in {"caCert", "caKey", "legacyKey"} : Discard(f)

-----------------------------------------------------------------------------
\* run-hosting (on Windows: the relaunch and the alert do nothing elsewhere).

In(phase) == hosting.phase = phase
RunUnchanged == UNCHANGED <<networkVars, caVars, starts>>

\* mutant: the alert forgets that it has spoken.
TriggerAgain(h) == [h EXCEPT !.own = @ + 1]

\* createAbnormalExitAlert: at most once in a process.
Trigger(h) == IF h.own = 0 THEN [h EXCEPT !.own = 1] ELSE h

\* The command's action returns: its last `finally` speaks if an error code is set, and
\* alertOnNonzeroExit (off for an invalid isolation name).  The process goes on to its end.
Return(code, end) ==
  LET h == IF code = 1 /\ end # "usage" THEN Trigger(hosting) ELSE hosting IN
    hosting' = [h EXCEPT !.phase = "leave", !.code = code, !.end = end]

\* The process is gone, and what it had bound is free.
Dies(h, end) ==
  /\ hosting' = [h EXCEPT !.phase = "ended", !.end = end, !.code = 1]
  /\ bound' = <<>>

StartRunHosting ==
  /\ In("ended") /\ hosting.parent # "waits" /\ MayCommand
  /\ starts' = starts + 1
  /\ \E forward \in BOOLEAN :
       hosting' = [phase |-> IF forward THEN "relaunch" ELSE "check",
                   parent |-> IF forward THEN "waits" ELSE "none", forward |-> forward,
                   listen |-> None, leaf |-> "none", code |-> 0, own |-> 0, end |-> "none"]
  /\ UNCHANGED <<networkVars, caVars, bound>>

\* relaunchIfNeeded: with forwarding, a copy of node.exe runs the command and the parent
\* waits; where the copy or the launch fails, the one that was to wait speaks.
Relaunch ==
  /\ In("relaunch")
  /\ \/ hosting' = [hosting EXCEPT !.phase = "check"]
     \/ hosting' = [Trigger(hosting) EXCEPT !.phase = "leave", !.code = 1, !.parent = "none"]
  /\ UNCHANGED bound /\ RunUnchanged

\* Without its preconditions run-hosting refuses: --isolation-name with --no-forward, no
\* environment, the key in the old place, no root, no trust bundle, unusable MCP servers,
\* no address on the adapter.  An invalid isolation name alone is not announced.
Startable ==
  /\ files.legacyKey = NoKey /\ files.caCert # NoKey /\ files.caKey # NoKey
  /\ hosting.forward => address # None

Refuse ==
  /\ In("check")
  /\ \/ Return(1, "none")
     \/ hosting.forward /\ Return(1, "usage")
  /\ UNCHANGED bound /\ RunUnchanged

\* One snapshot gives the address of the gateway, the DNS responder and the DHCP server.
Resolve ==
  /\ In("check") /\ Startable
  /\ hosting' = [hosting EXCEPT !.phase = "start",
                                !.listen = IF hosting.forward THEN address ELSE None]
  /\ UNCHANGED bound /\ RunUnchanged

Wanted == IF hosting.forward THEN <<"gateway", "dns", "dhcp">> ELSE <<"gateway">>

\* services.add, for the next service: it binds, where its address exists still.
AddService ==
  /\ In("start")
  /\ hosting.forward => address = hosting.listen
  /\ bound' = SubSeq(Wanted, 1, Len(bound) + 1)
  /\ hosting' = [hosting EXCEPT !.phase = IF bound' = Wanted THEN "serve" ELSE "start"]
  /\ RunUnchanged

\* It does not: those started before it are closed, and the command ends with code 1.
AddFails ==
  /\ In("start")
  /\ hosting' = [hosting EXCEPT !.phase = "close", !.code = 1]
  /\ UNCHANGED bound /\ RunUnchanged

\* ensureLeaf, when the loop starts and after each policy edit: of another set of names, or
\* because the leaf on disk is not valid.  It writes two files, as generate-ca may be doing.
LeafCertBeside ==
  /\ In("serve") /\ hosting.leaf = "none"
  /\ files.caCert # NoKey /\ files.caKey # NoKey
  /\ files' = [files EXCEPT !.leafCert = [root |-> files.caKey, pair |-> MaxCommands + starts]]
  /\ hosting' = [hosting EXCEPT !.leaf = "cert"]
  /\ beside' = TRUE
  /\ UNCHANGED <<networkVars, roots, discarded, issued, gca, bound, starts>>

LeafKeyBeside ==
  /\ hosting.leaf = "cert" /\ In("serve")
  /\ files' = [files EXCEPT !.leafKey = MaxCommands + starts]
  /\ hosting' = [hosting EXCEPT !.leaf = "both"]
  /\ beside' = TRUE
  /\ UNCHANGED <<networkVars, roots, discarded, issued, gca, bound, starts>>

\* The loop returns its exit code or throws; `finally` closes the services.  The second write
\* of a leaf may have failed, which is an error.
LoopEnds ==
  /\ In("serve")
  /\ \/ hosting.leaf # "cert" /\ hosting' = [hosting EXCEPT !.phase = "close"]
     \/ hosting' = [hosting EXCEPT !.phase = "close", !.code = 1]
     \/ hosting' = [hosting EXCEPT !.phase = "close", !.code = 2]
  /\ UNCHANGED bound /\ RunUnchanged

\* closeAll: the last one started is closed first, whether or not its close fails.
CloseService ==
  /\ In("close") /\ bound # <<>>
  /\ bound' = SubSeq(bound, 1, Len(bound) - 1)
  /\ UNCHANGED hosting /\ RunUnchanged

\* Where the loop has thrown no exit code is set, and the action is rejected.
Closed ==
  /\ In("close") /\ bound = <<>>
  /\ Return(hosting.code, "none")
  /\ UNCHANGED bound /\ RunUnchanged

\* Nothing keeps the process.
Exit ==
  /\ In("leave") /\ hosting.code # 2
  /\ hosting' = [hosting EXCEPT !.phase = "ended", !.end = IF @ = "usage" THEN @ ELSE "returned"]
  /\ UNCHANGED bound /\ RunUnchanged

\* Before the relaunch this is the only process.
Alone(h) == IF h.phase = "relaunch" THEN [h EXCEPT !.parent = "none"] ELSE h

\* An exception or a rejection nobody catches, in any phase, after the command has returned
\* too: the handler speaks and exits.
UncaughtException ==
  /\ ~In("ended")
  /\ In("serve") => hosting.leaf # "cert"
  /\ Dies(Trigger(Alone(hosting)), "returned")
  /\ RunUnchanged

\* Ctrl-C before the loop has installed its handler: node's own, silent, reaction.
InterruptedEarly ==
  /\ hosting.phase \in {"relaunch", "check", "start"}
  /\ Dies(Alone(hosting), "interrupted")
  /\ RunUnchanged

\* The process is ended from outside, between the two files of a leaf perhaps, and whether or
\* not it has spoken.  A parent may be told of a signal, or of an exit code.
Lost ==
  /\ hosting.phase \in {"check", "start", "serve", "close", "leave"}
  /\ \/ hosting.parent = "waits" /\ Dies(hosting, "signal")
     \/ Dies(hosting, "lost")
  /\ RunUnchanged

\* The parent takes an exit code for the child's own and is silent; of a signal, it speaks.
\* (Left out: a parent that ends before its child.)
ParentReturns ==
  /\ In("ended") /\ hosting.parent = "waits"
  /\ hosting' = [hosting EXCEPT !.parent = IF hosting.end = "signal" THEN "spoke" ELSE "none"]
  /\ UNCHANGED bound /\ RunUnchanged

RunHosting ==
  \/ StartRunHosting \/ Relaunch \/ Refuse \/ Resolve \/ AddService \/ AddFails
  \/ LeafCertBeside \/ LeafKeyBeside \/ LoopEnds \/ CloseService \/ Closed \/ Exit
  \/ UncaughtException \/ InterruptedEarly \/ Lost \/ ParentReturns

HostNext == NetworkCommand \/ GenerateCa \/ RunHosting

HostSpec == HostInit /\ [][HostNext]_hostVars

-----------------------------------------------------------------------------
\* "Existing key material is never overwritten" (generateCa.ts:79, docs/adr/0006): a root
\* key that was written is in one of its two places for as long as the operator has not
\* deleted it, whatever interrupted or refused runs of generate-ca lie between.
KeySurvives ==
  \A k \in 1..roots : k \notin discarded => k \in {files.caKey, files.legacyKey}

\* A generate-ca that succeeds leaves one root with its key, that root in both shares, and a
\* leaf that root signed, with its own key, whatever earlier runs of it or of run-hosting left
\* half done.  The leaf alone is excepted once a run-hosting has written to it since
\* generate-ca began: nothing keeps the two from mixing their files (see the README).
CaIsComplete ==
  gca.step = "ok" /\ issued > 0 =>
    /\ files.caCert # NoKey /\ files.caKey = files.caCert /\ files.legacyKey = NoKey
    /\ files.terminates /\ ~beside =>
         /\ files.leafCert.pair # 0 /\ files.leafKey = files.leafCert.pair
         /\ files.leafCert.root = files.caCert
    /\ files.linux = files.caCert /\ files.windows = files.caCert

Alerts == hosting.own + (IF hosting.parent = "spoke" THEN 1 ELSE 0)

\* "At most one alert: the child reports failures it reaches" (docs/adr/0019:13), over the
\* child's return, its exceptions before and after that, and its parent; and one whenever it
\* ends with an error by itself, or the parent is told that it was killed.  Excepted: a child
\* that is killed after it has spoken, for which the parent speaks again (see the README).
SpeaksOnce ==
  /\ Alerts <= IF hosting.end = "signal" THEN 2 ELSE 1
  /\ In("ended") /\ hosting.parent # "waits" /\ hosting.end \in {"returned", "signal"} =>
       (Alerts > 0 <=> hosting.code # 0)

=============================================================================
