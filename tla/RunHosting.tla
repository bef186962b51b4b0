----------------------------- MODULE RunHosting -----------------------------
(***************************************************************************)
(* The blue/green loop of run-hosting (src/runHosting/runHostingLoop.ts):  *)
(* startup, the file watchers, the serialized restart pipeline, and the    *)
(* shutdown paths, interleaved at every `await` of the code.  One step is  *)
(* what runs between two awaits; a docker command, a readiness wait or a   *)
(* drain is in flight while the control point `pc` stays where it is.      *)
(*                                                                         *)
(* A watched file is a version number that grows with every edit, so the   *)
(* policy, a credential and what is rendered from them (envoy.yaml, an SDS *)
(* secret) can be compared for age.  What a version of a credential holds, *)
(* its (access token, account id) pair, is its Identity: it is what the    *)
(* code compares, and an edit may bring an earlier one back.               *)
(* When a channel nudges its CLI is CredentialChannel's subject; here its  *)
(* only effects are edits of the credential file and `Exhausted`.          *)
(***************************************************************************)
EXTENDS Naturals, FiniteSets

CONSTANTS
  Channels,             \* credential channels: claude, codex
  Policy,               \* the three policy files, read together
  McpServers,           \* declared in mcp-servers.yaml
  MaxVersion,           \* bound: the newest version of each watched file
  Identity(_, _),       \* Identity(s, v): what version v of s holds
  None

ASSUME ConstantsAssumption ==
  /\ Policy \notin Channels
  /\ MaxVersion \in [Channels \cup {Policy} -> Nat]
  /\ None \notin Nat
  /\ None \notin {"blue", "green"}
  /\ None \notin [Channels \cup {Policy} -> Nat]

Sources == Channels \cup {Policy}
Colors == {"blue", "green"}
Other(c) == IF c = "blue" THEN "green" ELSE "blue"

\* Two versions hold the same, as a logout and a login as before leave it.
Same(s, v, w) == Identity(s, v) = Identity(s, w)

VARIABLES
  \* -- the host's files and the watchers on them
  file,                 \* newest version of each watched file
  torn,                 \* files that are missing or half written right now
  watching,             \* the watchers are armed
  events,               \* watch events not delivered yet (debounced per file)
  missed,               \* history: edited after the startup read, before the watchers, and
                        \* nothing notified since
  \* -- what the loop rendered, and from what each color was brought up
  disk,                 \* version rendered into envoy.yaml / written as SDS secret
  status,               \* each color's container: "off", "starting", "ready"
  conf,                 \* the rendered versions each color was brought up with
  active,               \* activeColor, None until activePorts is set
  logs,                 \* color the `compose logs --follow` child is attached to
  \* -- the loop
  pc,                   \* where start() or drainRestarts() is suspended
  dirty,                \* dirtyChannels and pendingPolicy
  applying,             \* appliedChannels of the pass in progress
  applied,              \* lastAppliedToken of each channel
  pending,              \* pendingToken of each channel
  \* -- shutdown
  cause,                \* what settled the loop: "none", "signal", "fatal", "mcp", "crash"
  down,                 \* its progress: "no", "stopping", "teardown", "resolved"
  stopping,             \* colors whose stopColor the MCP teardown still awaits
  mcp,                  \* MCP servers alive
  faults                \* history: docker commands that failed, waits that ran out

fileVars == <<file, torn, watching, events, missed>>
proxyVars == <<disk, status, conf, active, logs>>
loopVars == <<pc, dirty, applying, applied, pending>>
downVars == <<cause, down, stopping, mcp>>
vars == <<fileVars, proxyVars, loopVars, downVars, faults>>

settled == cause # "none"

ExitCode == IF cause = "signal" THEN 0 ELSE 1

-----------------------------------------------------------------------------
\* Watched files.  An edit after shutdown began reaches nobody: the watchers are closed.

\* With no MCP server declared there is no await between the startup read and the watchers.
Yields == pc = "mcpPorts" => McpServers # {}

Notify(s) == events' = IF watching THEN events \cup {s} ELSE events

\* The startup gap: what was edited in it unseen, until an event makes the loop look again.
MissedUnless(s, edited) ==
  missed' = IF watching THEN missed \ {s}
            ELSE IF edited /\ pc = "mcpPorts" THEN missed \cup ({s} \cap Channels)
            ELSE missed

\* A later version of a watched file replaces the one that was there.
Edit(s) ==
  /\ ~settled /\ Yields
  /\ \E v \in file[s] + 1 .. MaxVersion[s] : file' = [file EXCEPT ![s] = v]
  /\ torn' = torn \ {s}
  /\ Notify(s)
  /\ MissedUnless(s, TRUE)
  /\ UNCHANGED <<watching, proxyVars, loopVars, downVars, faults>>

\* A writer is caught half way: until its edit is complete the file does not parse.
Tear(s) ==
  /\ ~settled /\ Yields
  /\ s \notin torn /\ file[s] < MaxVersion[s]
  /\ torn' = torn \cup {s}
  /\ Notify(s)
  /\ MissedUnless(s, FALSE)
  /\ UNCHANGED <<file, watching, proxyVars, loopVars, downVars, faults>>

\* mutant: events during a restart are dropped.
RequestedUnlessBusy(s) == IF pc = "idle" THEN dirty \cup {s} ELSE dirty

\* requestRestart: note the source; a pass in progress picks it up when it loops.
Requested(s) == dirty \cup {s}

Deliver(s) ==
  /\ ~settled
  /\ s \in events
  /\ events' = events \ {s}
  /\ dirty' = Requested(s)
  /\ pc' = IF pc = "idle" THEN "pass" ELSE pc
  /\ UNCHANGED <<file, torn, watching, missed, proxyVars, applying, applied, pending,
                 downVars, faults>>

-----------------------------------------------------------------------------
\* shutdown, fatal, mcpFatal: the first to come settles the loop, at once.

\* mutant: settled only once beforeTeardown is over.
SettledAfterTeardown == down \in {"teardown", "resolved"}

AlreadySettled == settled

Settle(why, phase) ==
  IF AlreadySettled
  THEN UNCHANGED <<watching, events, cause, down, stopping>>
  ELSE /\ watching' = FALSE
       /\ events' = {}
       /\ cause' = why
       /\ down' = phase
       /\ stopping' = IF phase = "stopping" THEN Colors ELSE {}

Fatal == Settle("fatal", "teardown")

\* mutant: an MCP fatal shuts down like any other.
McpFatalWithoutStopping == Settle("mcp", "teardown")

McpFatal == Settle("mcp", "stopping")

\* The handlers are installed with the watchers; before that a signal is Node's default.
StopSignal ==
  /\ pc \notin {"boot", "mcpPorts"}
  /\ ~AlreadySettled
  /\ Settle("signal", "teardown")
  /\ UNCHANGED <<file, torn, missed, proxyVars, loopVars, mcp, faults>>

\* A channel's nudge attempts ran out: timers exist once startup is over.
Exhausted ==
  /\ ~settled /\ active # None
  /\ Fatal
  /\ UNCHANGED <<file, torn, missed, proxyVars, loopVars, mcp, faults>>

\* A server exits, or is alive but missed its readiness deadline.
McpFails(s) ==
  /\ ~settled /\ s \in mcp
  /\ mcp' \in {mcp, mcp \ {s}}
  /\ McpFatal
  /\ UNCHANGED <<file, torn, missed, proxyVars, loopVars, faults>>

\* One of the MCP teardown's stopColor calls returns.
McpStop(c) ==
  /\ down = "stopping" /\ c \in stopping
  /\ status' = [status EXCEPT ![c] = "off"]
  /\ stopping' = stopping \ {c}
  /\ down' = IF stopping' = {} THEN "teardown" ELSE down
  /\ UNCHANGED <<fileVars, disk, conf, active, logs, loopVars, cause, mcp, faults>>

\* mutant: Promise.all in place of allSettled, so a rejection ends the chain.
McpStopRejectsAll(c) ==
  /\ down = "stopping" /\ c \in stopping
  /\ stopping' = {}
  /\ faults' = faults \cup {"stop"}
  /\ UNCHANGED <<fileVars, proxyVars, loopVars, cause, down, mcp>>

\* ... or rejects, which allSettled tolerates.
McpStopFails(c) ==
  /\ down = "stopping" /\ c \in stopping
  /\ stopping' = stopping \ {c}
  /\ down' = IF stopping' = {} THEN "teardown" ELSE down
  /\ faults' = faults \cup {"stop"}
  /\ UNCHANGED <<fileVars, proxyVars, loopVars, cause, mcp>>

\* stopLogStream and stopAll, which kills the process tree of every server ever spawned, are
\* done; the loop's promise resolves with ExitCode.
Teardown ==
  /\ down = "teardown"
  /\ down' = "resolved"
  /\ logs' = None
  /\ mcp' = {}
  /\ UNCHANGED <<fileVars, disk, status, conf, active, loopVars, cause, stopping, faults>>

\* prepareRestart: the channels whose file holds another identity than the one applied.
Rewritten == {c \in Channels \cap (dirty \ torn) : ~Same(c, file[c], applied[c])}

\* A rejected port allocation, a failed secret write, or a list that does not parse while it
\* is re-read has no handler of its own: the process exits on the unhandled rejection,
\* without any teardown.
Crash ==
  /\ cause # "crash"
  /\ \/ pc \in {"boot", "mcpPorts", "startPorts", "ports"}
     \/ pc = "pass" /\ ~settled /\ (Rewritten # {} \/ Policy \in dirty \ torn)
  /\ cause' = "crash"
  /\ down' = "resolved"
  /\ pc' = "done"
  /\ watching' = FALSE
  /\ events' = {}
  /\ stopping' = {}
  /\ UNCHANGED <<file, torn, missed, proxyVars, dirty, applying, applied, pending, mcp, faults>>

-----------------------------------------------------------------------------
\* Containers.

\* `compose up --force-recreate` succeeded: c starts from what is rendered now.
BroughtUp(c) ==
  /\ status' = [status EXCEPT ![c] = "starting"]
  /\ conf' = [conf EXCEPT ![c] = disk]

\* It failed, before or after it touched the container.
BringUpFailed(c) ==
  /\ \/ BroughtUp(c)
     \/ status' = [status EXCEPT ![c] = "off"] /\ UNCHANGED conf
     \/ UNCHANGED <<status, conf>>
  /\ faults' = faults \cup {"up"}

\* The container exited or is still not ready; an aborted wait is nobody's fault.
NotReady(c) ==
  /\ \/ status' = [status EXCEPT ![c] = "off"]
     \/ UNCHANGED status
  /\ faults' = IF settled THEN faults ELSE faults \cup {"ready"}

\* stopColor, whose failure is swallowed.
StopColor(c) ==
  \/ status' = [status EXCEPT ![c] = "off"] /\ UNCHANGED faults
  \/ faults' = faults \cup {"stop"} /\ UNCHANGED status

-----------------------------------------------------------------------------
\* start()

\* mutant: commit re-reads the file.
CommittedFromFile(cs) ==
  [c \in Channels |-> IF c \in cs /\ pending[c] # None THEN file[c] ELSE applied[c]]

\* commit(): a staged token becomes the applied one.
Committed(cs) ==
  [c \in Channels |-> IF c \in cs /\ pending[c] # None THEN pending[c] ELSE applied[c]]

Commit(cs) ==
  /\ applied' = Committed(cs)
  /\ pending' = [c \in Channels |-> IF c \in cs THEN None ELSE pending[c]]

StagedAtStartup == [c \in Channels |-> file[c]]

\* Read every credential, write its secret and stage it.
StartupRead ==
  /\ pc = "boot"
  /\ Channels \cap torn = {}
  /\ disk' = [s \in Sources |-> IF s \in Channels THEN file[s] ELSE disk[s]]
  /\ pending' = StagedAtStartup
  /\ pc' = "mcpPorts"
  /\ UNCHANGED <<fileVars, status, conf, active, logs, dirty, applying, applied, downVars, faults>>

\* One is unreadable: fatal, with those before it written already.
StartupReadFails ==
  /\ pc = "boot"
  /\ Channels \cap torn # {}
  /\ \E cs \in SUBSET (Channels \ torn) :
       /\ disk' = [s \in Sources |-> IF s \in cs THEN file[s] ELSE disk[s]]
       /\ pending' = [c \in Channels |-> IF c \in cs THEN file[c] ELSE pending[c]]
  /\ Fatal
  /\ pc' = "done"
  /\ UNCHANGED <<file, torn, missed, status, conf, active, logs, dirty, applying, applied, mcp, faults>>

RenderPolicy == disk' = [disk EXCEPT ![Policy] = file[Policy]]

\* Read the policy, arm watchers and signals, render, start the MCP servers.
LoadPolicy ==
  /\ pc = "mcpPorts"
  /\ Policy \notin torn
  /\ watching' = TRUE
  /\ RenderPolicy
  /\ mcp' = McpServers
  /\ pc' = "startPorts"
  /\ UNCHANGED <<file, torn, events, missed, status, conf, active, logs, dirty, applying,
                 applied, pending, cause, down, stopping, faults>>

\* The policy is unreadable, or envoy.yaml or the leaf cannot be written.
LoadPolicyFails ==
  /\ pc = "mcpPorts"
  /\ Fatal
  /\ pc' = "done"
  /\ UNCHANGED <<file, torn, missed, proxyVars, dirty, applying, applied, pending, mcp, faults>>

\* A server cannot be spawned: the later ones are not tried, start() goes on.
LoadPolicySpawnFails ==
  /\ pc = "mcpPorts"
  /\ Policy \notin torn
  /\ RenderPolicy
  /\ mcp' \in SUBSET McpServers \ {McpServers}
  /\ McpFatal
  /\ pc' = "startPorts"
  /\ UNCHANGED <<file, torn, missed, status, conf, active, logs, dirty, applying,
                 applied, pending, faults>>

\* Ports are allocated; an MCP fatal may have come in the meantime.
StartPorts ==
  /\ pc = "startPorts"
  /\ pc' = IF settled THEN "done" ELSE "startUp"
  /\ UNCHANGED <<fileVars, proxyVars, dirty, applying, applied, pending, downVars, faults>>

StartUp ==
  /\ pc = "startUp"
  /\ BroughtUp("blue")
  /\ pc' = IF settled THEN "done" ELSE "startWait"
  /\ UNCHANGED <<fileVars, disk, active, logs, dirty, applying, applied, pending, downVars, faults>>

StartUpFails ==
  /\ pc = "startUp"
  /\ BringUpFailed("blue")
  /\ Fatal
  /\ pc' = "done"
  /\ UNCHANGED <<file, torn, missed, disk, active, logs, dirty, applying, applied, pending, mcp>>

\* Blue answers /ready (a stopped container does not): it goes live, unless the loop has settled.
StartReady ==
  /\ pc = "startWait" /\ status["blue"] = "starting"
  /\ status' = [status EXCEPT !["blue"] = "ready"]
  /\ IF settled
     THEN pc' = "done" /\ UNCHANGED <<active, logs, applied, pending>>
     ELSE /\ active' = "blue"
          /\ logs' = "blue"
          /\ Commit(Channels)
          /\ pc' = "pass"
  /\ UNCHANGED <<fileVars, disk, conf, dirty, applying, downVars, faults>>

StartNotReady ==
  /\ pc = "startWait"
  /\ NotReady("blue")
  /\ Fatal
  /\ pc' = "done"
  /\ UNCHANGED <<file, torn, missed, disk, conf, active, logs, dirty, applying, applied,
                 pending, mcp>>

-----------------------------------------------------------------------------
\* drainRestarts()

Idle == Other(active)

\* The head of the loop: nothing left to do, or shutting down.
LoopEnd ==
  /\ pc = "pass"
  /\ settled \/ dirty = {}
  /\ pc' = IF settled THEN "done" ELSE "idle"
  /\ UNCHANGED <<fileVars, proxyVars, dirty, applying, applied, pending, downVars, faults>>

\* mutant: credentials are rendered but only a policy change swaps.
SwapOnPolicyOnly(rendered) == Policy \in rendered

RestartNeeded(rendered) == rendered # {}

\* One pass: re-read every dirty source, render what is readable and changed, and
\* swap if anything was rendered.  The policy is rendered whether it changed or not.
Pass ==
  /\ pc = "pass" /\ ~settled /\ dirty # {}
  /\ LET rendered == Rewritten \cup ({Policy} \cap (dirty \ torn)) IN
       /\ disk' = [s \in Sources |-> IF s \in rendered THEN file[s] ELSE disk[s]]
       /\ pc' = IF RestartNeeded(rendered) THEN "ports" ELSE "pass"
  /\ pending' = [c \in Channels |-> IF c \in Rewritten THEN file[c] ELSE pending[c]]
  /\ applying' = Rewritten
  /\ dirty' = {}
  /\ UNCHANGED <<fileVars, status, conf, active, logs, applied, downVars, faults>>

\* The leaf or envoy.yaml cannot be written: fatal.
PassFails ==
  /\ pc = "pass" /\ ~settled
  /\ Policy \in dirty \ torn
  /\ Fatal
  /\ dirty' = {}
  /\ pc' = "done"
  /\ UNCHANGED <<file, torn, missed, proxyVars, applying, applied, pending, mcp, faults>>

\* Ports are allocated and the bring-up begins: `settled` is not looked at here.
Ports ==
  /\ pc = "ports"
  /\ pc' = "up"
  /\ UNCHANGED <<fileVars, proxyVars, dirty, applying, applied, pending, downVars, faults>>

Up ==
  /\ pc = "up"
  /\ BroughtUp(Idle)
  /\ pc' = IF settled THEN "done" ELSE "wait"
  /\ UNCHANGED <<fileVars, disk, active, logs, dirty, applying, applied, pending, downVars, faults>>

\* The current color keeps serving.
UpFails ==
  /\ pc = "up"
  /\ BringUpFailed(Idle)
  /\ pc' = IF settled THEN "done" ELSE "pass"
  /\ applying' = {}
  /\ UNCHANGED <<fileVars, disk, active, logs, dirty, applied, pending, downVars>>

\* mutant: the result of the wait is not looked at.
AfterAnyWait(ready) == IF settled THEN "done" ELSE "stopLog"

AfterWait(ready) == IF settled THEN "done" ELSE IF ready THEN "stopLog" ELSE "stopIdle"

\* The new color is ready: stop following the old one's log.
WaitReady ==
  /\ pc = "wait" /\ status[Idle] = "starting"
  /\ status' = [status EXCEPT ![Idle] = "ready"]
  /\ pc' = AfterWait(TRUE)
  /\ logs' = IF settled THEN logs ELSE None
  /\ UNCHANGED <<fileVars, disk, conf, active, dirty, applying, applied, pending, downVars, faults>>

WaitFails ==
  /\ pc = "wait"
  /\ NotReady(Idle)
  /\ pc' = AfterWait(FALSE)
  /\ UNCHANGED <<fileVars, disk, conf, active, logs, dirty, applying, applied, pending, downVars>>

StopIdle ==
  /\ pc = "stopIdle"
  /\ StopColor(Idle)
  /\ applying' = {}
  /\ pc' = "pass"
  /\ UNCHANGED <<fileVars, disk, conf, active, logs, dirty, applied, pending, downVars>>

\* The color whose log is followed after the flip.
Followed == Idle

\* setActiveBackend, commit, startLogStream: `settled` is not looked at here either.
Flip ==
  /\ pc = "stopLog"
  /\ active' = Idle
  /\ Commit(applying)
  /\ logs' = Followed
  /\ pc' = "drain"
  /\ UNCHANGED <<fileVars, disk, status, conf, dirty, applying, downVars, faults>>

\* The old color has no connections left, the drain timed out, or shutdown aborted it.
Drained ==
  /\ pc = "drain"
  /\ pc' = "stopOld"
  /\ UNCHANGED <<fileVars, proxyVars, dirty, applying, applied, pending, downVars, faults>>

\* mutant: activeColor is read after the flip.
RetiredActive == active

\* The color that served before the flip.
Retired == Other(active)

StopOld ==
  /\ pc = "stopOld"
  /\ StopColor(Retired)
  /\ applying' = {}
  /\ pc' = "pass"
  /\ UNCHANGED <<fileVars, disk, conf, active, logs, dirty, applied, pending, downVars>>

-----------------------------------------------------------------------------
\* Containers left running by an earlier run may still be there.
Init ==
  /\ file = [s \in Sources |-> 0]
  /\ torn = {} /\ watching = FALSE /\ events = {} /\ missed = {}
  /\ disk = [s \in Sources |-> 0]
  /\ status \in [Colors -> {"off", "ready"}]
  /\ conf = [c \in Colors |-> None]
  /\ active = None /\ logs = None
  /\ pc = "boot" /\ dirty = {} /\ applying = {}
  /\ applied = [c \in Channels |-> None]
  /\ pending = [c \in Channels |-> None]
  /\ cause = "none" /\ down = "no" /\ stopping = {} /\ mcp = {}
  /\ faults = {}

Start ==
  \/ StartupRead \/ StartupReadFails
  \/ LoadPolicy \/ LoadPolicyFails \/ LoadPolicySpawnFails
  \/ StartPorts \/ StartUp \/ StartUpFails \/ StartReady \/ StartNotReady

DrainRestarts ==
  \/ LoopEnd \/ Pass \/ PassFails \/ Ports \/ Up \/ UpFails \/ WaitReady \/ WaitFails
  \/ StopIdle \/ Flip \/ Drained \/ StopOld

ShutdownStep ==
  \/ \E c \in Colors : McpStop(c) \/ McpStopFails(c)
  \/ Teardown

Finished == down = "resolved" /\ pc \in {"idle", "done"}

\* Nothing is left to do: the process may end.
Terminated == Finished /\ UNCHANGED vars

Next ==
  \/ \E s \in Sources : Edit(s) \/ Tear(s) \/ Deliver(s)
  \/ StopSignal \/ Exhausted \/ Crash
  \/ \E s \in McpServers : McpFails(s)
  \/ Start \/ DrainRestarts \/ ShutdownStep
  \/ Terminated

\* Every await ends: docker commands return, the readiness wait and the drain have
\* deadlines, watch events are delivered.  Edits, signals and failures owe nothing.
Fairness ==
  /\ WF_vars(Start)
  /\ WF_vars(DrainRestarts)
  /\ WF_vars(ShutdownStep)
  /\ \A s \in Sources : WF_vars(Deliver(s))

Spec == Init /\ [][Next]_vars /\ Fairness

-----------------------------------------------------------------------------
\* Properties.

Versions == [Sources -> Nat]

\* The type invariant; once startup is over every channel has an applied token
\* (commit never records "nothing staged", credentialChannel.ts:119-126).
TypeOK ==
  /\ file \in Versions /\ disk \in Versions
  /\ torn \subseteq Sources /\ events \subseteq Sources
  /\ missed \subseteq Channels /\ dirty \subseteq Sources
  /\ watching \in BOOLEAN
  /\ status \in [Colors -> {"off", "starting", "ready"}]
  /\ conf \in [Colors -> Versions \cup {None}]
  /\ active \in Colors \cup {None} /\ logs \in Colors \cup {None}
  /\ pc \in {"boot", "mcpPorts", "startPorts", "startUp", "startWait", "idle", "pass", "ports",
             "up", "wait", "stopIdle", "stopLog", "drain", "stopOld", "done"}
  /\ applying \subseteq Channels
  /\ applied \in [Channels -> Nat \cup {None}] /\ pending \in [Channels -> Nat \cup {None}]
  /\ active # None => applied \in [Channels -> Nat]
  /\ cause \in {"none", "signal", "fatal", "mcp", "crash"}
  /\ down \in {"no", "stopping", "teardown", "resolved"}
  /\ stopping \subseteq Colors /\ mcp \subseteq McpServers
  /\ faults \subseteq {"up", "ready", "stop"}

\* The gateway's target is a color that passed its health check and was not stopped since:
\* through failed bring-ups, overlapping edits and any shutdown but an MCP fatal (which
\* stops it on purpose), no step of the pipeline takes down the color being served.
ServingColorIsReady ==
  active # None /\ cause \in {"none", "signal", "fatal"} => status[active] = "ready"

\* Whatever commit() records as applied is what the color just made active was brought up
\* with, although the credential file may have moved on during the swap.
CommitMatchesServing ==
  [][\A c \in Channels : applied'[c] # applied[c] =>
       active' # None /\ conf'[active'] # None /\ applied'[c] = conf'[active'][c]]_vars

Quiet == pc = "idle" /\ ~settled /\ events = {}

\* Channels whose last swap failed, and whose file has since gone back to the identity that
\* is recorded as applied: prepareRestart finds nothing to write (credentialChannel.ts:98-104).
Reverted == {c \in Channels : pending[c] # None /\ Same(c, file[c], applied[c])}

\* When the loop has gone quiet what every readable file holds is what is rendered from it,
\* however the edits fell relative to startup and to swaps in progress.  There are two
\* exceptions: a credential edited between the startup read and the arming of its watcher,
\* until the next event of that file; and a Reverted one, whose secret is still the failed
\* swap's.
NoLostUpdate ==
  Quiet => \A s \in Sources \ (torn \cup missed \cup Reverted) : Same(s, disk[s], file[s])

\* ... and, unless a swap failed, everything rendered is being served.
ServedIsRendered ==
  Quiet /\ faults \cap {"up", "ready"} = {} => conf[active] = disk

\* The access log followed is the serving color's, but for the moment of the flip.
LogFollowsActive ==
  active # None /\ ~settled /\ pc # "stopLog" => logs = active

\* Between swaps at most one container this process brought up is running.
IdleColorRetired ==
  pc = "idle" /\ ~settled /\ faults \cap {"up", "stop"} = {} =>
    status[Idle] = "off" \/ conf[Idle] = None

\* What settled the loop first decides the exit code: a SIGINT arriving while an MCP fatal
\* is still stopping the colors cannot turn it into a clean exit.
FirstCauseWins ==
  [][settled => cause' \in {cause, "crash"}]_vars

\* No MCP server outlives a run that was torn down (a crash does not tear down).
NoOrphanMcp == down = "resolved" /\ cause # "crash" => mcp = {}

\* After an MCP fatal the color the gateway pointed at is stopped, wherever the pipeline was.
McpFatalStopsServing ==
  down = "resolved" /\ cause = "mcp" /\ "stop" \notin faults /\ active # None =>
    status[active] = "off"

\* The front door the guests see.
Door ==
  IF settled THEN "down"
  ELSE IF active = None THEN "closed"
  ELSE IF status[active] = "ready" /\ conf[active] # None THEN "open" ELSE "broken"

FD == INSTANCE FrontDoor WITH
        door <- Door,
        served <- IF Door = "open" THEN conf[active] ELSE [s \in Sources |-> 0],
        published <- file

\* The loop implements the front door: no dead listener behind it, never an older version.
FrontDoorSpec == FD!Spec

\* How far the loop is with one credential: the phases of CredentialPath.
Phase ==
  CASE pc \in {"mcpPorts", "startPorts", "startUp", "startWait"} -> "starting"
    [] pc \in {"idle", "pass"} -> "idle"
    [] pc \in {"ports", "up", "wait", "stopIdle", "stopLog"} -> "swap"
    [] pc \in {"drain", "stopOld"} -> "drain"
    [] OTHER -> pc

\* The pass under way was begun for channel c, among others.
Mine(c) == Phase \in {"swap", "drain"} /\ c \in applying

\* What is written as c's secret by this run, and what the serving color has of it.
Secret(c) == IF active = None /\ pending[c] = None THEN None ELSE disk[c]
Live(c) == IF active = None THEN None ELSE conf[active][c]

Path(c) == INSTANCE CredentialPath WITH
             phase <- Phase, mine <- Mine(c), staged <- pending[c], applied <- applied[c],
             secret <- Secret(c), live <- Live(c)

\* Each channel's credential takes the path of CredentialPath, whatever the other channels
\* and the policy do to the swaps they share: commit() records what was staged for that
\* swap, and that is what the color just made active was brought up with, although the
\* file may have moved on in between (credentialChannel.ts:119-126, runHostingLoop.ts:313-320).
\* (In the form in which TLC takes \A c \in Channels : Path(c)!Spec.)
PathSpec ==
  /\ \A c \in Channels : Path(c)!Init
  /\ [][\A c \in Channels : [Path(c)!Next]_(Path(c)!pathVars)]_vars

\* Whenever a file has been edited, what it holds is served in the end, unless it stays half
\* written, a swap failed, the loop settled, or the edit fell into the startup gap.
EditServed ==
  \A s \in Sources :
    watching /\ s \notin missed
      ~> \/ settled \/ s \in torn
         \/ faults \cap {"up", "ready"} # {}
         \/ active # None /\ conf[active] # None /\ Same(s, conf[active][s], file[s])

\* Every shutdown completes, whatever docker command fails on the way, and leaves no MCP
\* server behind, whether it was started before or after another one died.
ShutdownCompletes == settled ~> Finished /\ NoOrphanMcp

=============================================================================
