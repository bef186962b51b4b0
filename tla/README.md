# A verification of susentorno

susentorno lets an AI agent work in an isolated virtual machine whose only way out is
an Envoy proxy on the host. The host holds the real credentials; the proxy decides which
hosts may be reached and puts the credentials into the requests. This directory holds
TLA+ models of the program's state machines, their model-checking configurations
and machine-checked proofs. Paths like `runHosting/gateway.ts` are relative to
`src/src/`.

Run everything from this directory:

    tlc -workers 2 -config RunHosting.cfg MCRunHosting
    tlapm RunHosting_proofs.tla

## 1. Inventory

### run-hosting: the long-running process

| Part | Code | State | Operations |
|---|---|---|---|
| Supervisor loop | `runHosting/runHostingLoop.ts` | `settled`, `activeColor`, `activePorts`, `restarting`, `dirtyChannels`, `pendingPolicy`, the MCP supervisor | `start`, `requestRestart`, `drainRestarts`, `shutdown`, `fatal`, `mcpFatal`, `onStopSignal`, `onExhausted` |
| Credential channel (one per provider) | `runHosting/credentialChannel.ts`, `planNextActions.ts` | read, applied and pending identity, nudge timer, `lastNudgeAt`, `awaitingOutcome`, `consecutiveFailures` | `startupRead`, `prepareRestart`, `commit`, `armTimer`, `clearTimer`, `doNudge` |
| File watcher | `runHosting/watchFile.ts` | a watcher on the directory, a debounce | one event per burst of writes |
| Colors | `runHosting/colorContainer.ts`, `waitColorReady.ts`, `allocateColorPorts.ts` | two Docker Compose projects, blue and green | `bringUpColor`, `waitColorReady`, `stopColor` |
| Gateway | `runHosting/gateway.ts` | the target ports, the set of piped connections | `onClient`, `setTarget`, `drain`, `close` |
| MCP supervisor | `runHosting/mcpSupervisor.ts` | the child processes | start all, fail on the first death, `stopAll` |
| Access log | `logStream.ts`, `parseLine.ts`, `classify.ts`, `uniqueTracker.ts` | the followed container, hosts already reported | start, stop, classify a line |
| DHCP | `dhcpServer.ts`, `dhcpHandler.ts`, `dhcpLeases.ts` | lease table, declined addresses | DISCOVER, REQUEST, RELEASE, DECLINE, INFORM |
| DNS | `dnsResponder.ts` | none | answers every name with the host's address |
| Command | `commands/runHosting.ts`, `serviceStack.ts`, `relaunchViaDedicatedNode.ts`, `abnormalExitAlert.ts` | the process and its parent, the started services, the exit code | relaunch, preflight, start in order, close in reverse, alert |

The loop is single-threaded, but it is full of `await`s, and between any two of them file
events, timers, nudge results, child deaths and Ctrl+C are delivered. Files are edited
under it by the user and by the providers' own command-line tools, which refresh their
tokens when the channel "nudges" them. Interactions: a watcher calls `requestRestart`;
the loop asks each dirty channel for `prepareRestart` (which writes the secret file),
renders the Envoy configuration, brings up the idle color, waits for readiness, moves the
gateway's target, commits the channels, drains and stops the old color; a channel's timer
starts a nudge, whose success is seen only as a change of the credentials file; a channel
out of attempts, a dead MCP server, an error while rendering, or Ctrl+C shut the loop down.

### The other commands

| Part | Code | State | Operations |
|---|---|---|---|
| Network policy | `policyFile.ts`, `allowlist.ts`, `blockList.ts`, `mcpServers.ts`, `envoyConfig.ts`, `buildConfig.ts` | the three lists, `mcp-servers.yaml`, the rendered configuration, the names of the leaf | parse, prune, combine, resolve collisions, render, import, reload |
| Host network | `hostNetwork/*` | the Hyper-V switch, its adapter's address, the firewall rules, the rules a prompt left | `create-host-network`, `delete-host-network` |
| VM reconciliation | `guestSetup/vmReconcile.ts` | VM power state, adapter's switch | stop, confirm Off, connect, start |
| Windows guest trust | `guestSetup/windows/trustPlanner.ts`, `trustReconciler.ts` | the guest's root store, managed PEM files, manifest, bundle, environment variable | plan, then one guest invocation per operation |
| Windows guest setup | `setupFlow.ts`, `stepRunner.ts`, `guestExecutor.ts`, `shareCredential.ts`, `interruptHandler.ts` | the step reached, outstanding bridges, the stored share credential | steps, cancellation, cleanup |
| Unix guest setup | `guestSetup/unix/*` | none of its own | idempotent steps over ssh |
| Share weaving | `weaveShares.ts`, `weaveScripts.ts`, `commands/updateShares.ts` | the live script folders, their backups | stage every folder, swap one after the other, undo |
| Certificates | `ca.ts`, `leaf.ts`, `commands/generateCa.ts` | the root's certificate and key, the leaf's, the copies in the shares | move an old key, check, issue, copy |
| Environment files, CLI | `initEnv.ts`, `cli.ts`, ... | files | one-shot writes |

### What is hard, and what makes each part correct

* **Supervisor loop.** Interleaving at every `await`; failures of Docker; shutdown racing a
  swap. The gateway never points at a color that is not ready; a failed swap leaves the
  running one alone; no edit is lost; what is committed is what serves; shutdown completes
  and leaves neither MCP servers nor, after an MCP fatal, the proxy the gateway points at.
* **Credential channel.** Late results, timers that outlive the token they were armed for,
  bounded retries. The channel always wakes in time, never gives up before it has made all
  its attempts nor makes more, and token and account stay in step.
* **Gateway.** Connections of two colors at once. No connection is cut by the stop of the old
  color, a drain closes only old connections, and a swap ends.
* **DHCP.** An unreliable network, expiry on both sides, an in-memory table. No two clients
  use one address.
* **Windows guest setup.** Ctrl+C makes the flow leave what it awaits, but the guest script and
  the move of the machine go on without it, and the cleanup runs against both under three time
  limits. A guest is isolated only when it can live there; what the footer says is so; nothing
  this run started goes on unseen; Ctrl+C is always answered.
* **Network policy.** Three lists and a fourth file, edited by hand and combined by pruning, two
  orders of precedence and a collision rule, become filter chains and virtual hosts of a proxy that
  matches by its own rules. A connection goes where the lists say; the credential is put in for
  its placeholder and for nothing else; Envoy takes the configuration; the leaf covers it.
* **Windows trust.** External mutations, any of which may fail, replayed later. A replay converges,
  and never removes what the tool did not install.
* **Host network, certificates, shares.** One-shot commands that make several calls or writes, each
  of which may fail, and that may be cut off between any two. What a later command that succeeds
  leaves is complete whatever earlier ones left half done, and no key and no folder is ever lost.
* **The command run-hosting.** Two processes, several speakers and several ways to end: one alert.

`PROJECT.json` lists every hazard at its line with the property that watches it.

## 2. Plan

Modules, in the order of the importance of what they model. A module that can be proved
about has no RECURSIVE operator, its parameters are CONSTANTS with a named assumption, and
its state-changing code is one action per stretch between two awaits.

| Module | Models | Composition | State |
|---|---|---|---|
| `FrontDoor` | abstract: what guests are promised | implemented by `RunHosting` | done |
| `CredentialPath` | abstract: what becomes of one credential between its file and the serving color | implemented by `RunHosting`, once per channel, and by `CredentialChannel` | done |
| `RunHosting` | supervisor loop, watchers, colors, MCP servers, shutdown | uses the channel only through `prepareRestart`/`commit`/`onExhausted` | done, safety proved |
| `CredentialChannel` | one channel with timers and nudges | its loop is `RunHosting` reduced to the order of its calls | done, proved |
| `Connections` | abstract: what a guest's connection is promised | implemented by `Gateway` | done |
| `Gateway` | connections, drain, ports | its swap is `RunHosting`'s, its colors known by port | done, safety proved |
| `GuestTrust` | abstract: what a guest that is brought to trust its host's roots is promised | implemented by `WindowsTrust` | done |
| `WindowsTrust` | planner, reconciler, guest scripts | alone: one run at a time, host and guest included | done, proved |
| `DhcpServer` | lease table, handler, guests, network | alone | done, proved |
| `WindowsSetup` | `setupFlow`, `stepRunner`, `shareCredential`, `guestExecutor`, `interruptHandler`, `vmReconcile`, `isolatedReadiness` | composes the machine, the guest's scripts, the share credentials and the flow; trust (G5) is one step of it | done, safety proved |
| `NetworkPolicy` | the lists, their combination, the rendered configuration, what Envoy does with it | operators only | done |
| `PolicyFiles` | edits, import, damage, reload, the leaf, `generate-ca` beside it | `NetworkPolicy` as state; how files reach a color is `RunHosting`'s | done, proved |
| `HostNetwork` | `create-host-network`, `delete-host-network`, the host | a layer of `HostCommands` | done, proved |
| `HostCommands` | `generate-ca`, run-hosting as a process | extends `HostNetwork`: one operator, one host | done, proved |
| `AtomicUpdates` | abstract: what updates of several folders promise | implemented by `ShareSwap` | done |
| `ShareSwap` | `update-shares` | shares no state with `HostCommands`, and is checked in one run with it | done, proved |

Abstract specifications: the front door and, once per channel, the path of a credential, which
`RunHosting` implements; the same path, which `CredentialChannel` implements; the connections, which
`Gateway` implements; a guest's trust, which `WindowsTrust` implements; the updates of folders, which
`ShareSwap` implements; and a policy as the function from a request to a decision (`Promised443`,
`Promised80` of `PolicyFiles`, stated of the lines of the lists alone), which the rendered
configuration is proved to implement.

Every safety property of a passing run is also a theorem (section 5); what TLC alone shows is
liveness.

## 3. The modules and the code

### RunHosting and FrontDoor

`RunHosting` is `runHostingLoop.ts`, with what it does to containers (`colorContainer.ts`,
`waitColorReady.ts`), files (`credentialChannel.ts` reads and secrets, `policyFile.ts`),
watchers (`watchFile.ts`) and MCP servers (`mcpSupervisor.ts`). JavaScript runs one stretch of
code at a time, so one action is what runs from one `await` to the next, and `pc` is the await
at which `start()` or `drainRestarts()` is suspended:

| `pc` | suspended at | actions |
|---|---|---|
| `boot` | the startup reads | `StartupRead`, `StartupReadFails` |
| `mcpPorts` | allocating the MCP servers' ports, then reading the policy | `LoadPolicy`, `LoadPolicyFails`, `LoadPolicySpawnFails` |
| `startPorts`, `startUp`, `startWait` | first bring-up | `StartPorts`, `StartUp`(`Fails`), `StartReady`, `StartNotReady` |
| `idle` | nothing: waiting for events | `Deliver` starts a pass |
| `pass` | the head of `drainRestarts`' loop | `LoopEnd`, `Pass`, `PassFails` |
| `ports`, `up`, `wait`, `stopIdle` | bring-up of the idle color | `Ports`, `Up`(`Fails`), `WaitReady`, `WaitFails`, `StopIdle` |
| `stopLog`, `drain`, `stopOld` | the flip and what follows | `Flip`, `Drained`, `StopOld` |
| `done` | returned | |

Edits, torn reads, signals, exhausted channels and dying MCP servers interleave with all of them. A
watched file is abstracted to the number of its edits, its version, so that "older" and "newer" can
be said of what is rendered (`disk`), what a container was brought up with (`conf`) and what was
committed (`applied`). What the code compares is not the version but the token and the account in
it: `Identity(s, v)`, a constant function, so that a later version may hold what an earlier one did
and `prepareRestart` then finds nothing to write (`Rewritten`). The shutdown runs beside the loop
(`down`): an MCP fatal first stops both colors, then every cause ends the log stream and the MCP
servers. A rejected promise nobody handles is `Crash`: the process exits without a teardown.

`missed` records the credential edits that fall between the startup read and the arming of the
watchers. The loop does not see them until the next event of that file, which ends the exception;
the properties about lost edits exclude exactly those, by name. `Reverted` are the channels whose last
swap failed and whose file has since gone back to the applied identity (section 6); `NoLostUpdate`
excludes those too.

`FrontDoor` is the promise to a guest. Under the mapping `Door` the door is `open` when the
active color is ready, and `broken`, which the abstract specification does not have, when it
points at one that is not: so the refinement also shows that this never happens.

`CredentialPath` is the path of one credential, whatever drives it: a value is read, staged and
written as a secret in one step; a swap either serves what is written and records what was staged
for it, or leaves both records alone. `RunHosting` implements it once per channel (`Path(c)`),
although the channels share swaps, secrets are written while other swaps fail, and the file moves
on during them. `CredentialChannel` implements the same specification (`Path`) with its own, much
smaller loop. The two models are thus held to one interface: what the channel assumes of the loop's
calls (`Prepare` between passes, `SwapFlips` at most once in one, `PassEnds`) is what the loop
does, as far as the credential goes. A loop that has settled does not begin passes; one under way
may still flip, in both models, as the code does not look at `settled` between.

### CredentialChannel

`credentialChannel.ts` with `planNextActions.ts`. The clock is a number, a timer fires when it
is due or any time later, a nudge's promise resolves whenever it likes and in any order, and
the CLI's effect is a `Rewrite` of the credential file. `RunHosting` is reduced to `loop`: the
order in which it calls the channel, with a swap (`swap`, `drain`) of any duration between
`prepareRestart` and `armTimer`, and swaps caused by other sources. `base` is history: how
many nudges had been launched when the expiry last advanced. The account matters for codex
only; claude's credential has none, which is the case of a single account. `mounts` are codex's
placeholder files, one in every VM share: a sync (`rewriteCodexPlaceholderMounts.ts`) writes one after
the other and stops at the first failure, so that a failed one may have rewritten some. `sync` is
history: "failed" after a failed attempt, "forgotten" once the file has gone back to the account that
was synced before it and the attempt is not made again.

### Gateway

`gateway.ts` and the part of the loop that drives it. As in the code a connection is known by
the port it is piped to, not by the color; the swap under which it was accepted is history.
`Drain` is one poll; `Forced` is the wait for the `close` events of the sockets that were
destroyed. A bring-up may fail with the container up or down, and `stopColor`'s failure is
swallowed, so that a color that should be gone may be up until the next bring-up recreates it.

`Connections` is the promise to a guest's connection: it belongs to the generation (the number of
flips) it was accepted for, is closed from outside only when that generation has been replaced and
before the next one is, and keeps its proxy until a shutdown. The refinement (`Connected`) reads the
generation off the history variable of the accept, and `lost` off the ports that are up: it shows
that the drain, which knows a connection by its port alone, hits the right ones although the
allocator hands out ports again.

### WindowsTrust

`trustPlanner.ts` is a set of operators over the snapshot, `trustReconciler.ts` one action per
guest invocation, each with its failure after any part of the script's work
(`trustScripts.ts`). A certificate is its fingerprint. Between runs the proxy CA is rotated,
the host's selection changes, others add roots, and managed files get lost; during a run they
do not: the snapshot and the operations are seconds apart, and the model does not claim more.

`GuestTrust` is what the guest is promised of a run, with no planner, manifest or order of operations
in it: a run only adds until all there is to trust (the host's selection and the proxy CA), with all
that is on file, is trusted, published and named; it takes something out of the store only then, and
nothing foreign, on file or published; and it ends well only with all of that in place. The refinement
(`Promised`) maps the store, the files, the bundle and the variable as they are, and the state of the
run to `State`. What ownership is for is hidden by it: that nothing foreign is removed needs the
manifest to be right over all earlier runs.

### DhcpServer

`dhcpLeases.ts` and `dhcpHandler.ts`, one action per datagram that changes anything, and
`Restart` for a run-hosting that stops and starts again. An address is its slot in the pool,
an expiry is what is left of it. Guests and network are external: a guest counts its lease
from the moment it asks for it and heeds only the answer to its last datagram (RFC 2131), and
the switch loses datagrams but keeps their order. The table's iteration order decides which of
two leases of one guest `existing` finds; the model takes either.

### WindowsSetup

`setupFlow.ts` with everything it awaits. `pc` is the phase (H1 to G13, as in the code's own
list; `G4host`, `G4write`, `G4verify`, `G6close`, `G7host`, `G13close` are the awaits inside
them), then `drain`, `cleaning` and `dispose` for `cleanup()` and `dispose()`, then `report`: the
two questions to Hyper-V before the footer, with the interrupt handler gone (`setupGuestWindows.ts:143`),
where a Ctrl+C ends the process without a footer (`CtrlCInReport`).

| Code | Model |
|---|---|
| the flow's local state, `ShareCredentialLedger` | `secret`, `outcome`, `ledger`, `open`; `steps` counts the steps that succeeded |
| a guest script under way (`invoke`, `outstanding`) | `script`: what it still has to do, a step at a time (`ScriptRuns`) |
| the same after Ctrl+C made `invoke` reject | `behind`; after its bridge was killed it is `stray` if it goes on, and `hung` until the bridge closes; `held` is history: such a bridge has held the ending up |
| `reconcileVmToSwitch`, `isolateVmToSwitch` | `job`, one action per command; it goes on when the flow has left it |
| Hyper-V and the guest | `power`, `switch`, `pending` (a reboot is owed), `cred`, `conn` (Credential Manager and connections, per address) |
| the drain's, the cleanup's and dispose()'s timers, the exit deadline | `t` since the outcome, `since` for the stage, `interrupted` for the first Ctrl+C |

Any check or script may fail, hang, or die with the machine at any point of its work. A script
the flow gives up for another reason than Ctrl+C was ended by the runner in the guest. Only one
script that goes on without a bridge is remembered.

### NetworkPolicy and PolicyFiles

`NetworkPolicy` holds operators only. A host name is a value, and `Below` says which name is a
subdomain of which; a list is a set of lines.

| Code | Model |
|---|---|
| `parseAllowListFile`, `parseAuthListFile`, `parseBlockListFile`, `prunePassthrough` | `ParsedAllow`, `ParsedAuth`, `ParsedBlock`, `Pruned` |
| `combinePolicy`: the block list, then candidate, github, codex, claude, allow | `Combined` with `Blocked`, `StrongerThan` |
| `resolveMcpAllowlistCollisions` | `McpResolved` |
| `generateEnvoyConfig`: filter chains, virtual hosts, clusters and the HTTP filters of a chain | `Rendered`; a chain is its route, its names, its cluster and what its filters accept and inject |
| the Lua gate, `credential_injector`, the post filter | `Gate`, `InjectAuth`, `InjectAccount`, `Post`; `Upstream` is what leaves |
| Envoy's choice of a chain or virtual host (external) | `Selected`: an exact name, then the longest suffix |
| `import-sbx-network-policy` | `ImportedAllow`, `ImportedAuth` |

`PolicyFiles` gives them state: the lists as they are edited, what `envoy.yaml` was last rendered
from, the names of the leaf on disk and of the one the serving color loaded. `Apply` is
`applyPolicy` and the swap after it, `Rotate` the swap of a changed credential, which loads the
files as they are.

### HostNetwork, HostCommands and ShareSwap

The operator's one-shot commands, one action per PowerShell call, file written or renamed, and
external call; each may fail, do part of its work, or be the last thing the process did.

* `HostNetwork`. `cmd` is the command with its step and what it read at its start. A firewall rule
  is bound to an adapter, so that the rules of a removed switch are on none. A sweep may leave
  some rules and say so, or fail as a whole, which the code reads as nothing found (`silent`).
* `HostCommands` adds `generate-ca` (`gca`, `files`: the root, its key in its two places, the leaf's
  files and the shares' copies, a key pair being a number) and run-hosting as a process (`hosting`,
  `bound`): relaunch, refusals, services in their order, the leaf it writes itself when the loop starts
  or a policy changes, and the exit code. Who speaks is kept apart: `Trigger` is the guard that speaks
  once in a process (`own`), called when the command returns (`Return`) and by the handlers of
  uncaught exceptions, which may come in any phase and after the return (`UncaughtException`, until
  `Exit`); the parent decides for itself when the child is gone (`ParentReturns`). `Discard` is the
  operator doing what an error message asks for. `beside` is history: run-hosting has written to the
  leaf's files since generate-ca began.
* `ShareSwap`. `live` and `backup` are the folders the guests see and the ones moved aside; a
  backup bears the id of its process, and ids come back. `update` is the command with its step.
  `before`, `stuck` and `again` are history. What is staged is read by nobody but its own process.

`AtomicUpdates` is what an update promises to those who use the folders meanwhile: each folder shows
what was there, or what the update built, or is missing for a moment; the folders go over one at a time
while the update goes forward and go back once it has turned back; one that ends well has put over all
of them, one that ends with an error none, or all with nothing left but tidying up; and every folder
exists whole somewhere. The refinement (`Published`) numbers what is in a folder by the update that
built it. The one way out is `collided`, an update that works on a backup it takes for its own.

## 4. Runs

| Run | Bounds | Shows |
|---|---|---|
| `run_hosting` | one channel, the policy, one MCP server, two edits of the credential, the second to something new or back to what it was, and one of the policy | the safety of the swap pipeline and of all shutdown paths, that it implements `FrontDoor` and `CredentialPath`, that every edit is served and every shutdown completes |
| `credential_channel` | two attempts, two accounts, two mounts, two rewrites, a clock from 0 to 2, timers that can hold one tick | attempts made before giving up, timers in time, token and account in step, `CredentialPath` |
| `credential_channel_exhausted` | one rewrite, a clock from 0 to 6 | finding 1 |
| `gateway` | two connections, six ports, three swaps | zero downtime, `Connections`, and the end of every drain |
| `dhcp_server` | two guests, a pool of three with the host in it, leases of two ticks, two datagrams of each guest under way | nobody shares an address |
| `windows_trust` | three certificates | that it implements `GuestTrust`: foreign roots survive, success is complete; superseded roots go, what is published is trusted |
| `windows_trust_replay` | three certificates | finding 2 |
| `windows_setup` | two steps before isolation, one after; one Ctrl+C anywhere, and a second; units of two seconds | isolation is gated, the footer is true, the limits fit, Ctrl+C is answered |
| `policy_files` | three names below one another, ten lines, two rows of an import, one MCP server or none | requests go where the lists say, credentials where they are promised |
| `policy_files_leaf` | the same | finding 3 |
| `host_commands` | three commands of `HostNetwork` and `HostCommands` in any order, two subnets, one NAT address, one rule left by a sweep; or three of `update-shares`, two folders, two process ids | what a command that succeeds leaves, what is never lost, who says that run-hosting has ended, and that `ShareSwap` implements `AtomicUpdates` |
| `host_network_delete` | three commands of `HostNetwork` | finding 4 |

### The properties

* `RunHosting`. `ServingColorIsReady`: the gateway's target is never a color that failed, was
  stopped, or is not ready. `NoLostUpdate`, `ServedIsRendered`: when the loop is quiet,
  what every readable file holds is what is rendered, even if it has been held before, and, if no swap
  failed, what was rendered is served. Excepted are an edit in the startup gap and a `Reverted` channel.
  `PathSpec`: each credential takes the path of `CredentialPath`; `commit()` records what the new
  color was brought up with even though the file has changed since. `McpFatalStopsServing`,
  `FirstCauseWins`: what a shutdown leaves behind and how it exits. `EditServed`,
  `ShutdownCompletes`: liveness; the end of a shutdown leaves no MCP server.
* `CredentialChannel`. `WakesInTime`: never asleep past the moment to act, and awake early only when
  setTimeout could not hold the delay. `GivesUpOnlyAfterAttempts`: not before the configured number
  of nudges since the token last advanced, whatever late results and timers do. `AccountInSync`:
  every mount carries the account last read, through failed swaps and syncs that stop half way,
  unless the last sync failed. `ServesWhatWasRead`: what the proxy serves is one identity, and the
  last one read. `PathSpec`: the same path as `RunHosting`'s, driven by the channel's own view of
  the loop.
* `Gateway`. `NothingCutByStop`: no open connection is to a color that is down, until a shutdown.
  `ConnectionsSpec`: each connection keeps its generation and ends as `Connections` allows.
  `SwapEnds`: guests cannot hold a swap up.
* `WindowsTrust`. `GuestTrustSpec`: every step is one `GuestTrust` allows, so nothing somebody else
  put into the store is ever removed, and a run that ends well leaves everything trusted everywhere.
  `BundleIsTrusted`: what Node reads is in the guest's own store. `RerunIsAccepted`: no run leaves the
  next one what it refuses, unless it failed half way. `SupersededIsRemoved`: nor an old proxy CA.
* `DhcpServer`. `NoDuplicateAddress`: no two guests acknowledged by one run of the server use
  one address, and one lease time after a restart nobody does, although the table was lost.
  `LeaseBacksUse`: the server keeps a lease at least as long as its guest uses the address.
  `RenewalIsGranted`: a renewal is refused only if the address was declined.
* `WindowsSetup`. `IsolationIsGated`: the adapter moves only while the machine is off, and to
  the Internal switch only after every step, the reboot gate and both credentials, even when
  the flow has left the move. `LedgerIsTrue`: what the footer says of the credentials is so in
  the guest. `NothingLeftRunning`: no bridge is outstanding when it is printed.
  `SuccessIsComplete`. `EndingFits`: an ending nobody interrupts is over within the cleanup's and
  the disposal's limits unless a killed bridge does not close, and the exit is forced only then.
  `CtrlCIsAnswered`: liveness, up to the footer's turn; what the footer asks Hyper-V may hang.
* `PolicyFiles`. `RoutesAsListed`: every connection and request goes where the lines promise, no
  matter which of them stand together. `EnvoyAccepts`: no name is claimed twice. `LeafCoversTerminated`:
  the leaf that is served has every name whose TLS is terminated. `InjectedAsPromised`: what goes
  upstream is what came, but for a placeholder, and none of the proxy's own markers.
* `HostNetwork`. `CreateIsExact`: a create that succeeds leaves exactly the rules of the switch as it
  is. `DeleteLeavesOrphans`: a delete that succeeds leaves only what was out of its reach before,
  which is less than is said of it (finding 4).
* `HostCommands`. `KeySurvives`: no root key is lost but by the operator's hand. `CaIsComplete`: a
  `generate-ca` that succeeds leaves files of one root and, unless run-hosting wrote to it meanwhile,
  one leaf. `SpeaksOnce`: one alert for an abnormal end, of the command's return, a handler or the
  parent, whichever of them see it; none for another end; two only for a child killed after it spoke.
* `ShareSwap`. `UpdatesSpec`: an update puts over all folders or puts them all back, as
  `AtomicUpdates` allows; and each folder is still there whole, in place or as a backup, however
  updates failed, were cut off and were given again, unless one was given the process id of another
  that had left a backup, which it deletes first.

Proved, and in no run: each module's type invariant, `LogFollowsActive`, `IdleColorRetired`,
`NoOrphanMcp`, `CommitMatchesServing` (`RunHosting`), `AttemptsAreBounded`, `SettledIsQuiet`
(`CredentialChannel`), `NeverRemovesForeign`, `AmbientStaysTrusted` (`WindowsTrust`),
`FoldersSurvive`, `UpdateIsAllOrNothing` (`ShareSwap`).

### Bounds and why they are enough

Every bound is a CONSTANT: `MaxVersion`, `MaxNow`, `MaxWrites`, `MaxLife`, `MaxSwaps`, `MaxSent`,
`LeaseTime`, `Size`, `MaxCommands`, `MaxLeft`, `Folders`, `MaxTime`, and the sets of lines an edit
may add; `MaxTrouble` and what follows a mixture of commands are bounds of the MC modules. Two edits
of the credential in `RunHosting` let it change, and change again during the swap for the first
change, which is when what is in the file, staged, written and served are four different things; the
second edit may bring back what was there before the first (`MCIdentity`), also after the swap for
the first has failed. The policy's one edit falls before, during or after any of that, with a torn
write before each. Files that are torn and kinds of docker failures add up to two (`MaxTrouble` of
`MCRunHosting`), to one once the credential has been edited twice: a failure is met while another's
effects last, or while a file cannot be read. An earlier run has left both colors running or none
(`MCInit`). The policy and one channel are already two sources that get dirty independently, and the
safety properties are proved for any number of channels. Two attempts are the smallest number at
which a failure is followed by a retry and by giving up; two rewrites let an account change and
change back during a swap; two mounts, of which a failing sync may have rewritten one. Two nudges
may be under way at once. A token lives one to three ticks and a timer holds one, so timers fire in
time and early. Three swaps reuse the ports of the first, and six ports are what a serving color,
one whose stop failed and a third can need at once. Two DHCP guests whose identities hash to the
same slot compete for every address; two datagrams under way are enough for a RELEASE followed by a
REQUEST, or a REQUEST for another server after an offer reserved a lease. Three certificates can be
old CA, new CA and ambient root at once, or the same one. `PreSteps` = 2 lets a run be cut between
two steps, `PostSteps` = 1 has the last directory end with its first. The limits of `WindowsSetup`
(8, 20, 5 and 30 seconds) keep their order and, rounded up, their sums: what fits the exit deadline
in the model fits it in the code. A bridge that hangs in an ending nobody interrupts is waited for
without a limit; the clock stops at `MaxTime`, past the sum that `EndingFits` compares with. The
three names of `MCPolicyFiles` are one below the other, with each kind of section, both ports, an
exact and a wildcard line of allow and block list among the ten lines: every two rules that can
collide do. Three commands are enough for one that is cut off, one that copes with it or fails as
well, and one that succeeds. Two folders have one swapped and one not; two process ids make a backup
one's own or another's. `update-shares` is not mixed with the other commands, with which it shares
no state; nor do `generate-ca` and the network's commands share any, so that where both are given,
`generate-ca` has succeeded first and the third command is left to run-hosting, which reads what
both have made; an environment without a terminated host, which tells only `generate-ca` anything,
is given that command alone; and one of the host's subnets at most is taken. A start of run-hosting
writes one leaf at most, which is all it takes to mix two. Where the theorems below hold, the bounds
do not matter: they are proved for all values. Symmetry is used only in runs of invariants and
action properties over interchangeable model values.

### Fairness

`RunHosting` assumes weak fairness of `Start`, `DrainRestarts` and `ShutdownStep`: each awaits
a docker command that exits, a readiness wait or a drain with a deadline, or kills processes.
It assumes it of `Deliver`, as the event loop and the debounce timer deliver a file event. It
assumes nothing of edits, signals or failures. A docker command that never returns is outside
this assumption: the code gives `compose` no timeout, so a hung daemon hangs a shutdown that
has to wait for it. `EditServed` excludes edits whose swap failed: the code does not
retry a failed swap, by design, but waits for the next edit. `Gateway` assumes weak fairness of
the loop's swap and of the drain's deadline, and nothing of guests. `WindowsSetup` assumes it of
`EndNext`, the timers and the ending's own steps, and of nothing in the guest, Hyper-V, a prompt
or a bridge: all of these may hang. The footer's questions to Hyper-V may hang as well: `Report` is not
among the fair steps, and `CtrlCIsAnswered` ends at the footer's turn. The other
specifications are safety specifications.

## 5. Theorems

Each `*_proofs` module defines an inductive invariant `IInv` as a conjunction of named parts,
has one lemma per action or family of actions, and derives the properties from `IInv`.
The assumptions are those on the constants (`ConstantsAssumption`, `ChannelAssumption`,
`TrustAssumption`, `DhcpAssumption`, `GatewayAssumption`, `WindowsSetupAssumption`, `LinesAssumption`,
`HostNetworkAssumption`, `ShareSwapAssumption`: naturals are naturals, `None` is none of the values
it stands in for, lines are lines; and `NamesAssumption`: names end with one another as domain
names do, in trees), and TLC evaluates them in the runs. The other proof modules name their
invariants `GInv`, `WInv`, `PInv`, `HInv` and `SwapInv`.

| Module | Proved for every value of the constants | Why the invariant has to be stronger |
|---|---|---|
| `RunHosting_proofs` | `TypeOK`, `ServingColorIsReady`, `LogFollowsActive`, `NoOrphanMcp`, `IdleColorRetired`, `NoLostUpdate`, `ServedIsRendered`, `McpFatalStopsServing`, `CommitMatchesServing`, `FirstCauseWins`, and the refinements `Spec => FrontDoorSpec`, `Spec => PathSpec` and `Spec => Path(c)!Spec` for every channel `c` | `Control` ties `pc` to `active` and the shutdown; `Serving` says the color about to be flipped to is ready; `Staging` that what is staged, rendered and brought up agree from bring-up to flip, and that with nothing staged what is applied is what is rendered; `Ordered` and `BuiltBehind` that versions only grow, which is the refinement's "never older"; `Noted` that a file holding something else than what is rendered has an event or a dirty mark, or is `Excused`: a channel outside a pass that is `Reverted`; `Stopped` what an MCP fatal has stopped or still awaits; `Current` that a pass that rendered ends in a flip or a failure. The path needs nothing more: a step maps to a step of `CredentialPath` or a stutter (`StepPath`) by what `Staging` says of the pass under way |
| `CredentialChannel_proofs` | `TypeOK`, `GivesUpOnlyAfterAttempts`, `AttemptsAreBounded`, `SettledIsQuiet`, `AccountInSync`, `ServesWhatWasRead`, `WakesInTime`, and the refinement `Spec => PathSpec` | `Attempts` is the equation `launched = base + failures + 1` while a nudge is awaited; `Staged` says what is staged is what was read; `Synced` what was last synced while no attempt has failed; `Control` what has been read where, and that an awaited nudge has a time; `WakesInTime` is inductive beside them: whoever changes what the moment depends on arms the timer before the loop is idle again |
| `WindowsTrust_proofs` | `TypeOK`, `NeverRemovesForeign`, `BundleIsTrusted`, `RerunIsAccepted`, `SupersededIsRemoved`, `AmbientStaysTrusted`, and the refinement `Spec => GuestTrustSpec` | `Planning` says what each operation still to run may rely on, and what those that ran have established; `Owning`, `Agreeing`, `Backed` and `Recording` relate manifest, proxy PEM, ambient PEMs and the store |
| `DhcpServer_proofs` | `TypeOK`, `NoDuplicateAddress`, `LeaseBacksUse`, `RenewalIsGranted` | an address is `Holds`-held by a guest that uses it or has an acknowledgement it has not taken; `Backed` gives each such address a lease, `Exclusive` one holder, `Fades` lets what a former run granted run out within `grace`; `LastIsAsked`, `AnswersAsked` and `OnlyRenews` relate a guest to its datagrams |
| `Gateway_proofs` | `TypeOK`, `NothingCutByStop`, and the refinement `Spec => ConnectionsSpec` | `Standing` says which colors are up in each phase of a swap, one whose stop failed included, and that fresh ports are none of theirs; `Piped` where connections can lead; `Aged` that those accepted since the last flip, and only they, lead to the target |
| `WindowsSetup_proofs` | `TypeOK`, `EndingFits`, `LedgerIsTrue`, `SuccessIsComplete`, `NothingLeftRunning`, `IsolationIsGated` | `Path` is what a phase may take for granted; `Careful` says a script touches a credential only while the ledger makes no promise of it; `MoveOrder` follows the machine's move once the flow has left it; `Cleaning`, `Hanging` and `Timing` are the ending, for which `LimitsFit` uses `Deadline` as well |
| `PolicyFiles_proofs` | `PolicyTypeOK`, `RoutesAsListed`, `EnvoyAccepts`, `LeafCoversTerminated`, `InjectedAsPromised` | the state part is small (what is rendered is the rendering of what was read, the leaf covers it); the work is in lemmas about the operators: what a section holds after pruning and precedence (`Sections`, `PassExact`, `PassWild`), and that Envoy's longest match finds what the lines promise (`ExactWins`, `NarrowestExists`, `BlockIsNarrower`) |
| `HostCommands_proofs` | `HostTypeOK`, `CreateIsExact`, `DeleteLeavesOrphans`, `KeySurvives`, `CaIsComplete`, `SpeaksOnce`; of `ShareSwap`: `SwapTypeOK`, `FoldersSurvive`, `UpdateIsAllOrNothing`, and the refinement `SwapSpec => UpdatesSpec` | `Creating`, `Adding`, `Reachable`, `Deleting` say what a command has established step by step; `Numbered` and `Rooting` that keys are made once and where they are, `Deriving` what a `generate-ca` has already brought in line, but for a leaf that was written `beside` it; `Binding` and `Said` what is bound and who has spoken in each phase and for each end; `Kept` that every folder is whole somewhere else than where the update works, `Forward` and `Backward` which folders are swapped and which put back; `Unstuck` that an update that goes on has moved back whatever it tried to. A step maps to a step of `AtomicUpdates` or a stutter (`StepPublished`), as it moves one folder at most |

The theorems hold for any number of names, lines, folders, ports, connections and steps; the
commands of `HostSpec` are bounded by `MaxCommands`, which is any natural.

Only model-checked: the liveness properties `EditServed`, `ShutdownCompletes`, `SwapEnds`
and `CtrlCIsAnswered` (liveness under fairness is out of the prover's reach). No
module has a recursive operator, so induction over data is not needed anywhere. The four findings are
counterexamples of TLC.

## 6. Findings

1. **A refreshed token can be nudged until run-hosting exits** (`ExhaustedOnlyWhenDue`,
   `credentialChannel.ts:109`). `prepareRestart` stops awaiting an outcome but leaves the
   outcome deadline armed until the swap has drained. If it fires in between, it is taken for
   a nudge that is due; that nudge cannot advance the expiry, and after the configured
   attempts the process exits with a fresh token. The number of attempts is respected
   (`GivesUpOnlyAfterAttempts`); they are just not due.
2. **A replay does not converge once the manifest is published** (`ReplayConverges`,
   `trustPlanner.ts:230`): the old proxy CA stays in the guest's store for good. A related
   case is the refusal `Ambiguous`: a publication interrupted between the proxy PEM and the
   manifest, followed by another rotation, has to be resolved by hand. `RerunIsAccepted` says
   that this needs a run that failed half way.
3. **`generate-ca` beside a run-hosting drops the MCP names from the leaf** (`ServedLeafCoversMcp`,
   `generateCa.ts:95`). `docs/adr/0006` says the leaf carries the declared MCP hosts; `generate-ca`
   issues it for the hosts of `auth-list.txt` alone, and the next credential swap loads that one.
   `LeafCoversTerminated` says that this is the only way.
4. **`delete-host-network` loses sight of rules it has left** (`DeleteLeavesNoRule`,
   `deleteHostNetwork.ts:54`). The rules of the gateway, the DNS responder and the DHCP server are
   looked for on the adapter only, and the switch is removed with its adapter whatever became of the
   sweep. Once one delete has left a rule and removed the switch, whichever way it came to that, the
   next one finds nothing, counts no failure and reports success with the rule still there.
   `docs/adr/0023` calls deletion "both an undo operation and recovery from partial host state", and
   `createHostNetwork.ts:117-120` names it as what cleans up rules found by their names. A later create
   removes them, as it sweeps by name. `DeleteLeavesOrphans` is what does hold.

Other observations, each of something a model contains. Where one is at odds with a comment or a
document, that is quoted; none has a run of its own.

* A credential swap fails and the file then goes back to what is served: A, then B, whose secret is
  written before the swap fails, then A again. `prepareRestart` finds token and account equal to the
  applied ones and rewrites nothing, so B's secret stays on disk and the next swap, of a policy edit say,
  serves B while the channel's record says A (`credentialChannel.ts:98-104`; `Reverted`).
* An MCP fatal stops both colors (the comment at `runHostingLoop.ts:143` says so), but a bring-up under
  way at that moment ends after that and leaves its color running: the first one of `start` (:426), or
  one of `drainRestarts`, which does not look at `settled` between allocating ports and `compose up`
  (:285). `start` looks once, before its bring-up (:421-424). The color the gateway points at is
  stopped all the same (`McpFatalStopsServing`), so guests reach nothing.
* A codex account sync stops half way, and the file goes back to the account of the last good sync: the
  mounts that were rewritten keep the other account, and the sync is not tried again, although
  `credentialChannel.ts:105-107` and `commands/runHosting.ts:480` say of a failed one that it is
  retried on the next read (`SkipSync`, the "forgotten" of `sync`).
* `run-hosting` and `generate-ca` both write the leaf's certificate and then its key, with no lock
  between them: interleaved they leave files of two pairs, which `generate-ca` reports as success
  (`leaf.ts:37-38`; `beside`). The next `ensureLeaf` of either notices and issues a new leaf.
* A child of run-hosting that speaks and is then killed by a signal is announced again by its parent.
  `docs/adr/0019:13` has "at most one alert" with a parent that "speaks only when relaunch itself fails
  before a child runs", and `relaunchViaDedicatedNode.ts:43-48` takes a signal to mean that nothing else
  could have spoken (`Lost`, `SpeaksOnce`).
* A Windows setup that ends by itself and has to kill a bridge waits for that bridge to close without a
  limit (`guestExecutor.ts:291-294`; `held`). The footer waits for Hyper-V without a limit
  (`residualStateFooter.ts:27-30`), and a Ctrl+C there ends the process with no footer
  (`setupGuestWindows.ts:143`; `CtrlCInReport`).
* Two listed hosts that differ only in punctuation get clusters of one name, which Envoy does not take
  (`envoyConfig.ts:77`; `EnvoyAccepts` excepts such lists).
* `setTimeout` cannot hold a delay of more than 24.8 days and fires at once: a token that lives longer is
  nudged immediately (`credentialChannel.ts:169`; `MaxDelay` is the limit, `WakesInTime` the bound).
* The drain waits 8 s for a script that has 60 and then kills the bridge, which does not by itself end
  the script in the guest: a late write can land after the delete, and the footer then says
  "removed" of a credential that is there (`guestExecutor.ts:292`; `LedgerIsTrue` excepts exactly this).
* An MCP host's exact block line is set aside for both ports, though the MCP server answers on 443
  only: with `--skip-allow-list` its port 80 is open (`mcpServers.ts:140`; `Promised80` says so).
* A PowerShell that fails as a whole is read as a sweep that found nothing
  (`hostNetworkFirewallOps.ts:137`; `silent`).
* A misspelt pragma in `auth-list.txt` ends run-hosting without its teardown, as the parse is outside
  the `try` (`runHostingLoop.ts:248`; `ReloadThrows`, and a case of `Crash`).
* `update-shares` deletes a backup that bears its own process id before it has looked at it: after a
  crash between the two renames, an update that happens to get the same id deletes the last copy
  of what was there (`weaveShares.ts:196`; `again`). The folder is built anew all the same.

## 7. Not modelled

* Formats: the wire format of DHCP and DNS, YAML, PEM, the syntax of the Envoy configuration, the
  lines of the access log; the wording of warnings (`collisions.ts`), prompts and help.
* DNS responder and the classification of access-log lines: stateless, or state that only decides
  what is printed.
* Environment files, placeholders, the CLI: one-shot writes, covered by unit tests.
* Unix guest setup: idempotent steps over ssh without state of their own.
* Envoy itself beyond the choice of chain and virtual host and the three kinds of HTTP filters; its
  restart by Docker after a crash.
* Windows setup: what the structural checks look at, the retries of probes, redaction, other
  people's changes to the machine or its credentials during a run.
* Host network: a switch that the query fails to show, beside which a second of the same name is
  made; other isolation names; what network interfaces look like.
* Credentials: the sync of the codex account reads the credentials file again; what it finds is taken to
  be what was just read.
* Certificates: cryptography and expiry. A leaf in `HostCommands` is valid for its names, which are
  `PolicyFiles`'.
* Shares: how scripts are collected, numbered and checked for collisions, the preview of the
  transforms, the dry run, and staging folders that a killed process leaves.
* run-hosting's parent ending before its child.
* Two commands at a time on one environment (but run-hosting, which goes on beside the others), a
  second run-hosting on the same directory, power loss of the host, and a docker daemon that hangs
  for ever.
