-------------------------- MODULE CredentialChannel --------------------------
(***************************************************************************)
(* One credential channel (src/runHosting/credentialChannel.ts): it reads  *)
(* the credential file, stages what it read for the next proxy, and keeps  *)
(* the token fresh by nudging the provider's CLI shortly before expiry,    *)
(* with a deadline per nudge and a bounded number of attempts.             *)
(*                                                                         *)
(* The loop that owns the channel (RunHosting) is reduced to when it calls *)
(* startupRead, prepareRestart, commit, armTimer and clearTimer; between   *)
(* prepareRestart and armTimer it may be busy with a swap for any time.    *)
(* Time is a clock; a timer fires when it is due or later; a nudge returns *)
(* whenever it likes; a credential file is a token, an account and an      *)
(* expiry, rewritten by the CLI, the user, or both.                        *)
(***************************************************************************)
EXTENDS Integers, FiniteSets

CONSTANTS
  RefreshWindow, RetryInterval, MaxAttempts, RefreshEnabled,
  Accounts,             \* account ids
  Mounts,               \* codex placeholder mounts, one in every VM share
  None,
  MaxDelay,             \* the longest delay setTimeout takes (2^31 - 1 ms)
  MaxLife,              \* bound: a new token expires within MaxLife from now
  MaxNow,               \* bound: the clock
  MaxWrites             \* bound: rewrites of the credential file

ASSUME ChannelAssumption ==
  /\ RefreshWindow \in Nat /\ RetryInterval \in Nat \ {0}
  /\ MaxAttempts \in Nat \ {0} /\ RefreshEnabled \in BOOLEAN /\ Mounts \in Nat \ {0}
  /\ MaxDelay \in Nat /\ MaxLife \in Nat /\ MaxNow \in Nat /\ MaxWrites \in Nat
  /\ None \notin Int /\ None \notin Accounts /\ None \notin Nat \X Accounts
  /\ None \notin [token: Nat, account: Accounts, expires: Nat]

VARIABLES
  now,
  file,                 \* the credential file: [token, account, expires]
  torn,                 \* it is unreadable right now
  dirty,                \* a change of it is waiting for the loop
  writes,               \* rewrites so far (bound)
  loop,                 \* "boot", "starting", "idle", "swap", "drain", "done"
  applying,             \* this channel is in the pass's appliedChannels
  settled,              \* the loop is shutting down
  read,                 \* lastReadCreds, with lastSeenExpiresAt
  applied,              \* lastAppliedToken and lastAppliedAccountId
  pending,              \* pendingToken and pendingAccountId
  secret,               \* the identity written as the channel's SDS secret
  live,                 \* the identity the serving proxy was brought up with
  undone,               \* history: a swap failed since the last commit
  synced,               \* lastSyncedAccountId
  mounts,               \* the account each mount carries, None as an earlier run left it
  sync,                 \* history: the last attempt to sync was "ok", it "failed" at the last
                        \* read, or it is "forgotten": it failed before, and is not due now
  timer,                \* when the timer is due, None when there is none
  awaiting,             \* awaitingOutcome
  failures,             \* consecutiveFailures
  lastNudgeAt,
  launched,             \* nudges started so far
  inflight,             \* those that have not returned
  base,                 \* history: launched when the expiry last advanced
  exhausted             \* onExhausted was called

hostVars == <<now, file, torn, dirty, writes>>
loopVars == <<loop, applying, settled>>
credVars == <<read, applied, pending, secret, live, undone, synced, mounts, sync>>
nudgeVars == <<timer, awaiting, failures, lastNudgeAt, launched, inflight, base, exhausted>>
vars == <<hostVars, loopVars, credVars, nudgeVars>>

Identity(creds) == <<creds.token, creds.account>>

Later(a, b) == IF a > b THEN a ELSE b

-----------------------------------------------------------------------------
\* The host.

Tick ==
  /\ now < MaxNow
  /\ now' = now + 1
  /\ UNCHANGED <<file, torn, dirty, writes, loopVars, credVars, nudgeVars>>

\* The watcher is armed some time between the startup read and the end of startup.
Notify ==
  CASE loop = "boot" -> dirty' = FALSE
    [] loop = "starting" -> dirty' \in {dirty, TRUE}
    [] OTHER -> dirty' = TRUE

\* A refresh, a login as someone else, or a rewrite that only moves the expiry.
Rewrite ==
  /\ ~settled /\ writes < MaxWrites
  /\ writes' = writes + 1
  /\ file' \in [token: {file.token, writes'}, account: Accounts, expires: now + 1 .. now + MaxLife]
  /\ torn' = FALSE
  /\ Notify
  /\ UNCHANGED <<now, loopVars, credVars, nudgeVars>>

\* Caught half written; the rest follows (a Rewrite).
Tear ==
  /\ ~settled /\ ~torn /\ writes < MaxWrites
  /\ torn' = TRUE
  /\ Notify
  /\ UNCHANGED <<now, file, writes, loopVars, credVars, nudgeVars>>

-----------------------------------------------------------------------------
\* Timers and nudges.

\* mutant: the refresh window is added, not taken off.
NudgeAtTooLate(creds, waiting, nudgedAt) ==
  IF ~RefreshEnabled THEN None
  ELSE IF waiting /\ nudgedAt # None THEN nudgedAt + RetryInterval
  ELSE Later(creds.expires + RefreshWindow, now)

\* planNextActions' nudgeAt, from the channel's state after the step.
NudgeAt(creds, waiting, nudgedAt) ==
  IF ~RefreshEnabled THEN None
  ELSE IF waiting /\ nudgedAt # None THEN nudgedAt + RetryInterval
  ELSE Later(creds.expires - RefreshWindow, now)

\* armAt: setTimeout fires a delay it cannot hold at once.
ArmAt(at) == timer' = IF at # None /\ at - now > MaxDelay THEN now ELSE at

ArmTimer == ArmAt(NudgeAt(read', awaiting', lastNudgeAt'))

\* doNudge up to its await: launch the CLI, arm the outcome deadline.
DoNudge ==
  /\ awaiting' = TRUE
  /\ lastNudgeAt' = now
  /\ ArmAt(now + RetryInterval)
  /\ launched' = launched + 1

\* handleFailedAttempt: give up after MaxAttempts in a row, else nudge again at once.
HandleFailedAttempt ==
  /\ failures' = failures + 1
  /\ IF failures' >= MaxAttempts
     THEN /\ exhausted' = TRUE
          /\ settled' = TRUE
          /\ timer' = None
          /\ UNCHANGED <<awaiting, lastNudgeAt, launched>>
     ELSE DoNudge /\ UNCHANGED <<settled, exhausted>>

Launches == IF launched' = launched THEN {} ELSE {launched'}

\* onTimer: a deadline that passed is a failed attempt, else it is time to nudge.
OnTimer ==
  /\ ~settled
  /\ timer # None /\ now >= timer
  /\ IF awaiting
     THEN HandleFailedAttempt
     ELSE DoNudge /\ UNCHANGED <<settled, failures, exhausted>>
  /\ inflight' = inflight \cup Launches
  /\ UNCHANGED <<hostVars, loop, applying, credVars, base>>

\* mutant: a result is counted although nothing is awaited any more.
HeedsWhateverIsAwaited == ~settled

Heeds == ~settled /\ awaiting

\* A nudge returns.  Success settles nothing: only an advanced expiry does.
NudgeReturns(n, ok) ==
  /\ n \in inflight
  /\ IF Heeds /\ ~ok
     THEN HandleFailedAttempt
     ELSE UNCHANGED <<settled, timer, awaiting, failures, lastNudgeAt, launched, exhausted>>
  /\ inflight' = (inflight \ {n}) \cup Launches
  /\ UNCHANGED <<hostVars, loop, applying, credVars, base>>

-----------------------------------------------------------------------------
\* The calls of the loop.

\* syncAccountId rewrites one mount after the other and stops at the first failure, which
\* is reported, never fatal: the mounts before it have been rewritten.
Sync(account) ==
  \/ /\ mounts' = [m \in 1 .. Mounts |-> account]
     /\ synced' = account
     /\ sync' = "ok"
  \/ /\ \E done \in 0 .. Mounts - 1 :
          mounts' = [m \in 1 .. Mounts |-> IF m <= done THEN account ELSE mounts[m]]
     /\ synced' = synced
     /\ sync' = "failed"

\* The account is the one last synced: nothing is done, whatever an attempt since has left.
SkipSync ==
  /\ UNCHANGED <<synced, mounts>>
  /\ sync' = IF sync = "ok" THEN "ok" ELSE "forgotten"

\* mutant: compared with what the proxy committed, not with the last good sync.
SyncIsDueByApplied(creds) == applied = None \/ creds.account # applied[2]

SyncIsDue(creds) == creds.account # synced

\* writeSecret, and what it stages for the next commit.
Stage(creds) == secret' = Identity(creds) /\ pending' = Identity(creds)

StartupRead ==
  /\ loop = "boot"
  /\ IF torn
     THEN /\ settled' = TRUE /\ loop' = "done"
          /\ UNCHANGED credVars
     ELSE /\ Stage(file)
          /\ read' = file
          /\ Sync(file.account)
          /\ loop' = "starting"
          /\ UNCHANGED <<settled, applied, live, undone>>
  /\ UNCHANGED <<hostVars, applying, nudgeVars>>

\* mutant: the account id is not compared.
ChangedByToken(creds) == creds.token # applied[1]

\* A new token (plan.propagate) or a new account: the proxy has to be swapped.
Changed(creds) == Identity(creds) # applied

\* mutant: commit re-reads the file.
CommitFile ==
  /\ undone' = FALSE
  /\ applied' = IF pending # None THEN Identity(file) ELSE applied
  /\ pending' = None

\* commit(): a staged identity becomes the applied one.
Commit ==
  /\ undone' = FALSE
  /\ IF pending # None
     THEN applied' = pending /\ pending' = None
     ELSE UNCHANGED <<applied, pending>>

\* The startup bring-up succeeded: commit and arm.
Started ==
  /\ loop = "starting" /\ ~settled
  /\ Commit
  /\ live' = secret
  /\ loop' = "idle"
  /\ UNCHANGED <<hostVars, applying, settled, read, secret, synced, mounts, sync, awaiting, failures,
                 lastNudgeAt, launched, inflight, base, exhausted>>
  /\ ArmTimer

\* The refresh landed.
Advanced(creds) == creds.expires > read.expires

\* prepareRestart of an unreadable file leaves everything as it was.
PrepareUnreadable ==
  /\ loop = "idle" /\ ~settled /\ dirty /\ torn
  /\ dirty' = FALSE
  /\ UNCHANGED <<now, file, torn, writes, loopVars, credVars, nudgeVars>>

\* prepareRestart, and armTimer at once unless the pass swaps: for this channel's new
\* identity, or for another source of the same pass (`others`).
Prepare(others) ==
  /\ loop = "idle" /\ ~settled /\ dirty /\ ~torn
  /\ dirty' = FALSE
  /\ applying' = Changed(file)
  /\ IF Changed(file) THEN Stage(file) ELSE UNCHANGED <<secret, pending>>
  /\ IF SyncIsDue(file) THEN Sync(file.account) ELSE SkipSync
  /\ IF Advanced(file)
     THEN failures' = 0 /\ awaiting' = FALSE
     ELSE UNCHANGED <<failures, awaiting>>
  /\ base' = IF file.expires > read.expires THEN launched ELSE base
  /\ read' = file
  /\ UNCHANGED <<now, file, torn, writes, settled, applied, live, undone, lastNudgeAt, launched,
                 inflight, exhausted>>
  /\ IF applying' \/ others
     THEN loop' = "swap" /\ UNCHANGED timer
     ELSE loop' = "idle" /\ ArmTimer

\* Another source's swap, in a pass that does not read this channel.
OthersSwap ==
  /\ loop = "idle" /\ ~settled /\ live # secret
  /\ live' = secret
  /\ UNCHANGED <<hostVars, loopVars, read, applied, pending, secret, undone, synced, mounts, sync, nudgeVars>>

\* The swap flips: commit, then drain the old color.  A shutdown that begins while the log
\* follower is being stopped does not prevent it.
SwapFlips ==
  /\ loop = "swap"
  /\ loop' = "drain"
  /\ live' = secret
  /\ IF applying THEN Commit ELSE UNCHANGED <<applied, pending, undone>>
  /\ UNCHANGED <<hostVars, applying, settled, read, secret, synced, mounts, sync, nudgeVars>>

\* mutant: the timer is re-armed even while shutting down.
MayArmAlways == TRUE

MayArm == ~settled

\* The pass is over, by a swap that failed or one that has drained.
PassEnds ==
  /\ loop \in {"swap", "drain"}
  /\ applying' = FALSE
  /\ undone' = (undone \/ (loop = "swap" /\ applying))
  /\ UNCHANGED <<hostVars, settled, read, applied, pending, secret, live, synced, mounts, sync,
                 awaiting, failures, lastNudgeAt, launched, inflight, base, exhausted>>
  /\ IF MayArm
     THEN loop' = "idle" /\ ArmTimer
     ELSE loop' = "done" /\ UNCHANGED timer

\* The loop shuts down for a reason of its own: clearTimer.
Settle ==
  /\ ~settled /\ loop # "boot"
  /\ settled' = TRUE
  /\ timer' = None
  /\ UNCHANGED <<hostVars, loop, applying, credVars, awaiting, failures, lastNudgeAt, launched,
                 inflight, base, exhausted>>

-----------------------------------------------------------------------------
Init ==
  /\ now = 0
  /\ file \in [token: {0}, account: Accounts, expires: 0 .. MaxLife]
  /\ torn = FALSE /\ dirty = FALSE /\ writes = 0
  /\ loop = "boot" /\ applying = FALSE /\ settled = FALSE
  /\ read = None /\ applied = None /\ pending = None
  /\ secret = None /\ live = None /\ undone = FALSE
  /\ synced = None /\ mounts = [m \in 1 .. Mounts |-> None] /\ sync = "ok"
  /\ timer = None /\ awaiting = FALSE /\ failures = 0 /\ lastNudgeAt = None
  /\ launched = 0 /\ inflight = {} /\ base = 0 /\ exhausted = FALSE

LoopCall ==
  \/ StartupRead \/ Started \/ PrepareUnreadable
  \/ \E others \in BOOLEAN : Prepare(others)
  \/ OthersSwap \/ SwapFlips \/ PassEnds

\* The process may end once nothing is under way.
Done == settled /\ inflight = {} /\ loop \in {"idle", "starting", "done"} /\ UNCHANGED vars

Next ==
  \/ Tick \/ Rewrite \/ Tear
  \/ OnTimer \/ \E n \in inflight, ok \in BOOLEAN : NudgeReturns(n, ok)
  \/ LoopCall \/ Settle
  \/ Done

Spec == Init /\ [][Next]_vars

-----------------------------------------------------------------------------
\* Properties.

Tokens == 0 .. writes
Identities == Tokens \X Accounts
Credentials == [token: Tokens, account: Accounts, expires: Nat]

\* The type invariant: among others, no timer is ever armed for a moment before the
\* epoch and no nudge is counted twice (credentialChannel.ts:166-198).
TypeOK ==
  /\ now \in 0 .. MaxNow /\ writes \in 0 .. MaxWrites
  /\ file \in Credentials
  /\ torn \in BOOLEAN /\ dirty \in BOOLEAN /\ applying \in BOOLEAN /\ settled \in BOOLEAN
  /\ loop \in {"boot", "starting", "idle", "swap", "drain", "done"}
  /\ read \in Credentials \cup {None}
  /\ {applied, pending, secret, live} \subseteq Identities \cup {None}
  /\ undone \in BOOLEAN
  /\ synced \in Accounts \cup {None} /\ sync \in {"ok", "failed", "forgotten"}
  /\ mounts \in [1 .. Mounts -> Accounts \cup {None}]
  /\ timer \in Nat \cup {None} /\ lastNudgeAt \in 0 .. now \cup {None}
  /\ awaiting \in BOOLEAN /\ exhausted \in BOOLEAN
  /\ failures \in 0 .. MaxAttempts
  /\ launched \in Nat /\ inflight \subseteq 1 .. launched /\ base \in 0 .. launched

\* setTimeout could not hold the delay until `at` when the timer was armed, and fires at once.
TooFar(at) == at - timer > MaxDelay

\* The timer was armed for `at`, or for the moment it was armed at if that was later.
ArmedFor(at) == timer = at \/ TooFar(at)
ArmedForOrSince(at) == (at <= timer /\ timer <= Later(at, now)) \/ TooFar(at)

\* Between passes the channel never goes to sleep for good, or past the moment the token
\* enters its refresh window, or past the deadline of the nudge it awaits; and it wakes
\* early only for a moment too far ahead for setTimeout (planNextActions.ts:18-30, armTimer
\* in the loop and in doNudge, credentialChannel.ts:166-173).
WakesInTime ==
  loop = "idle" /\ ~settled /\ RefreshEnabled =>
    /\ timer # None
    /\ IF awaiting
       THEN ArmedFor(lastNudgeAt + RetryInterval)
       ELSE ArmedForOrSince(read.expires - RefreshWindow)

\* run-hosting gives up only after MaxAttempts nudges since the token last advanced: the
\* late results of nudges from before an advance are not held against the new token
\* (the awaitingOutcome check after doNudge's await, credentialChannel.ts:191).
GivesUpOnlyAfterAttempts == exhausted => launched - base >= MaxAttempts

\* ... and the provider's CLI is not started more often than that, unless the token
\* advances: timers, late results and re-reads together never grant an extra attempt.
AttemptsAreBounded == launched - base <= MaxAttempts

\* Once the loop has settled no timer is left to keep the process alive, whatever pass or
\* nudge was under way (clearTimer in shutdown, isSettled after each await).
SettledIsQuiet == settled => timer = None

\* Every mount outside the proxy carries the account last read, unless the last attempt to
\* sync it failed: through failed swaps, account switches back and forth and earlier failed
\* syncs (credentialChannel.ts:105-108).  Such a failure is retried at the next read, or
\* forgotten if the file has gone back to the account synced before it by then.
AccountInSync ==
  read # None /\ sync \notin {"failed", "forgotten"} =>
    \A m \in 1 .. Mounts : mounts[m] = read.account

\* Between passes the proxy serves the identity last read, token and account together,
\* unless a swap for it failed and none has succeeded since.
ServesWhatWasRead == loop = "idle" /\ ~settled /\ ~undone => live = Identity(read)

\* The channel takes its credential along the path of CredentialPath, as RunHosting takes
\* each of its channels': what it commits is what it staged for that swap, and what the
\* proxy serves is what it wrote (startupRead, prepareRestart and commit,
\* credentialChannel.ts:72-126).
Path == INSTANCE CredentialPath WITH
          phase <- loop, mine <- loop \in {"swap", "drain"} /\ applying, staged <- pending

PathSpec == Path!Spec

-----------------------------------------------------------------------------
\* What the documentation says, and the code does not do.

\* commands/runHosting.ts: the nudge comes "this many minutes before expiry", and the
\* channel exits after "consecutive failed refreshes": so once a nudge has brought a fresh
\* token it does not give up over that token before it is due for a refresh.
ExhaustedOnlyWhenDue ==
  exhausted /\ base > 0 => now >= read.expires - RefreshWindow
=============================================================================
