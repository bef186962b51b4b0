---------------------- MODULE CredentialChannel_proofs ----------------------
(***************************************************************************)
(* What a credential channel guarantees whatever its timing constants, its *)
(* accounts and the lifetime of its tokens, proved by TLAPS.               *)
(***************************************************************************)
EXTENDS CredentialChannel, TLAPS

\* Where the loop is decides what has been read and armed.
Control ==
  /\ loop = "boot" => timer = None /\ ~settled /\ read = None
  /\ loop \in {"starting", "idle", "swap", "drain"} => read # None
  /\ loop = "starting" => pending # None
  /\ loop \in {"idle", "swap", "drain"} => applied # None
  /\ awaiting => lastNudgeAt # None

\* Between two advances of the expiry: one nudge per failure, and the one awaited.
Attempts ==
  /\ ~exhausted =>
       launched = IF awaiting THEN base + failures + 1 ELSE base
  /\ ~exhausted => failures < MaxAttempts
  /\ ~awaiting => failures = 0
  /\ exhausted => settled /\ launched = base + MaxAttempts

\* What is staged is what was read; without a failed swap it is what the proxy serves.
Staged ==
  /\ loop = "starting" => pending = secret /\ secret = Identity(read)
  /\ loop = "swap" /\ applying => pending = secret /\ secret = Identity(read) /\ pending # None
  /\ ~undone /\ (loop \in {"idle", "drain"} \/ (loop = "swap" /\ ~applying)) =>
       applied = Identity(read) /\ secret = applied /\ live = applied

\* What was last synced is what was last read, unless an attempt failed since.
Synced == read # None /\ sync = "ok" => synced = read.account

IInv ==
  /\ TypeOK /\ Control /\ SettledIsQuiet /\ Attempts /\ Staged
  /\ Synced /\ AccountInSync /\ WakesInTime

-----------------------------------------------------------------------------
\* A timer is armed for a moment in time, whatever setTimeout makes of the delay.
LEMMA ArmAtType ==
  ASSUME now \in Nat, NEW at \in Nat \cup {None}, ArmAt(at)
  PROVE  timer' \in Nat \cup {None} /\ (at # None => timer' # None)
BY ChannelAssumption DEF ArmAt

\* The plan's next moment is one in time: planNextActions clamps it to now.
LEMMA NudgeAtType ==
  ASSUME now \in Nat, NEW creds, creds.expires \in Nat, NEW waiting, NEW nudgedAt \in Nat \cup {None}
  PROVE  NudgeAt(creds, waiting, nudgedAt) \in Nat \cup {None}
BY ChannelAssumption DEF NudgeAt, Later

\* What a sync leaves, in whichever way it ends.
SyncType ==
  /\ synced \in Accounts \cup {None} /\ sync \in {"ok", "failed", "forgotten"}
  /\ mounts \in [1 .. Mounts -> Accounts \cup {None}]

LEMMA SyncTyped ==
  ASSUME SyncType, NEW account \in Accounts, Sync(account) \/ SkipSync
  PROVE  SyncType'
<1>1. CASE SkipSync
  BY <1>1 DEF SyncType, SkipSync
<1>2. CASE Sync(account)
  BY <1>2 DEF SyncType, Sync
<1> QED
  BY <1>1, <1>2

\* A rewrite leaves what is known of older tokens well typed.
LEMMA TokensGrow ==
  ASSUME writes \in Nat, writes' = writes + 1
  PROVE  Identities \subseteq Identities' /\ Credentials \subseteq Credentials'
<1>1. Tokens \subseteq Tokens' /\ Tokens \subseteq Nat
  BY DEF Tokens
<1> QED
  BY <1>1 DEF Identities, Credentials

\* What is read from the file has an identity, which is not None.
LEMMA IdentityType ==
  ASSUME NEW creds \in Credentials
  PROVE  /\ Identity(creds) \in Identities /\ Identity(creds) # None
         /\ creds.expires \in Nat /\ creds.account \in Accounts /\ creds # None
<1>1. creds.token \in Tokens /\ creds.account \in Accounts /\ creds.expires \in Nat
  BY DEF Credentials
<1>2. creds.token \in Nat
  BY <1>1 DEF Tokens
<1>3. Identity(creds) \in Nat \X Accounts /\ Identity(creds) \in Identities
  BY <1>1, <1>2 DEF Identity, Identities
<1>4. creds \in [token: Nat, account: Accounts, expires: Nat]
  BY <1>2 DEF Credentials, Tokens
<1> QED
  BY <1>1, <1>3, <1>4, ChannelAssumption

\* Launching a nudge, and counting a failed one, keep the types of the nudge's state.
NudgeType ==
  /\ timer \in Nat \cup {None} /\ lastNudgeAt \in 0 .. now \cup {None}
  /\ awaiting \in BOOLEAN /\ exhausted \in BOOLEAN /\ settled \in BOOLEAN
  /\ failures \in 0 .. MaxAttempts /\ launched \in Nat
  /\ inflight \subseteq 1 .. launched /\ base \in 0 .. launched

LEMMA DoNudgeType ==
  ASSUME now \in Nat, NudgeType, DoNudge, UNCHANGED <<now, settled, exhausted, base>>,
         failures' \in 0 .. MaxAttempts, inflight' \subseteq inflight \cup {launched'}
  PROVE  NudgeType'
<1>1. timer' \in Nat \cup {None}
  BY ArmAtType, ChannelAssumption DEF DoNudge
<1>2. inflight' \subseteq 1 .. launched'
  BY DEF NudgeType, DoNudge
<1> QED
  BY <1>1, <1>2 DEF NudgeType, DoNudge

LEMMA HandleFailedAttemptType ==
  ASSUME now \in Nat, NudgeType, failures < MaxAttempts, HandleFailedAttempt,
         UNCHANGED <<now, base>>, inflight' \subseteq inflight \cup Launches
  PROVE  NudgeType'
<1>0. failures' \in 0 .. MaxAttempts
  BY ChannelAssumption DEF NudgeType, HandleFailedAttempt
<1>1. CASE failures' >= MaxAttempts
  BY <1>0, <1>1 DEF NudgeType, HandleFailedAttempt, Launches
<1>2. CASE ~(failures' >= MaxAttempts)
  <2>1. DoNudge /\ UNCHANGED <<settled, exhausted>>
    BY <1>2 DEF HandleFailedAttempt
  <2>2. inflight' \subseteq inflight \cup {launched'}
    BY DEF Launches
  <2> QED
    BY <1>0, <2>1, <2>2, DoNudgeType
<1> QED
  BY <1>1, <1>2

\* Every step keeps the types.
LEMMA TypeOKInductive ==
  ASSUME TypeOK, Control, Attempts, [Next]_vars
  PROVE  TypeOK'
<1> USE ChannelAssumption
    DEF TypeOK, Control, Tokens, Identities, Credentials, Identity, Attempts, hostVars,
        loopVars, credVars, nudgeVars
<1>0. CASE UNCHANGED vars
  BY <1>0 DEF vars
<1>1. CASE Tick
  BY <1>1 DEF Tick
<1>2. CASE Rewrite
  <2>1. writes \in Nat /\ writes' = writes + 1 /\ writes' \in 0 .. MaxWrites
    BY <1>2 DEF Rewrite
  <2>2. Identities \subseteq Identities' /\ Credentials \subseteq Credentials'
    BY <2>1, TokensGrow
  <2>3. file.token \in Tokens' /\ writes' \in Tokens'
    BY <2>1
  <2>4. file' \in Credentials'
    BY <1>2, <2>3 DEF Rewrite
  <2>5. dirty' \in BOOLEAN
    BY <1>2 DEF Rewrite, Notify
  <2>6. read' \in Credentials' \cup {None}
    BY <1>2, <2>2 DEF Rewrite
  <2>7. {applied', pending', secret', live'} \subseteq Identities' \cup {None}
    BY <1>2, <2>2 DEF Rewrite
  <2> QED
    BY <1>2, <2>1, <2>4, <2>5, <2>6, <2>7, ZenonT(40) DEF Rewrite
<1>3. CASE Tear
  BY <1>3, ZenonT(40) DEF Tear, Notify
<1>4. CASE OnTimer
  <2>1. NudgeType'
    <3>1. now \in Nat /\ NudgeType /\ UNCHANGED <<now, base>> /\ ~exhausted
      BY <1>4 DEF OnTimer, NudgeType
    <3>2. CASE awaiting
      BY <1>4, <3>1, <3>2, HandleFailedAttemptType DEF OnTimer
    <3>3. CASE ~awaiting
      <4>1. DoNudge /\ UNCHANGED <<settled, failures, exhausted>>
        BY <1>4, <3>3 DEF OnTimer
      <4>2. inflight' \subseteq inflight \cup {launched'}
        BY <1>4 DEF OnTimer, Launches
      <4> QED
        BY <3>1, <4>1, <4>2, DoNudgeType DEF NudgeType
    <3> QED
      BY <3>2, <3>3
  <2> QED
    BY <1>4, <2>1 DEF OnTimer, NudgeType
<1>5. ASSUME NEW n \in inflight, NEW ok \in BOOLEAN, NudgeReturns(n, ok) PROVE TypeOK'
  <2>1. NudgeType'
    <3>1. now \in Nat /\ NudgeType /\ UNCHANGED <<now, base>>
      BY <1>5 DEF NudgeReturns, NudgeType
    <3>2. CASE Heeds /\ ~ok
      <4>1. ~exhausted /\ HandleFailedAttempt /\ inflight' \subseteq inflight \cup Launches
        BY <1>5, <3>2 DEF NudgeReturns, Heeds
      <4> QED
        BY <3>1, <4>1, HandleFailedAttemptType
    <3>3. CASE ~(Heeds /\ ~ok)
      BY <1>5, <3>1, <3>3 DEF NudgeReturns, NudgeType, Launches
    <3> QED
      BY <3>2, <3>3
  <2> QED
    BY <1>5, <2>1 DEF NudgeReturns, NudgeType
<1>6. CASE StartupRead
  <2>1. CASE torn
    BY <1>6, <2>1 DEF StartupRead
  <2>2. CASE ~torn
    <3>1. file.account \in Accounts /\ Identity(file) \in Identities /\ Sync(file.account)
      BY <1>6, <2>2, IdentityType DEF StartupRead
    <3>2. SyncType'
      BY <3>1, SyncTyped DEF SyncType
    <3> QED
      BY <1>6, <2>2, <3>1, <3>2 DEF StartupRead, Stage, SyncType
  <2> QED
    BY <2>1, <2>2
<1>7. CASE Started
  <2>1. timer' \in Nat \cup {None}
    <3>1. read' = read /\ read.expires \in Nat
      BY <1>7, IdentityType DEF Started
    <3>2. NudgeAt(read', awaiting', lastNudgeAt') \in Nat \cup {None}
      BY <1>7, <3>1, NudgeAtType DEF Started
    <3>3. ArmAt(NudgeAt(read', awaiting', lastNudgeAt')) \/ timer' = timer
      BY <1>7 DEF Started, ArmTimer
    <3>4. now \in Nat
      OBVIOUS
    <3> QED
      BY <3>2, <3>3, <3>4, ArmAtType
  <2> QED
    BY <1>7, <2>1 DEF Started, Commit
<1>8. CASE PrepareUnreadable
  BY <1>8 DEF PrepareUnreadable
<1>9. ASSUME NEW others \in BOOLEAN, Prepare(others) PROVE TypeOK'
  <2>1. file.expires \in Nat /\ file.account \in Accounts /\ Identity(file) \in Identities
    BY IdentityType
  <2>2. timer' \in Nat \cup {None}
    <3>1. NudgeAt(read', awaiting', lastNudgeAt') \in Nat \cup {None}
      BY <1>9, <2>1, NudgeAtType DEF Prepare
    <3>3. ArmAt(NudgeAt(read', awaiting', lastNudgeAt')) \/ timer' = timer
      BY <1>9 DEF Prepare, ArmTimer
    <3>4. now \in Nat
      OBVIOUS
    <3> QED
      BY <3>1, <3>3, <3>4, ArmAtType
  <2>3. pending' \in Identities \cup {None} /\ secret' \in Identities \cup {None}
    BY <1>9, <2>1 DEF Prepare, Stage
  <2>4. SyncType'
    BY <1>9, <2>1, SyncTyped DEF Prepare, SyncType
  <2>5. failures' \in 0 .. MaxAttempts /\ awaiting' \in BOOLEAN /\ base' \in 0 .. launched
    <3>1. CASE Advanced(file)
      <4>1. failures' = 0 /\ awaiting' \in BOOLEAN /\ base' \in {launched, base}
        BY <1>9, <3>1 DEF Prepare
      <4>2. 0 \in 0 .. MaxAttempts /\ launched \in Nat /\ base \in 0 .. launched
        OBVIOUS
      <4> QED
        BY <4>1, <4>2
    <3>2. CASE ~Advanced(file)
      BY <1>9, <3>2 DEF Prepare
    <3> QED
      BY <3>1, <3>2
  <2>6. applying' \in BOOLEAN /\ loop' \in {"idle", "swap"}
    BY <1>9 DEF Prepare, Changed
  <2>7. /\ read' = file /\ dirty' = FALSE
        /\ UNCHANGED <<now, file, torn, writes, settled, applied, live, undone, lastNudgeAt,
                       launched, inflight, exhausted>>
    BY <1>9 DEF Prepare
  <2>8. read' \in Credentials' \cup {None} /\ file' \in Credentials'
    BY <2>7
  <2>9. {applied', pending', secret', live'} \subseteq Identities' \cup {None}
    BY <2>3, <2>7
  <2> QED
    BY <2>2, <2>4, <2>5, <2>6, <2>7, <2>8, <2>9, ZenonT(40) DEF SyncType
<1>10. CASE OthersSwap
  BY <1>10 DEF OthersSwap
<1>11. CASE SwapFlips
  BY <1>11, ZenonT(40) DEF SwapFlips, Commit
<1>12. CASE PassEnds
  <2>1. timer' \in Nat \cup {None}
    <3>1. read' = read /\ read.expires \in Nat
      BY <1>12, IdentityType DEF PassEnds
    <3>2. NudgeAt(read', awaiting', lastNudgeAt') \in Nat \cup {None}
      BY <1>12, <3>1, NudgeAtType DEF PassEnds
    <3>3. ArmAt(NudgeAt(read', awaiting', lastNudgeAt')) \/ timer' = timer
      BY <1>12 DEF PassEnds, ArmTimer
    <3>4. now \in Nat
      OBVIOUS
    <3> QED
      BY <3>2, <3>3, <3>4, ArmAtType
  <2> QED
    BY <1>12, <2>1 DEF PassEnds
<1>13. CASE Settle
  BY <1>13 DEF Settle
<1>14. CASE Done
  BY <1>14 DEF Done, vars
<1> QED
  BY <1>0, <1>1, <1>2, <1>3, <1>4, <1>5, <1>6, <1>7, <1>8, <1>9, <1>10, <1>11, <1>12, <1>13,
     <1>14
  DEF Next, LoopCall

\* Every step keeps what has been read and armed in step with the loop.
LEMMA ControlInductive ==
  ASSUME TypeOK, Control, [Next]_vars
  PROVE  Control'
<1> USE ChannelAssumption
    DEF TypeOK, Control, Tokens, Identities, Credentials, Identity, hostVars, loopVars,
        credVars, nudgeVars
<1>0. CASE UNCHANGED vars
  BY <1>0 DEF vars
<1>1. CASE Tick
  BY <1>1 DEF Tick
<1>2. CASE Rewrite
  BY <1>2 DEF Rewrite, Notify
<1>3. CASE Tear
  BY <1>3 DEF Tear, Notify
<1>4. CASE OnTimer
  BY <1>4 DEF OnTimer, HandleFailedAttempt, DoNudge, ArmAt, Launches
<1>5. ASSUME NEW n \in inflight, NEW ok \in BOOLEAN, NudgeReturns(n, ok) PROVE Control'
  BY <1>5 DEF NudgeReturns, HandleFailedAttempt, DoNudge, ArmAt, Launches, Heeds
<1>6. CASE StartupRead
  BY <1>6 DEF StartupRead, Stage, Sync
<1>7. CASE Started
  BY <1>7 DEF Started, Commit, ArmTimer, ArmAt, NudgeAt, Later
<1>8. CASE PrepareUnreadable
  BY <1>8 DEF PrepareUnreadable
<1>9. ASSUME NEW others \in BOOLEAN, Prepare(others) PROVE Control'
  BY <1>9 DEF Prepare, Stage, Sync, SkipSync, SyncIsDue, Changed, Advanced, ArmTimer, ArmAt, NudgeAt, Later
<1>10. CASE OthersSwap
  BY <1>10 DEF OthersSwap
<1>11. CASE SwapFlips
  BY <1>11 DEF SwapFlips, Commit
<1>12. CASE PassEnds
  BY <1>12 DEF PassEnds, MayArm, ArmTimer, ArmAt, NudgeAt, Later
<1>13. CASE Settle
  BY <1>13 DEF Settle
<1>14. CASE Done
  BY <1>14 DEF Done, vars
<1> QED
  BY <1>0, <1>1, <1>2, <1>3, <1>4, <1>5, <1>6, <1>7, <1>8, <1>9, <1>10, <1>11, <1>12, <1>13,
     <1>14
  DEF Next, LoopCall

\* Nothing arms a timer once the loop has settled.
LEMMA SettledIsQuietInductive ==
  ASSUME TypeOK, Control, SettledIsQuiet, [Next]_vars
  PROVE  SettledIsQuiet'
<1> USE ChannelAssumption
    DEF TypeOK, Control, SettledIsQuiet, hostVars, loopVars, credVars, nudgeVars
<1>0. CASE UNCHANGED vars
  BY <1>0 DEF vars
<1>1. CASE Tick
  BY <1>1 DEF Tick
<1>2. CASE Rewrite
  BY <1>2 DEF Rewrite, Notify
<1>3. CASE Tear
  BY <1>3 DEF Tear, Notify
<1>4. CASE OnTimer
  BY <1>4 DEF OnTimer, HandleFailedAttempt, DoNudge, ArmAt, Launches
<1>5. ASSUME NEW n \in inflight, NEW ok \in BOOLEAN, NudgeReturns(n, ok) PROVE SettledIsQuiet'
  BY <1>5 DEF NudgeReturns, HandleFailedAttempt, DoNudge, ArmAt, Launches, Heeds
<1>6. CASE StartupRead
  BY <1>6 DEF StartupRead, Stage, Sync
<1>7. CASE Started
  BY <1>7 DEF Started, Commit, ArmTimer, ArmAt, NudgeAt, Later
<1>8. CASE PrepareUnreadable
  BY <1>8 DEF PrepareUnreadable
<1>9. ASSUME NEW others \in BOOLEAN, Prepare(others) PROVE SettledIsQuiet'
  BY <1>9 DEF Prepare, Stage, Sync, SkipSync, SyncIsDue, Changed, Advanced, ArmTimer, ArmAt, NudgeAt, Later
<1>10. CASE OthersSwap
  BY <1>10 DEF OthersSwap
<1>11. CASE SwapFlips
  BY <1>11 DEF SwapFlips, Commit
<1>12. CASE PassEnds
  BY <1>12 DEF PassEnds, MayArm, ArmTimer, ArmAt, NudgeAt, Later
<1>13. CASE Settle
  BY <1>13 DEF Settle
<1>14. CASE Done
  BY <1>14 DEF Done, vars
<1> QED
  BY <1>0, <1>1, <1>2, <1>3, <1>4, <1>5, <1>6, <1>7, <1>8, <1>9, <1>10, <1>11, <1>12, <1>13,
     <1>14
  DEF Next, LoopCall

\* A nudge is launched for a timer that nothing was awaited on, or for a failure; late results
\* of earlier nudges are failures only while a nudge is awaited.
LEMMA AttemptsInductive ==
  ASSUME TypeOK, Attempts, [Next]_vars
  PROVE  Attempts'
<1> USE ChannelAssumption
    DEF TypeOK, Attempts, Credentials, hostVars, loopVars, credVars, nudgeVars
<1>0. CASE UNCHANGED vars
  BY <1>0 DEF vars
<1>1. CASE Tick
  BY <1>1 DEF Tick
<1>2. CASE Rewrite
  BY <1>2 DEF Rewrite, Notify
<1>3. CASE Tear
  BY <1>3 DEF Tear, Notify
<1>4. CASE OnTimer
  BY <1>4 DEF OnTimer, HandleFailedAttempt, DoNudge, ArmAt, Launches
<1>5. ASSUME NEW n \in inflight, NEW ok \in BOOLEAN, NudgeReturns(n, ok) PROVE Attempts'
  BY <1>5 DEF NudgeReturns, HandleFailedAttempt, DoNudge, ArmAt, Launches, Heeds
<1>6. CASE StartupRead
  BY <1>6 DEF StartupRead, Stage, Sync
<1>7. CASE Started
  BY <1>7 DEF Started, Commit, ArmTimer, ArmAt, NudgeAt, Later
<1>8. CASE PrepareUnreadable
  BY <1>8 DEF PrepareUnreadable
<1>9. ASSUME NEW others \in BOOLEAN, Prepare(others) PROVE Attempts'
  BY <1>9 DEF Prepare, Advanced
<1>10. CASE OthersSwap
  BY <1>10 DEF OthersSwap
<1>11. CASE SwapFlips
  BY <1>11 DEF SwapFlips, Commit
<1>12. CASE PassEnds
  BY <1>12 DEF PassEnds, MayArm, ArmTimer, ArmAt, NudgeAt, Later
<1>13. CASE Settle
  BY <1>13 DEF Settle
<1>14. CASE Done
  BY <1>14 DEF Done, vars
<1> QED
  BY <1>0, <1>1, <1>2, <1>3, <1>4, <1>5, <1>6, <1>7, <1>8, <1>9, <1>10, <1>11, <1>12, <1>13,
     <1>14
  DEF Next, LoopCall

\* What the channel stages, commits and reads agrees, swap by swap.
LEMMA StagedInductive ==
  ASSUME TypeOK, Control, Staged, [Next]_vars
  PROVE  Staged'
<1> USE ChannelAssumption
    DEF TypeOK, Control, Tokens, Identities, Credentials, Identity, Staged, hostVars, loopVars,
        credVars, nudgeVars
<1>0. CASE UNCHANGED vars
  BY <1>0 DEF vars
<1>1. CASE Tick
  BY <1>1 DEF Tick
<1>2. CASE Rewrite
  BY <1>2 DEF Rewrite, Notify
<1>3. CASE Tear
  BY <1>3 DEF Tear, Notify
<1>4. CASE OnTimer
  BY <1>4 DEF OnTimer, HandleFailedAttempt, DoNudge, ArmAt, Launches
<1>5. ASSUME NEW n \in inflight, NEW ok \in BOOLEAN, NudgeReturns(n, ok) PROVE Staged'
  BY <1>5 DEF NudgeReturns, HandleFailedAttempt, DoNudge, ArmAt, Launches, Heeds
<1>6. CASE StartupRead
  BY <1>6 DEF StartupRead, Stage, Sync
<1>7. CASE Started
  BY <1>7 DEF Started, Commit, ArmTimer, ArmAt, NudgeAt, Later
<1>8. CASE PrepareUnreadable
  BY <1>8 DEF PrepareUnreadable
<1>9. ASSUME NEW others \in BOOLEAN, Prepare(others) PROVE Staged'
  <2>1. Identity(file) # None
    BY IdentityType
  <2>2. CASE Changed(file)
    BY <1>9, <2>1, <2>2 DEF Prepare, Stage
  <2>3. CASE ~Changed(file)
    BY <1>9, <2>3 DEF Prepare, Changed
  <2> QED
    BY <2>2, <2>3
<1>10. CASE OthersSwap
  BY <1>10 DEF OthersSwap
<1>11. CASE SwapFlips
  BY <1>11 DEF SwapFlips, Commit
<1>12. CASE PassEnds
  BY <1>12 DEF PassEnds, MayArm, ArmTimer, ArmAt, NudgeAt, Later
<1>13. CASE Settle
  BY <1>13 DEF Settle
<1>14. CASE Done
  BY <1>14 DEF Done, vars
<1> QED
  BY <1>0, <1>1, <1>2, <1>3, <1>4, <1>5, <1>6, <1>7, <1>8, <1>9, <1>10, <1>11, <1>12, <1>13,
     <1>14
  DEF Next, LoopCall

\* A read either finds the account in sync, or syncs it, or records the failure.
LEMMA AccountInSyncInductive ==
  ASSUME TypeOK, Control, Synced, AccountInSync, [Next]_vars
  PROVE  Synced' /\ AccountInSync'
<1> USE ChannelAssumption
    DEF TypeOK, Control, Synced, AccountInSync, Credentials, hostVars, loopVars, credVars, nudgeVars
<1>0. CASE UNCHANGED vars
  BY <1>0 DEF vars
<1>1. CASE Tick
  BY <1>1 DEF Tick
<1>2. CASE Rewrite
  BY <1>2 DEF Rewrite, Notify
<1>3. CASE Tear
  BY <1>3 DEF Tear, Notify
<1>4. CASE OnTimer
  BY <1>4 DEF OnTimer, HandleFailedAttempt, DoNudge, ArmAt, Launches
<1>5. ASSUME NEW n \in inflight, NEW ok \in BOOLEAN, NudgeReturns(n, ok) PROVE Synced' /\ AccountInSync'
  BY <1>5 DEF NudgeReturns, HandleFailedAttempt, DoNudge, ArmAt, Launches, Heeds
<1>6. CASE StartupRead
  BY <1>6 DEF StartupRead, Stage, Sync
<1>7. CASE Started
  BY <1>7 DEF Started, Commit, ArmTimer, ArmAt, NudgeAt, Later
<1>8. CASE PrepareUnreadable
  BY <1>8 DEF PrepareUnreadable
<1>9. ASSUME NEW others \in BOOLEAN, Prepare(others) PROVE Synced' /\ AccountInSync'
  <2>1. read' = file /\ read # None
    BY <1>9 DEF Prepare
  <2>2. CASE SyncIsDue(file)
    BY <1>9, <2>1, <2>2 DEF Prepare, Sync
  <2>3. CASE ~SyncIsDue(file)
    BY <1>9, <2>1, <2>3 DEF Prepare, SkipSync, SyncIsDue
  <2> QED
    BY <2>2, <2>3
<1>10. CASE OthersSwap
  BY <1>10 DEF OthersSwap
<1>11. CASE SwapFlips
  BY <1>11 DEF SwapFlips, Commit
<1>12. CASE PassEnds
  BY <1>12 DEF PassEnds, MayArm, ArmTimer, ArmAt, NudgeAt, Later
<1>13. CASE Settle
  BY <1>13 DEF Settle
<1>14. CASE Done
  BY <1>14 DEF Done, vars
<1> QED
  BY <1>0, <1>1, <1>2, <1>3, <1>4, <1>5, <1>6, <1>7, <1>8, <1>9, <1>10, <1>11, <1>12, <1>13,
     <1>14
  DEF Next, LoopCall

-----------------------------------------------------------------------------
\* Waking in time.

\* setTimeout fires a delay it can hold when it is due, and any other at once.
LEMMA ArmAtHolds ==
  ASSUME NEW from \in Nat, NEW at \in Nat, NEW t,
         t = IF at # None /\ at - from > MaxDelay THEN from ELSE at
  PROVE  /\ t \in Nat /\ t # None
         /\ t = at \/ (t = from /\ at - t > MaxDelay)
         /\ t = at \/ at - t > MaxDelay
BY ChannelAssumption

\* The deadline of a nudge is a moment in time.
LEMMA DeadlineType ==
  ASSUME NEW last \in Nat
  PROVE  last + RetryInterval \in Nat
BY ChannelAssumption

\* A timer that is due is timely; so is one armed at once for want of a longer delay.
LEMMA ArmedIsTimely ==
  ASSUME NEW t \in Nat, NEW from \in Nat, NEW due \in Int,
         t = Later(due, from) \/ (t = from /\ Later(due, from) - t > MaxDelay)
  PROVE  (due <= t /\ t <= Later(due, from)) \/ due - t > MaxDelay
BY ChannelAssumption DEF Later

\* armTimer arms for the plan's moment, and that is when the property wants the channel awake.
LEMMA ArmTimerInTime ==
  ASSUME ArmTimer, now \in Nat, now' = now, RefreshEnabled, awaiting' => lastNudgeAt' # None,
         read'.expires \in Nat, lastNudgeAt' \in 0 .. now \cup {None}
  PROVE  WakesInTime'
<1>1. CASE awaiting'
  <2> DEFINE at == lastNudgeAt' + RetryInterval
  <2>1. lastNudgeAt' \in Nat /\ lastNudgeAt' # None
    BY <1>1
  <2>2. ArmAt(at)
    BY <1>1, <2>1 DEF ArmTimer, NudgeAt
  <2>3. at \in Nat
    BY <2>1, DeadlineType
  <2> HIDE DEF at
  <2>4. timer' # None /\ (timer' = at \/ at - timer' > MaxDelay)
    BY <2>2, <2>3, ArmAtHolds DEF ArmAt
  <2>5. ArmedFor(lastNudgeAt + RetryInterval)'
    BY <2>4 DEF ArmedFor, TooFar, at
  <2> QED
    BY <1>1, <2>4, <2>5 DEF WakesInTime
<1>2. CASE ~awaiting'
  <2> DEFINE at == Later(read'.expires - RefreshWindow, now)
  <2>1. ArmAt(at)
    BY <1>2 DEF ArmTimer, NudgeAt
  <2>2. at \in Nat
    BY ChannelAssumption DEF Later
  <2>3. timer' \in Nat /\ timer' # None /\ (timer' = at \/ (timer' = now /\ at - timer' > MaxDelay))
    BY <2>1, <2>2, ArmAtHolds DEF ArmAt
  <2>4. read'.expires - RefreshWindow \in Int
    BY ChannelAssumption
  <2> HIDE DEF at
  <2>5. \/ read'.expires - RefreshWindow <= timer' /\ timer' <= at
        \/ read'.expires - RefreshWindow - timer' > MaxDelay
    BY <2>3, <2>4, ArmedIsTimely DEF at
  <2>6. ArmedForOrSince(read.expires - RefreshWindow)'
    BY <2>5 DEF ArmedForOrSince, TooFar, at
  <2> QED
    BY <1>2, <2>3, <2>6 DEF WakesInTime
<1> QED
  BY <1>1, <1>2

\* A nudge just launched is awaited for its interval.
LEMMA DoNudgeInTime ==
  ASSUME DoNudge, now \in Nat
  PROVE  WakesInTime'
<1> DEFINE at == now + RetryInterval
<1>1. awaiting' /\ lastNudgeAt' = now /\ ArmAt(at) /\ at \in Nat
  BY DeadlineType DEF DoNudge
<1> HIDE DEF at
<1>2. timer' # None /\ (timer' = at \/ at - timer' > MaxDelay)
  BY <1>1, ArmAtHolds DEF ArmAt
<1>3. ArmedFor(lastNudgeAt + RetryInterval)'
  BY <1>1, <1>2 DEF ArmedFor, TooFar, at
<1> QED
  BY <1>1, <1>2, <1>3 DEF WakesInTime

\* The loop's re-arming, a launched nudge and the clock keep the timer in time; nothing else
\* moves it between passes.
LEMMA WakesInTimeInductive ==
  ASSUME TypeOK, Control, TypeOK', Control', WakesInTime, [Next]_vars
  PROVE  WakesInTime'
<1> SUFFICES ASSUME RefreshEnabled, loop' = "idle", ~settled' PROVE WakesInTime'
  BY DEF WakesInTime
<1>a. now \in Nat
  BY DEF TypeOK
<1>b. ASSUME HandleFailedAttempt PROVE WakesInTime'
  <2>1. DoNudge
    BY <1>b DEF HandleFailedAttempt
  <2> QED
    BY <1>a, <2>1, DoNudgeInTime
<1>c. ASSUME UNCHANGED <<loop, settled, read, timer, awaiting, lastNudgeAt, now>> PROVE WakesInTime'
  BY <1>c DEF WakesInTime, ArmedFor, ArmedForOrSince, TooFar
<1>d. ASSUME ArmTimer, UNCHANGED now, read' # None PROVE WakesInTime'
  <2>1. read'.expires \in Nat
    BY <1>d DEF TypeOK, Credentials
  <2>2. lastNudgeAt' \in 0 .. now \cup {None}
    BY <1>d DEF TypeOK
  <2>3. awaiting' => lastNudgeAt' # None
    BY DEF Control
  <2>4. ArmTimer /\ now' = now
    BY <1>d
  <2> QED
    BY <1>a, <2>1, <2>2, <2>3, <2>4, ArmTimerInTime
<1> USE DEF hostVars, loopVars, credVars, nudgeVars
<1>0. CASE UNCHANGED vars
  BY <1>0, <1>c DEF vars
<1>1. CASE Tick
  <2>1. loop = "idle" /\ ~settled /\ now' = now + 1 /\ UNCHANGED <<read, timer, awaiting, lastNudgeAt>>
    BY <1>1 DEF Tick
  <2>2. CASE awaiting
    BY <2>1, <2>2 DEF WakesInTime, ArmedFor, TooFar
  <2>3. CASE ~awaiting
    <3>1. read \in Credentials
      BY <2>1 DEF TypeOK, Control
    <3>2. read.expires \in Nat /\ timer \in Nat
      BY <2>1, <3>1, IdentityType DEF TypeOK, WakesInTime
    <3> QED
      BY <2>1, <2>3, <3>2, <1>a, ChannelAssumption DEF WakesInTime, ArmedForOrSince, TooFar, Later
  <2> QED
    BY <2>2, <2>3
<1>2. CASE Rewrite
  BY <1>2, <1>c DEF Rewrite
<1>3. CASE Tear
  BY <1>3, <1>c DEF Tear
<1>4. CASE OnTimer
  <2>1. CASE awaiting
    BY <1>4, <1>b, <2>1 DEF OnTimer
  <2>2. CASE ~awaiting
    BY <1>4, <1>a, <2>2, DoNudgeInTime DEF OnTimer
  <2> QED
    BY <2>1, <2>2
<1>5. ASSUME NEW n \in inflight, NEW ok \in BOOLEAN, NudgeReturns(n, ok) PROVE WakesInTime'
  BY <1>5, <1>b, <1>c DEF NudgeReturns
<1>6. CASE StartupRead
  BY <1>6 DEF StartupRead
<1>7. CASE Started
  <2>1. ArmTimer /\ UNCHANGED now /\ read' # None
    BY <1>7 DEF Started, Control
  <2> QED
    BY <1>d, <2>1
<1>8. CASE PrepareUnreadable
  BY <1>8, <1>c DEF PrepareUnreadable
<1>9. ASSUME NEW others \in BOOLEAN, Prepare(others) PROVE WakesInTime'
  <2>1. UNCHANGED now /\ read' = file /\ file # None
    BY <1>9, IdentityType DEF Prepare, TypeOK
  <2>2. ArmTimer
    BY <1>9 DEF Prepare
  <2> QED
    BY <1>d, <2>1, <2>2
<1>10. CASE OthersSwap
  BY <1>10, <1>c DEF OthersSwap
<1>11. CASE SwapFlips
  BY <1>11 DEF SwapFlips
<1>12. CASE PassEnds
  <2>1. ArmTimer /\ UNCHANGED now /\ read' # None
    BY <1>12 DEF PassEnds, MayArm, Control
  <2> QED
    BY <1>d, <2>1
<1>13. CASE Settle
  BY <1>13 DEF Settle
<1>14. CASE Done
  BY <1>14, <1>c DEF Done, vars
<1> QED
  BY <1>0, <1>1, <1>2, <1>3, <1>4, <1>5, <1>6, <1>7, <1>8, <1>9, <1>10, <1>11, <1>12, <1>13,
     <1>14
  DEF Next, LoopCall

-----------------------------------------------------------------------------
\* The theorems.

\* The strengthened invariant holds when the process starts.
LEMMA InitIInv == Init => IInv
<1> SUFFICES ASSUME Init PROVE IInv
  OBVIOUS
<1> USE ChannelAssumption DEF Init
<1>1. TypeOK
  <2>1. file \in Credentials
    BY DEF Credentials, Tokens
  <2>2. inflight \subseteq 1 .. launched /\ base \in 0 .. launched /\ failures \in 0 .. MaxAttempts
    OBVIOUS
  <2>3. {applied, pending, secret, live} \subseteq Identities \cup {None}
    OBVIOUS
  <2>4. now \in 0 .. MaxNow /\ writes \in 0 .. MaxWrites /\ launched \in Nat
    OBVIOUS
  <2> HIDE DEF Init
  <2>5. /\ torn = FALSE /\ dirty = FALSE /\ applying = FALSE /\ settled = FALSE /\ undone = FALSE
        /\ awaiting = FALSE /\ exhausted = FALSE /\ loop = "boot" /\ read = None /\ synced = None
        /\ sync = "ok" /\ timer = None /\ lastNudgeAt = None
    BY DEF Init
  <2>6. mounts \in [1 .. Mounts -> Accounts \cup {None}]
    BY DEF Init
  <2> QED
    BY <2>1, <2>2, <2>3, <2>4, <2>5, <2>6 DEF TypeOK
<1>2. Control /\ SettledIsQuiet /\ Attempts /\ Staged /\ Synced /\ AccountInSync /\ WakesInTime
  BY DEF Control, SettledIsQuiet, Attempts, Staged, Synced, AccountInSync, WakesInTime
<1> QED
  BY <1>1, <1>2 DEF IInv

\* ... and every step preserves it.
LEMMA NextIInv == IInv /\ [Next]_vars => IInv'
BY TypeOKInductive, ControlInductive, SettledIsQuietInductive, AttemptsInductive, StagedInductive,
   AccountInSyncInductive, WakesInTimeInductive
DEF IInv

\* IInv holds of every reachable state of the channel (credentialChannel.ts:72-211).
THEOREM Invariance == Spec => []IInv
BY InitIInv, NextIInv, PTL DEF Spec

\* Type correctness: no timer for a moment before the epoch, no nudge returns twice
\* (armAt and doNudge, credentialChannel.ts:166-198).
THEOREM TypeCorrectness == Spec => []TypeOK
<1>1. IInv => TypeOK
  BY DEF IInv
<1> QED
  BY <1>1, Invariance, PTL

\* The channel gives up only after MaxAttempts nudges since the token last advanced
\* (handleFailedAttempt and the check after doNudge's await, credentialChannel.ts:185-211).
THEOREM GivesUpLate == Spec => []GivesUpOnlyAfterAttempts
<1>1. IInv => GivesUpOnlyAfterAttempts
  BY ChannelAssumption DEF IInv, TypeOK, Attempts, GivesUpOnlyAfterAttempts
<1> QED
  BY <1>1, Invariance, PTL

\* ... and never launches more of them (the same lines, and armTimer's re-arming).
THEOREM NudgesAreBounded == Spec => []AttemptsAreBounded
<1>1. IInv => AttemptsAreBounded
  BY ChannelAssumption DEF IInv, TypeOK, Attempts, AttemptsAreBounded
<1> QED
  BY <1>1, Invariance, PTL

\* No timer outlives the loop (clearTimer in shutdown, runHostingLoop.ts:126, and the
\* isSettled checks of credentialChannel.ts:176, 191).
THEOREM NoTimerOutlivesTheLoop == Spec => []SettledIsQuiet
<1>1. IInv => SettledIsQuiet
  BY DEF IInv
<1> QED
  BY <1>1, Invariance, PTL

\* Every mount outside the proxy carries the account last read, unless the last attempt to
\* sync it failed (credentialChannel.ts:105-108, 151-163).
THEOREM AccountStaysInSync == Spec => []AccountInSync
<1>1. IInv => AccountInSync
  BY DEF IInv
<1> QED
  BY <1>1, Invariance, PTL

\* Between passes the proxy serves the identity last read, unless a swap for it failed
\* (prepareRestart and commit, credentialChannel.ts:84-126).
THEOREM ServesLastRead == Spec => []ServesWhatWasRead
<1>1. IInv => ServesWhatWasRead
  BY DEF IInv, Staged, ServesWhatWasRead
<1> QED
  BY <1>1, Invariance, PTL

\* The channel is never asleep past the moment to act, and is woken early only for a moment
\* too far ahead for setTimeout (planNextActions.ts:18-30, credentialChannel.ts:134-140,
\* 166-211).
THEOREM ChannelWakesInTime == Spec => []WakesInTime
<1>1. IInv => WakesInTime
  BY DEF IInv
<1> QED
  BY <1>1, Invariance, PTL

-----------------------------------------------------------------------------
\* The path of the credential.

\* Every step of the channel is a step of the path, or none: the calls of the loop read, stage,
\* join, serve and end; timers, nudges and the host's rewrites never touch the path.
LEMMA StepPath ==
  ASSUME IInv, [Next]_vars
  PROVE  [Path!Next]_(Path!pathVars)
<1> USE DEF Path!pathVars, hostVars, loopVars, credVars, nudgeVars
<1>0. CASE UNCHANGED vars
  BY <1>0 DEF vars
<1>1. CASE Tick \/ Rewrite \/ Tear
  BY <1>1 DEF Tick, Rewrite, Tear
<1>2. CASE OnTimer \/ \E n \in inflight, ok \in BOOLEAN : NudgeReturns(n, ok)
  BY <1>2 DEF OnTimer, NudgeReturns
<1>3. CASE StartupRead
  <2>1. CASE torn
    BY <1>3, <2>1 DEF StartupRead, Path!Abandon, Path!Next
  <2>2. CASE ~torn
    <3>1. Identity(file) # None
      BY IdentityType DEF IInv, TypeOK
    <3> QED
      BY <1>3, <2>2, <3>1 DEF StartupRead, Stage, Path!Read, Path!Write, Path!Next
  <2> QED
    BY <2>1, <2>2
<1>4. CASE Started
  <2>1. pending # None
    BY <1>4 DEF Started, IInv, Control
  <2> QED
    BY <1>4, <2>1 DEF Started, Commit, Path!Open, Path!Record, Path!Next
<1>5. CASE PrepareUnreadable \/ Settle \/ Done
  BY <1>5 DEF PrepareUnreadable, Settle, Done, vars
<1>6. ASSUME NEW others \in BOOLEAN, Prepare(others)
      PROVE  [Path!Next]_(Path!pathVars)
  <2>1. loop = "idle" /\ loop' \in {"idle", "swap"} /\ UNCHANGED <<applied, live>>
    BY <1>6 DEF Prepare
  <2>2. CASE Changed(file)
    <3>1. Identity(file) # None
      BY IdentityType DEF IInv, TypeOK
    <3>2. /\ pending' = Identity(file) /\ secret' = Identity(file)
          /\ pending' # applied
          /\ loop' = "swap" /\ applying' = TRUE
      BY <1>6, <2>2 DEF Prepare, Stage, Changed
    <3> QED
      BY <2>1, <3>1, <3>2 DEF Path!Stage, Path!Write, Path!Next
  <2>3. CASE ~Changed(file)
    <3>1. UNCHANGED <<pending, secret>> /\ applying' = FALSE
      BY <1>6, <2>3 DEF Prepare
    <3> QED
      BY <2>1, <3>1 DEF Path!Join, Path!Next
  <2> QED
    BY <2>2, <2>3
<1>7. CASE OthersSwap
  BY <1>7 DEF OthersSwap, Path!OthersServe, Path!Next
<1>8. CASE SwapFlips
  <2>1. CASE applying
    <3>1. pending # None
      BY <1>8, <2>1 DEF SwapFlips, IInv, Staged
    <3> QED
      BY <1>8, <2>1, <3>1 DEF SwapFlips, Commit, Path!Serve, Path!Record, Path!Next
  <2>2. CASE ~applying
    BY <1>8, <2>2 DEF SwapFlips, Path!Serve, Path!Next
  <2> QED
    BY <2>1, <2>2
<1>9. CASE PassEnds
  BY <1>9 DEF PassEnds, Path!End, Path!Stop, Path!Next
<1> QED
  BY <1>0, <1>1, <1>2, <1>3, <1>4, <1>5, <1>6, <1>7, <1>8, <1>9 DEF Next, LoopCall

\* The channel takes its credential along the path that RunHosting's loop takes each of its
\* channels' (ImplementsPath there): the two models agree on what a commit and a swap do to a
\* credential (credentialChannel.ts:72-126).
THEOREM ChannelImplementsPath == Spec => PathSpec
<1>1. Init => Path!Init
  BY DEF Init, Path!Init
<1>2. IInv /\ [Next]_vars => [Path!Next]_(Path!pathVars)
  BY StepPath
<1> QED
  BY <1>1, <1>2, Invariance, PTL DEF Spec, PathSpec, Path!Spec
=============================================================================
