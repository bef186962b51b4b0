-------------------------- MODULE RunHosting_proofs --------------------------
(***************************************************************************)
(* What run-hosting's loop guarantees for any number of credential         *)
(* channels, MCP servers and edits, proved by TLAPS.  IInv is inductive;   *)
(* its parts are lemmas in the order in which they depend on each other.   *)
(***************************************************************************)
EXTENDS RunHosting, TLAPS

Booting == {"boot", "mcpPorts", "startPorts", "startUp", "startWait"}
Swapping == {"ports", "up", "wait", "stopIdle", "stopLog", "drain", "stopOld"}
Staged == {"mcpPorts", "startPorts", "startUp", "startWait"}

\* How the control point, the gateway's target and the shutdown depend on each other.
Control ==
  /\ pc \in Booting => active = None
  /\ pc \in {"idle", "pass"} \cup Swapping => active # None
  /\ pc \in Staged => \A c \in Channels : pending[c] \in Nat
  /\ pc \in {"boot", "mcpPorts"} => cause = "none" /\ mcp = {} /\ ~watching
  /\ down = "no" <=> cause = "none"
  /\ down = "stopping" => cause = "mcp"

Graceful == cause \in {"none", "signal", "fatal"}

\* The color about to be flipped to is ready, as the one being served is.
Serving ==
  /\ ServingColorIsReady
  /\ LogFollowsActive
  /\ pc = "stopLog" /\ Graceful => status[Idle] = "ready"

\* What a color is brought up with is what is rendered; what is staged is rendered, and where
\* nothing is, what is applied.
Staging ==
  /\ \A c \in Channels : pending[c] # None => pending[c] = disk[c]
  /\ active # None => \A c \in Channels : pending[c] = None => applied[c] = disk[c]
  /\ pc \in Staged => \A c \in Channels : pending[c] = disk[c]
  /\ pc = "startWait" => conf["blue"] = disk
  /\ pc \in {"ports", "up", "wait", "stopLog"} =>
       \A c \in applying : pending[c] = disk[c]
  /\ pc \in {"wait", "stopLog"} => conf[Idle] = disk

\* Versions only grow from applied to rendered to published.
Ordered ==
  /\ \A s \in Sources : disk[s] <= file[s]
  /\ \A c \in Channels : pending[c] # None => pending[c] <= disk[c]
  /\ \A c \in Channels : applied[c] # None => applied[c] <= disk[c]

\* A channel no pass under way has staged anything for, and that has gone back all the same.
Excused == {c \in Reverted \ applying : active # None}

\* A source that holds something else than what is rendered has an event or a dirty mark, or
\* it is excused.
Noted ==
  /\ pc = "mcpPorts" => \A c \in Channels \ missed : disk[c] = file[c]
  /\ watching =>
       \A s \in Sources \ (torn \cup missed \cup Excused) :
         Same(s, disk[s], file[s]) \/ s \in events \cup dirty
  /\ ~settled /\ pc \notin {"boot", "mcpPorts"} => watching
  /\ ~settled /\ pc = "idle" => dirty = {}

\* Between swaps the color that does not serve is not running.
Retiring ==
  /\ pc \in Booting => conf["green"] = None
  /\ pc \in {"idle", "pass", "ports", "up"} /\ ~settled /\ faults \cap {"up", "stop"} = {} =>
       status[Idle] = "off" \/ conf[Idle] = None

\* No color was brought up with anything newer than what is rendered now.
BuiltBehind ==
  /\ active # None => conf[active] # None
  /\ \A c \in Colors : conf[c] # None => \A s \in Sources : conf[c][s] <= disk[s]

\* Between an MCP fatal and its last stopColor the color being served, or about to be, is
\* either awaited or off.
Stopped ==
  /\ down # "stopping" => stopping = {}
  /\ cause = "mcp" /\ "stop" \notin faults =>
       /\ active # None => active \in stopping \/ status[active] = "off"
       /\ pc = "stopLog" => Idle \in stopping \/ status[Idle] = "off"

\* As long as no swap has failed, what is rendered outside a swap is what is served.
Current ==
  ~settled /\ faults \cap {"up", "ready"} = {} =>
    /\ pc \in {"idle", "pass", "drain", "stopOld"} => conf[active] = disk
    /\ pc # "stopIdle"

IInv ==
  /\ TypeOK /\ Control /\ Serving /\ Retiring /\ NoOrphanMcp
  /\ Staging /\ Ordered /\ BuiltBehind /\ Noted
  /\ Stopped /\ Current

-----------------------------------------------------------------------------
\* Types of what the container commands and commit() assign.

\* The two colors, and what the loop calls idle and retired.
LEMMA ColorsType ==
  /\ Idle \in Colors /\ Retired \in Colors /\ "blue" \in Colors
  /\ \A c \in Colors : Other(c) \in Colors /\ Other(c) # c /\ c # None /\ Other(Other(c)) = c
BY ConstantsAssumption DEF Idle, Retired, Other, Colors

StatusType == status \in [Colors -> {"off", "starting", "ready"}]
ConfType == conf \in [Colors -> Versions \cup {None}]
FaultsType == faults \subseteq {"up", "ready", "stop"}

\* What stopColor leaves behind, fails or not.
LEMMA StopColorType ==
  ASSUME StatusType, FaultsType, NEW c \in Colors, StopColor(c)
  PROVE  StatusType' /\ FaultsType'
<1>1. CASE status' = [status EXCEPT ![c] = "off"] /\ UNCHANGED faults
  BY <1>1 DEF StatusType, FaultsType
<1>2. CASE faults' = faults \cup {"stop"} /\ UNCHANGED status
  BY <1>2 DEF StatusType, FaultsType
<1> QED
  BY <1>1, <1>2 DEF StopColor

\* What a readiness wait that fails leaves behind.
LEMMA NotReadyType ==
  ASSUME StatusType, FaultsType, NEW c \in Colors, NotReady(c)
  PROVE  StatusType' /\ FaultsType'
<1>1. StatusType'
  BY DEF NotReady, StatusType
<1>2. FaultsType'
  BY DEF NotReady, FaultsType
<1> QED
  BY <1>1, <1>2

\* What a `compose up` that fails leaves behind.
LEMMA BringUpFailedType ==
  ASSUME StatusType, ConfType, FaultsType, disk \in Versions, NEW c \in Colors, BringUpFailed(c)
  PROVE  StatusType' /\ ConfType' /\ FaultsType'
<1>1. StatusType'
  BY DEF BringUpFailed, BroughtUp, StatusType
<1>2. ConfType'
  BY DEF BringUpFailed, BroughtUp, ConfType
<1>3. FaultsType'
  BY DEF BringUpFailed, FaultsType
<1> QED
  BY <1>1, <1>2, <1>3

\* commit() keeps applied and staged versions, and once all were staged all are applied.
LEMMA CommitType ==
  ASSUME applied \in [Channels -> Nat \cup {None}], pending \in [Channels -> Nat \cup {None}],
         NEW cs \in SUBSET Channels, Commit(cs)
  PROVE  /\ applied' \in [Channels -> Nat \cup {None}]
         /\ pending' \in [Channels -> Nat \cup {None}]
         /\ applied \in [Channels -> Nat] => applied' \in [Channels -> Nat]
         /\ (cs = Channels /\ \A c \in Channels : pending[c] \in Nat) =>
              applied' \in [Channels -> Nat]
<1>1. pending' \in [Channels -> Nat \cup {None}]
  BY DEF Commit
<1>2. applied' \in [Channels -> Nat \cup {None}]
  BY DEF Commit, Committed
<1>3. applied \in [Channels -> Nat] => applied' \in [Channels -> Nat]
  BY DEF Commit, Committed
<1>4. ASSUME cs = Channels, \A c \in Channels : pending[c] \in Nat
      PROVE  applied' \in [Channels -> Nat]
  BY <1>4, ConstantsAssumption DEF Commit, Committed
<1> QED
  BY <1>1, <1>2, <1>3, <1>4

\* Every step keeps the types (the types of what a step assigns depend on Control at the
\* first commit only).
LEMMA TypeOKInductive ==
  ASSUME TypeOK, Control, [Next]_vars
  PROVE  TypeOK'
<1> USE ConstantsAssumption
    DEF TypeOK, Control, Versions, Sources, Colors, settled, fileVars, proxyVars, loopVars,
        downVars, Swapping, Staged
<1>0. CASE UNCHANGED vars
  BY <1>0 DEF vars
<1>1. ASSUME NEW s \in Sources, Edit(s) PROVE TypeOK'
  BY <1>1 DEF Edit, Notify, MissedUnless, Yields
<1>2. ASSUME NEW s \in Sources, Tear(s) PROVE TypeOK'
  BY <1>2 DEF Tear, Notify, MissedUnless, Yields
<1>3. ASSUME NEW s \in Sources, Deliver(s) PROVE TypeOK'
  BY <1>3 DEF Deliver, Requested
<1>4. CASE StopSignal
  BY <1>4 DEF StopSignal, Settle, AlreadySettled
<1>5. CASE Exhausted
  BY <1>5 DEF Exhausted, Settle, AlreadySettled, Fatal
<1>6. CASE Crash
  BY <1>6 DEF Crash, Rewritten
<1>7. ASSUME NEW s \in McpServers, McpFails(s) PROVE TypeOK'
  BY <1>7 DEF McpFails, Settle, AlreadySettled, McpFatal
<1>8. CASE StartupRead
  BY <1>8 DEF StartupRead, StagedAtStartup
<1>9. CASE StartupReadFails
  BY <1>9 DEF StartupReadFails, Settle, AlreadySettled, Fatal
<1>10. CASE LoadPolicy
  BY <1>10 DEF LoadPolicy, RenderPolicy
<1>11. CASE LoadPolicyFails
  BY <1>11 DEF LoadPolicyFails, Settle, AlreadySettled, Fatal
<1>12. CASE LoadPolicySpawnFails
  BY <1>12 DEF LoadPolicySpawnFails, Settle, AlreadySettled, McpFatal, RenderPolicy
<1>13. CASE StartPorts
  BY <1>13 DEF StartPorts
<1>14. CASE StartUp
  BY <1>14 DEF StartUp, BroughtUp
<1>15. CASE StartUpFails
  BY <1>15, BringUpFailedType, ColorsType
     DEF StatusType, ConfType, FaultsType, StartUpFails, Settle, AlreadySettled, Fatal
<1>16. CASE StartReady
  <2>1. /\ applied' \in [Channels -> Nat \cup {None}]
        /\ pending' \in [Channels -> Nat \cup {None}]
        /\ active' # None => applied' \in [Channels -> Nat]
    <3>1. CASE settled
      BY <1>16, <3>1 DEF StartReady
    <3>2. CASE ~settled
      <4>1. Commit(Channels)
        BY <1>16, <3>2 DEF StartReady
      <4>2. \A c \in Channels : pending[c] \in Nat
        BY <1>16 DEF StartReady
      <4> QED
        BY <4>1, <4>2, CommitType
    <3> QED
      BY <3>1, <3>2
  <2> QED
    BY <1>16, <2>1 DEF StartReady
<1>17. CASE StartNotReady
  BY <1>17, NotReadyType, ColorsType
     DEF StatusType, FaultsType, StartNotReady, Settle, AlreadySettled, Fatal
<1>18. CASE LoopEnd
  BY <1>18 DEF LoopEnd
<1>19. CASE Pass
  BY <1>19 DEF Pass, Rewritten, RestartNeeded
<1>20. CASE PassFails
  BY <1>20 DEF PassFails, Settle, AlreadySettled, Fatal
<1>21. CASE Ports
  BY <1>21 DEF Ports
<1>22. CASE Up
  BY <1>22 DEF Up, BroughtUp, Idle, Other
<1>23. CASE UpFails
  BY <1>23, BringUpFailedType, ColorsType DEF StatusType, ConfType, FaultsType, UpFails
<1>24. CASE WaitReady
  BY <1>24 DEF WaitReady, AfterWait, Idle, Other
<1>25. CASE WaitFails
  BY <1>25, NotReadyType, ColorsType DEF StatusType, FaultsType, WaitFails, AfterWait
<1>26. CASE StopIdle
  BY <1>26, StopColorType, ColorsType DEF StatusType, FaultsType, StopIdle
<1>27. CASE Flip
  <2>1. /\ applied' \in [Channels -> Nat \cup {None}]
        /\ pending' \in [Channels -> Nat \cup {None}]
        /\ applied' \in [Channels -> Nat]
    <3>1. applied \in [Channels -> Nat] /\ Commit(applying)
      BY <1>27 DEF Flip
    <3> QED
      BY <3>1, CommitType
  <2> QED
    BY <1>27, <2>1, ColorsType DEF Flip, Followed
<1>28. CASE Drained
  BY <1>28 DEF Drained
<1>29. CASE StopOld
  BY <1>29, StopColorType, ColorsType DEF StatusType, FaultsType, StopOld
<1>30. ASSUME NEW c \in Colors, McpStop(c) PROVE TypeOK'
  BY <1>30 DEF McpStop
<1>31. ASSUME NEW c \in Colors, McpStopFails(c) PROVE TypeOK'
  BY <1>31 DEF McpStopFails
<1>32. CASE Teardown
  BY <1>32 DEF Teardown
<1> QED
  BY <1>0, <1>1, <1>2, <1>3, <1>4, <1>5, <1>6, <1>7, <1>8, <1>9, <1>10, <1>11, <1>12, <1>13,
     <1>14, <1>15, <1>16, <1>17, <1>18, <1>19, <1>20, <1>21, <1>22, <1>23, <1>24, <1>25, <1>26,
     <1>27, <1>28, <1>29, <1>30, <1>31, <1>32
  DEF Next, Start, DrainRestarts, ShutdownStep, Terminated

\* Every step keeps the control point, the target and the shutdown in step.
LEMMA ControlInductive ==
  ASSUME TypeOK, Control, [Next]_vars
  PROVE  Control'
<1> USE ConstantsAssumption
    DEF TypeOK, Control, Versions, Sources, Colors, settled, fileVars, proxyVars, loopVars,
        downVars, Booting, Swapping, Staged
<1>0. CASE UNCHANGED vars
  BY <1>0 DEF vars
<1>1. ASSUME NEW s \in Sources, Edit(s) PROVE Control'
  BY <1>1 DEF Edit, Notify, Yields
<1>2. ASSUME NEW s \in Sources, Tear(s) PROVE Control'
  BY <1>2 DEF Tear, Notify, Yields
<1>3. ASSUME NEW s \in Sources, Deliver(s) PROVE Control'
  BY <1>3 DEF Deliver, Requested
<1>4. CASE StopSignal
  BY <1>4 DEF StopSignal, Settle, AlreadySettled
<1>5. CASE Exhausted
  BY <1>5 DEF Exhausted, Settle, AlreadySettled, Fatal
<1>6. CASE Crash
  BY <1>6 DEF Crash, Rewritten
<1>7. ASSUME NEW s \in McpServers, McpFails(s) PROVE Control'
  BY <1>7 DEF McpFails, Settle, AlreadySettled, McpFatal
<1>8. CASE StartupRead
  BY <1>8 DEF StartupRead, StagedAtStartup
<1>9. CASE StartupReadFails
  BY <1>9 DEF StartupReadFails, Settle, AlreadySettled, Fatal
<1>10. CASE LoadPolicy
  BY <1>10 DEF LoadPolicy, RenderPolicy
<1>11. CASE LoadPolicyFails
  BY <1>11 DEF LoadPolicyFails, Settle, AlreadySettled, Fatal
<1>12. CASE LoadPolicySpawnFails
  BY <1>12 DEF LoadPolicySpawnFails, Settle, AlreadySettled, McpFatal, RenderPolicy
<1>13. CASE StartPorts
  BY <1>13 DEF StartPorts
<1>14. CASE StartUp
  BY <1>14 DEF StartUp, BroughtUp
<1>15. CASE StartUpFails
  BY <1>15 DEF StartUpFails, BringUpFailed, BroughtUp, Settle, AlreadySettled, Fatal
<1>16. CASE StartReady
  BY <1>16 DEF StartReady, Commit, Committed
<1>17. CASE StartNotReady
  BY <1>17 DEF StartNotReady, NotReady, Settle, AlreadySettled, Fatal
<1>18. CASE LoopEnd
  BY <1>18 DEF LoopEnd
<1>19. CASE Pass
  BY <1>19 DEF Pass, Rewritten, RestartNeeded
<1>20. CASE PassFails
  BY <1>20 DEF PassFails, Settle, AlreadySettled, Fatal
<1>21. CASE Ports
  BY <1>21 DEF Ports
<1>22. CASE Up
  BY <1>22 DEF Up, BroughtUp, Idle, Other
<1>23. CASE UpFails
  BY <1>23 DEF UpFails, BringUpFailed, BroughtUp, Idle, Other
<1>24. CASE WaitReady
  BY <1>24 DEF WaitReady, AfterWait, Idle, Other
<1>25. CASE WaitFails
  BY <1>25 DEF WaitFails, AfterWait, NotReady, Idle, Other
<1>26. CASE StopIdle
  BY <1>26 DEF StopIdle, StopColor, Idle, Other
<1>27. CASE Flip
  BY <1>27 DEF Flip, Commit, Committed, Followed, Idle, Other
<1>28. CASE Drained
  BY <1>28 DEF Drained
<1>29. CASE StopOld
  BY <1>29 DEF StopOld, StopColor, Retired, Idle, Other
<1>30. ASSUME NEW c \in Colors, McpStop(c) PROVE Control'
  BY <1>30 DEF McpStop
<1>31. ASSUME NEW c \in Colors, McpStopFails(c) PROVE Control'
  BY <1>31 DEF McpStopFails
<1>32. CASE Teardown
  BY <1>32 DEF Teardown
<1> QED
  BY <1>0, <1>1, <1>2, <1>3, <1>4, <1>5, <1>6, <1>7, <1>8, <1>9, <1>10, <1>11, <1>12, <1>13,
     <1>14, <1>15, <1>16, <1>17, <1>18, <1>19, <1>20, <1>21, <1>22, <1>23, <1>24, <1>25, <1>26,
     <1>27, <1>28, <1>29, <1>30, <1>31, <1>32
  DEF Next, Start, DrainRestarts, ShutdownStep, Terminated

\* No step takes the color being served, or about to be, out of service: what is brought up
\* or stopped is always the other color.
LEMMA ServingInductive ==
  ASSUME TypeOK, Control, Serving, [Next]_vars
  PROVE  Serving'
<1> USE ConstantsAssumption
    DEF TypeOK, Control, Serving, ServingColorIsReady, LogFollowsActive, Graceful, Versions,
        Colors, Idle, Other, settled, fileVars, proxyVars, loopVars, downVars, Swapping, Booting
<1>0. CASE UNCHANGED vars
  BY <1>0 DEF vars
<1>1. ASSUME NEW s \in Sources, Edit(s) PROVE Serving'
  BY <1>1 DEF Edit, Notify, Yields
<1>2. ASSUME NEW s \in Sources, Tear(s) PROVE Serving'
  BY <1>2 DEF Tear, Notify, Yields
<1>3. ASSUME NEW s \in Sources, Deliver(s) PROVE Serving'
  BY <1>3 DEF Deliver, Requested
<1>4. CASE StopSignal
  BY <1>4 DEF StopSignal, Settle, AlreadySettled
<1>5. CASE Exhausted
  BY <1>5 DEF Exhausted, Settle, AlreadySettled, Fatal
<1>6. CASE Crash
  BY <1>6 DEF Crash, Rewritten
<1>7. ASSUME NEW s \in McpServers, McpFails(s) PROVE Serving'
  BY <1>7 DEF McpFails, Settle, AlreadySettled, McpFatal
<1>8. CASE StartupRead
  BY <1>8 DEF StartupRead, StagedAtStartup
<1>9. CASE StartupReadFails
  BY <1>9 DEF StartupReadFails, Settle, AlreadySettled, Fatal
<1>10. CASE LoadPolicy
  BY <1>10 DEF LoadPolicy, RenderPolicy
<1>11. CASE LoadPolicyFails
  BY <1>11 DEF LoadPolicyFails, Settle, AlreadySettled, Fatal
<1>12. CASE LoadPolicySpawnFails
  BY <1>12 DEF LoadPolicySpawnFails, Settle, AlreadySettled, McpFatal, RenderPolicy
<1>13. CASE StartPorts
  BY <1>13 DEF StartPorts
<1>14. CASE StartUp
  BY <1>14 DEF StartUp, BroughtUp
<1>15. CASE StartUpFails
  BY <1>15 DEF StartUpFails, BringUpFailed, BroughtUp, Settle, AlreadySettled, Fatal
<1>16. CASE StartReady
  BY <1>16 DEF StartReady, Commit, Committed
<1>17. CASE StartNotReady
  BY <1>17 DEF StartNotReady, NotReady, Settle, AlreadySettled, Fatal
<1>18. CASE LoopEnd
  BY <1>18 DEF LoopEnd
<1>19. CASE Pass
  BY <1>19 DEF Pass, Rewritten, RestartNeeded
<1>20. CASE PassFails
  BY <1>20 DEF PassFails, Settle, AlreadySettled, Fatal
<1>21. CASE Ports
  BY <1>21 DEF Ports
<1>22. CASE Up
  BY <1>22 DEF Up, BroughtUp, Idle, Other
<1>23. CASE UpFails
  BY <1>23 DEF UpFails, BringUpFailed, BroughtUp, Idle, Other
<1>24. CASE WaitReady
  BY <1>24 DEF WaitReady, AfterWait, Idle, Other
<1>25. CASE WaitFails
  BY <1>25 DEF WaitFails, AfterWait, NotReady, Idle, Other
<1>26. CASE StopIdle
  BY <1>26 DEF StopIdle, StopColor, Idle, Other
<1>27. CASE Flip
  BY <1>27 DEF Flip, Commit, Committed, Followed, Idle, Other
<1>28. CASE Drained
  BY <1>28 DEF Drained
<1>29. CASE StopOld
  BY <1>29 DEF StopOld, StopColor, Retired, Idle, Other
<1>30. ASSUME NEW c \in Colors, McpStop(c) PROVE Serving'
  BY <1>30 DEF McpStop
<1>31. ASSUME NEW c \in Colors, McpStopFails(c) PROVE Serving'
  BY <1>31 DEF McpStopFails
<1>32. CASE Teardown
  BY <1>32 DEF Teardown
<1> QED
  BY <1>0, <1>1, <1>2, <1>3, <1>4, <1>5, <1>6, <1>7, <1>8, <1>9, <1>10, <1>11, <1>12, <1>13,
     <1>14, <1>15, <1>16, <1>17, <1>18, <1>19, <1>20, <1>21, <1>22, <1>23, <1>24, <1>25, <1>26,
     <1>27, <1>28, <1>29, <1>30, <1>31, <1>32
  DEF Next, Start, DrainRestarts, ShutdownStep, Terminated

\* Every swap, failed or not, leaves only the serving color running, unless docker failed.
LEMMA RetiringInductive ==
  ASSUME TypeOK, Control, Retiring, [Next]_vars
  PROVE  Retiring'
<1> USE ConstantsAssumption
    DEF TypeOK, Control, Retiring, Versions, Colors, Idle, Other, settled, fileVars, proxyVars,
        loopVars, downVars, Swapping, Booting
<1>0. CASE UNCHANGED vars
  BY <1>0 DEF vars
<1>1. ASSUME NEW s \in Sources, Edit(s) PROVE Retiring'
  BY <1>1 DEF Edit, Notify, Yields
<1>2. ASSUME NEW s \in Sources, Tear(s) PROVE Retiring'
  BY <1>2 DEF Tear, Notify, Yields
<1>3. ASSUME NEW s \in Sources, Deliver(s) PROVE Retiring'
  BY <1>3 DEF Deliver, Requested
<1>4. CASE StopSignal
  BY <1>4 DEF StopSignal, Settle, AlreadySettled
<1>5. CASE Exhausted
  BY <1>5 DEF Exhausted, Settle, AlreadySettled, Fatal
<1>6. CASE Crash
  BY <1>6 DEF Crash, Rewritten
<1>7. ASSUME NEW s \in McpServers, McpFails(s) PROVE Retiring'
  BY <1>7 DEF McpFails, Settle, AlreadySettled, McpFatal
<1>8. CASE StartupRead
  BY <1>8 DEF StartupRead, StagedAtStartup
<1>9. CASE StartupReadFails
  BY <1>9 DEF StartupReadFails, Settle, AlreadySettled, Fatal
<1>10. CASE LoadPolicy
  BY <1>10 DEF LoadPolicy, RenderPolicy
<1>11. CASE LoadPolicyFails
  BY <1>11 DEF LoadPolicyFails, Settle, AlreadySettled, Fatal
<1>12. CASE LoadPolicySpawnFails
  BY <1>12 DEF LoadPolicySpawnFails, Settle, AlreadySettled, McpFatal, RenderPolicy
<1>13. CASE StartPorts
  BY <1>13 DEF StartPorts
<1>14. CASE StartUp
  BY <1>14 DEF StartUp, BroughtUp
<1>15. CASE StartUpFails
  BY <1>15 DEF StartUpFails, BringUpFailed, BroughtUp, Settle, AlreadySettled, Fatal
<1>16. CASE StartReady
  BY <1>16 DEF StartReady, Commit, Committed
<1>17. CASE StartNotReady
  BY <1>17 DEF StartNotReady, NotReady, Settle, AlreadySettled, Fatal
<1>18. CASE LoopEnd
  BY <1>18 DEF LoopEnd
<1>19. CASE Pass
  BY <1>19 DEF Pass, Rewritten, RestartNeeded
<1>20. CASE PassFails
  BY <1>20 DEF PassFails, Settle, AlreadySettled, Fatal
<1>21. CASE Ports
  BY <1>21 DEF Ports
<1>22. CASE Up
  BY <1>22 DEF Up, BroughtUp, Idle, Other
<1>23. CASE UpFails
  BY <1>23 DEF UpFails, BringUpFailed, BroughtUp, Idle, Other
<1>24. CASE WaitReady
  BY <1>24 DEF WaitReady, AfterWait, Idle, Other
<1>25. CASE WaitFails
  BY <1>25 DEF WaitFails, AfterWait, NotReady, Idle, Other
<1>26. CASE StopIdle
  BY <1>26 DEF StopIdle, StopColor, Idle, Other
<1>27. CASE Flip
  BY <1>27 DEF Flip, Commit, Committed, Followed, Idle, Other
<1>28. CASE Drained
  BY <1>28 DEF Drained
<1>29. CASE StopOld
  BY <1>29 DEF StopOld, StopColor, Retired, Idle, Other
<1>30. ASSUME NEW c \in Colors, McpStop(c) PROVE Retiring'
  BY <1>30 DEF McpStop
<1>31. ASSUME NEW c \in Colors, McpStopFails(c) PROVE Retiring'
  BY <1>31 DEF McpStopFails
<1>32. CASE Teardown
  BY <1>32 DEF Teardown
<1> QED
  BY <1>0, <1>1, <1>2, <1>3, <1>4, <1>5, <1>6, <1>7, <1>8, <1>9, <1>10, <1>11, <1>12, <1>13,
     <1>14, <1>15, <1>16, <1>17, <1>18, <1>19, <1>20, <1>21, <1>22, <1>23, <1>24, <1>25, <1>26,
     <1>27, <1>28, <1>29, <1>30, <1>31, <1>32
  DEF Next, Start, DrainRestarts, ShutdownStep, Terminated

\* Servers are only spawned before anything has settled, and the teardown kills them all.
LEMMA NoOrphanMcpInductive ==
  ASSUME TypeOK, Control, NoOrphanMcp, [Next]_vars
  PROVE  NoOrphanMcp'
<1> USE ConstantsAssumption
    DEF TypeOK, Control, NoOrphanMcp, settled, fileVars, proxyVars, loopVars, downVars, Booting
<1>0. CASE UNCHANGED vars
  BY <1>0 DEF vars
<1>1. ASSUME NEW s \in Sources, Edit(s) PROVE NoOrphanMcp'
  BY <1>1 DEF Edit, Notify, Yields
<1>2. ASSUME NEW s \in Sources, Tear(s) PROVE NoOrphanMcp'
  BY <1>2 DEF Tear, Notify, Yields
<1>3. ASSUME NEW s \in Sources, Deliver(s) PROVE NoOrphanMcp'
  BY <1>3 DEF Deliver, Requested
<1>4. CASE StopSignal
  BY <1>4 DEF StopSignal, Settle, AlreadySettled
<1>5. CASE Exhausted
  BY <1>5 DEF Exhausted, Settle, AlreadySettled, Fatal
<1>6. CASE Crash
  BY <1>6 DEF Crash, Rewritten
<1>7. ASSUME NEW s \in McpServers, McpFails(s) PROVE NoOrphanMcp'
  BY <1>7 DEF McpFails, Settle, AlreadySettled, McpFatal
<1>8. CASE StartupRead
  BY <1>8 DEF StartupRead, StagedAtStartup
<1>9. CASE StartupReadFails
  BY <1>9 DEF StartupReadFails, Settle, AlreadySettled, Fatal
<1>10. CASE LoadPolicy
  BY <1>10 DEF LoadPolicy, RenderPolicy
<1>11. CASE LoadPolicyFails
  BY <1>11 DEF LoadPolicyFails, Settle, AlreadySettled, Fatal
<1>12. CASE LoadPolicySpawnFails
  BY <1>12 DEF LoadPolicySpawnFails, Settle, AlreadySettled, McpFatal, RenderPolicy
<1>13. CASE StartPorts
  BY <1>13 DEF StartPorts
<1>14. CASE StartUp
  BY <1>14 DEF StartUp, BroughtUp
<1>15. CASE StartUpFails
  BY <1>15 DEF StartUpFails, BringUpFailed, BroughtUp, Settle, AlreadySettled, Fatal
<1>16. CASE StartReady
  BY <1>16 DEF StartReady, Commit, Committed
<1>17. CASE StartNotReady
  BY <1>17 DEF StartNotReady, NotReady, Settle, AlreadySettled, Fatal
<1>18. CASE LoopEnd
  BY <1>18 DEF LoopEnd
<1>19. CASE Pass
  BY <1>19 DEF Pass, Rewritten, RestartNeeded
<1>20. CASE PassFails
  BY <1>20 DEF PassFails, Settle, AlreadySettled, Fatal
<1>21. CASE Ports
  BY <1>21 DEF Ports
<1>22. CASE Up
  BY <1>22 DEF Up, BroughtUp, Idle, Other
<1>23. CASE UpFails
  BY <1>23 DEF UpFails, BringUpFailed, BroughtUp, Idle, Other
<1>24. CASE WaitReady
  BY <1>24 DEF WaitReady, AfterWait, Idle, Other
<1>25. CASE WaitFails
  BY <1>25 DEF WaitFails, AfterWait, NotReady, Idle, Other
<1>26. CASE StopIdle
  BY <1>26 DEF StopIdle, StopColor, Idle, Other
<1>27. CASE Flip
  BY <1>27 DEF Flip, Commit, Committed, Followed, Idle, Other
<1>28. CASE Drained
  BY <1>28 DEF Drained
<1>29. CASE StopOld
  BY <1>29 DEF StopOld, StopColor, Retired, Idle, Other
<1>30. ASSUME NEW c \in Colors, McpStop(c) PROVE NoOrphanMcp'
  BY <1>30 DEF McpStop
<1>31. ASSUME NEW c \in Colors, McpStopFails(c) PROVE NoOrphanMcp'
  BY <1>31 DEF McpStopFails
<1>32. CASE Teardown
  BY <1>32 DEF Teardown
<1> QED
  BY <1>0, <1>1, <1>2, <1>3, <1>4, <1>5, <1>6, <1>7, <1>8, <1>9, <1>10, <1>11, <1>12, <1>13,
     <1>14, <1>15, <1>16, <1>17, <1>18, <1>19, <1>20, <1>21, <1>22, <1>23, <1>24, <1>25, <1>26,
     <1>27, <1>28, <1>29, <1>30, <1>31, <1>32
  DEF Next, Start, DrainRestarts, ShutdownStep, Terminated

\* Nothing is rendered between a pass and the bring-up it leads to, so the color is brought
\* up with exactly what is staged.
LEMMA StagingInductive ==
  ASSUME TypeOK, Control, Staging, [Next]_vars
  PROVE  Staging'
<1> USE ConstantsAssumption
    DEF TypeOK, Control, Staging, Versions, Sources, Colors, Idle, Other, settled, fileVars,
        proxyVars, loopVars, downVars, Booting, Swapping, Staged
<1>0. CASE UNCHANGED vars
  BY <1>0 DEF vars
<1>1. ASSUME NEW s \in Sources, Edit(s) PROVE Staging'
  BY <1>1 DEF Edit, Notify, Yields
<1>2. ASSUME NEW s \in Sources, Tear(s) PROVE Staging'
  BY <1>2 DEF Tear, Notify, Yields
<1>3. ASSUME NEW s \in Sources, Deliver(s) PROVE Staging'
  BY <1>3 DEF Deliver, Requested
<1>4. CASE StopSignal
  BY <1>4 DEF StopSignal, Settle, AlreadySettled
<1>5. CASE Exhausted
  BY <1>5 DEF Exhausted, Settle, AlreadySettled, Fatal
<1>6. CASE Crash
  BY <1>6 DEF Crash, Rewritten
<1>7. ASSUME NEW s \in McpServers, McpFails(s) PROVE Staging'
  BY <1>7 DEF McpFails, Settle, AlreadySettled, McpFatal
<1>8. CASE StartupRead
  BY <1>8 DEF StartupRead, StagedAtStartup
<1>9. CASE StartupReadFails
  BY <1>9 DEF StartupReadFails, Settle, AlreadySettled, Fatal
<1>10. CASE LoadPolicy
  BY <1>10 DEF LoadPolicy, RenderPolicy
<1>11. CASE LoadPolicyFails
  BY <1>11 DEF LoadPolicyFails, Settle, AlreadySettled, Fatal
<1>12. CASE LoadPolicySpawnFails
  BY <1>12 DEF LoadPolicySpawnFails, Settle, AlreadySettled, McpFatal, RenderPolicy
<1>13. CASE StartPorts
  BY <1>13 DEF StartPorts
<1>14. CASE StartUp
  BY <1>14 DEF StartUp, BroughtUp
<1>15. CASE StartUpFails
  BY <1>15 DEF StartUpFails, BringUpFailed, BroughtUp, Settle, AlreadySettled, Fatal
<1>16. CASE StartReady
  BY <1>16 DEF StartReady, Commit, Committed
<1>17. CASE StartNotReady
  BY <1>17 DEF StartNotReady, NotReady, Settle, AlreadySettled, Fatal
<1>18. CASE LoopEnd
  BY <1>18 DEF LoopEnd
<1>19. CASE Pass
  BY <1>19 DEF Pass, Rewritten, RestartNeeded
<1>20. CASE PassFails
  BY <1>20 DEF PassFails, Settle, AlreadySettled, Fatal
<1>21. CASE Ports
  BY <1>21 DEF Ports
<1>22. CASE Up
  BY <1>22 DEF Up, BroughtUp, Idle, Other
<1>23. CASE UpFails
  BY <1>23 DEF UpFails, BringUpFailed, BroughtUp, Idle, Other
<1>24. CASE WaitReady
  BY <1>24 DEF WaitReady, AfterWait, Idle, Other
<1>25. CASE WaitFails
  BY <1>25 DEF WaitFails, AfterWait, NotReady, Idle, Other
<1>26. CASE StopIdle
  BY <1>26 DEF StopIdle, StopColor, Idle, Other
<1>27. CASE Flip
  BY <1>27 DEF Flip, Commit, Committed, Followed, Idle, Other
<1>28. CASE Drained
  BY <1>28 DEF Drained
<1>29. CASE StopOld
  BY <1>29 DEF StopOld, StopColor, Retired, Idle, Other
<1>30. ASSUME NEW c \in Colors, McpStop(c) PROVE Staging'
  BY <1>30 DEF McpStop
<1>31. ASSUME NEW c \in Colors, McpStopFails(c) PROVE Staging'
  BY <1>31 DEF McpStopFails
<1>32. CASE Teardown
  BY <1>32 DEF Teardown
<1> QED
  BY <1>0, <1>1, <1>2, <1>3, <1>4, <1>5, <1>6, <1>7, <1>8, <1>9, <1>10, <1>11, <1>12, <1>13,
     <1>14, <1>15, <1>16, <1>17, <1>18, <1>19, <1>20, <1>21, <1>22, <1>23, <1>24, <1>25, <1>26,
     <1>27, <1>28, <1>29, <1>30, <1>31, <1>32
  DEF Next, Start, DrainRestarts, ShutdownStep, Terminated

\* Files only move forward, and what is rendered and applied follows them.
LEMMA OrderedInductive ==
  ASSUME TypeOK, Control, Staging, Ordered, [Next]_vars
  PROVE  Ordered'
<1> USE ConstantsAssumption
    DEF TypeOK, Control, Staging, Ordered, Versions, Sources, settled, fileVars, proxyVars,
        loopVars, downVars, Swapping, Staged
<1>0. CASE UNCHANGED vars
  BY <1>0 DEF vars
<1>1. ASSUME NEW s \in Sources, Edit(s) PROVE Ordered'
  BY <1>1 DEF Edit, Notify, Yields
<1>2. ASSUME NEW s \in Sources, Tear(s) PROVE Ordered'
  BY <1>2 DEF Tear, Notify, Yields
<1>3. ASSUME NEW s \in Sources, Deliver(s) PROVE Ordered'
  BY <1>3 DEF Deliver, Requested
<1>4. CASE StopSignal
  BY <1>4 DEF StopSignal, Settle, AlreadySettled
<1>5. CASE Exhausted
  BY <1>5 DEF Exhausted, Settle, AlreadySettled, Fatal
<1>6. CASE Crash
  BY <1>6 DEF Crash, Rewritten
<1>7. ASSUME NEW s \in McpServers, McpFails(s) PROVE Ordered'
  BY <1>7 DEF McpFails, Settle, AlreadySettled, McpFatal
<1>8. CASE StartupRead
  BY <1>8 DEF StartupRead, StagedAtStartup
<1>9. CASE StartupReadFails
  BY <1>9 DEF StartupReadFails, Settle, AlreadySettled, Fatal
<1>10. CASE LoadPolicy
  BY <1>10 DEF LoadPolicy, RenderPolicy
<1>11. CASE LoadPolicyFails
  BY <1>11 DEF LoadPolicyFails, Settle, AlreadySettled, Fatal
<1>12. CASE LoadPolicySpawnFails
  BY <1>12 DEF LoadPolicySpawnFails, Settle, AlreadySettled, McpFatal, RenderPolicy
<1>13. CASE StartPorts
  BY <1>13 DEF StartPorts
<1>14. CASE StartUp
  BY <1>14 DEF StartUp, BroughtUp
<1>15. CASE StartUpFails
  BY <1>15 DEF StartUpFails, BringUpFailed, BroughtUp, Settle, AlreadySettled, Fatal
<1>16. CASE StartReady
  BY <1>16 DEF StartReady, Commit, Committed
<1>17. CASE StartNotReady
  BY <1>17 DEF StartNotReady, NotReady, Settle, AlreadySettled, Fatal
<1>18. CASE LoopEnd
  BY <1>18 DEF LoopEnd
<1>19. CASE Pass
  BY <1>19 DEF Pass, Rewritten, RestartNeeded
<1>20. CASE PassFails
  BY <1>20 DEF PassFails, Settle, AlreadySettled, Fatal
<1>21. CASE Ports
  BY <1>21 DEF Ports
<1>22. CASE Up
  BY <1>22 DEF Up, BroughtUp, Idle, Other
<1>23. CASE UpFails
  BY <1>23 DEF UpFails, BringUpFailed, BroughtUp, Idle, Other
<1>24. CASE WaitReady
  BY <1>24 DEF WaitReady, AfterWait, Idle, Other
<1>25. CASE WaitFails
  BY <1>25 DEF WaitFails, AfterWait, NotReady, Idle, Other
<1>26. CASE StopIdle
  BY <1>26 DEF StopIdle, StopColor, Idle, Other
<1>27. CASE Flip
  BY <1>27 DEF Flip, Commit, Committed, Followed, Idle, Other
<1>28. CASE Drained
  BY <1>28 DEF Drained
<1>29. CASE StopOld
  BY <1>29 DEF StopOld, StopColor, Retired, Idle, Other
<1>30. ASSUME NEW c \in Colors, McpStop(c) PROVE Ordered'
  BY <1>30 DEF McpStop
<1>31. ASSUME NEW c \in Colors, McpStopFails(c) PROVE Ordered'
  BY <1>31 DEF McpStopFails
<1>32. CASE Teardown
  BY <1>32 DEF Teardown
<1> QED
  BY <1>0, <1>1, <1>2, <1>3, <1>4, <1>5, <1>6, <1>7, <1>8, <1>9, <1>10, <1>11, <1>12, <1>13,
     <1>14, <1>15, <1>16, <1>17, <1>18, <1>19, <1>20, <1>21, <1>22, <1>23, <1>24, <1>25, <1>26,
     <1>27, <1>28, <1>29, <1>30, <1>31, <1>32
  DEF Next, Start, DrainRestarts, ShutdownStep, Terminated

\* Colors are brought up with what is rendered, which only moves forward afterwards.
LEMMA BuiltBehindInductive ==
  ASSUME TypeOK, Control, Staging, Ordered, BuiltBehind, [Next]_vars
  PROVE  BuiltBehind'
<1> USE ConstantsAssumption
    DEF TypeOK, Control, Staging, Ordered, BuiltBehind, Versions, Sources, Colors, Idle, Other,
        settled, fileVars, proxyVars, loopVars, downVars, Swapping, Booting
<1>0. CASE UNCHANGED vars
  BY <1>0 DEF vars
<1>1. ASSUME NEW s \in Sources, Edit(s) PROVE BuiltBehind'
  BY <1>1 DEF Edit, Notify, Yields
<1>2. ASSUME NEW s \in Sources, Tear(s) PROVE BuiltBehind'
  BY <1>2 DEF Tear, Notify, Yields
<1>3. ASSUME NEW s \in Sources, Deliver(s) PROVE BuiltBehind'
  BY <1>3 DEF Deliver, Requested
<1>4. CASE StopSignal
  BY <1>4 DEF StopSignal, Settle, AlreadySettled
<1>5. CASE Exhausted
  BY <1>5 DEF Exhausted, Settle, AlreadySettled, Fatal
<1>6. CASE Crash
  BY <1>6 DEF Crash, Rewritten
<1>7. ASSUME NEW s \in McpServers, McpFails(s) PROVE BuiltBehind'
  BY <1>7 DEF McpFails, Settle, AlreadySettled, McpFatal
<1>8. CASE StartupRead
  BY <1>8 DEF StartupRead, StagedAtStartup
<1>9. CASE StartupReadFails
  BY <1>9 DEF StartupReadFails, Settle, AlreadySettled, Fatal
<1>10. CASE LoadPolicy
  BY <1>10 DEF LoadPolicy, RenderPolicy
<1>11. CASE LoadPolicyFails
  BY <1>11 DEF LoadPolicyFails, Settle, AlreadySettled, Fatal
<1>12. CASE LoadPolicySpawnFails
  BY <1>12 DEF LoadPolicySpawnFails, Settle, AlreadySettled, McpFatal, RenderPolicy
<1>13. CASE StartPorts
  BY <1>13 DEF StartPorts
<1>14. CASE StartUp
  BY <1>14 DEF StartUp, BroughtUp
<1>15. CASE StartUpFails
  BY <1>15 DEF StartUpFails, BringUpFailed, BroughtUp, Settle, AlreadySettled, Fatal
<1>16. CASE StartReady
  BY <1>16 DEF StartReady, Commit, Committed
<1>17. CASE StartNotReady
  BY <1>17 DEF StartNotReady, NotReady, Settle, AlreadySettled, Fatal
<1>18. CASE LoopEnd
  BY <1>18 DEF LoopEnd
<1>19. CASE Pass
  BY <1>19 DEF Pass, Rewritten, RestartNeeded
<1>20. CASE PassFails
  BY <1>20 DEF PassFails, Settle, AlreadySettled, Fatal
<1>21. CASE Ports
  BY <1>21 DEF Ports
<1>22. CASE Up
  BY <1>22 DEF Up, BroughtUp, Idle, Other
<1>23. CASE UpFails
  BY <1>23 DEF UpFails, BringUpFailed, BroughtUp, Idle, Other
<1>24. CASE WaitReady
  BY <1>24 DEF WaitReady, AfterWait, Idle, Other
<1>25. CASE WaitFails
  BY <1>25 DEF WaitFails, AfterWait, NotReady, Idle, Other
<1>26. CASE StopIdle
  BY <1>26 DEF StopIdle, StopColor, Idle, Other
<1>27. CASE Flip
  BY <1>27 DEF Flip, Commit, Committed, Followed, Idle, Other
<1>28. CASE Drained
  BY <1>28 DEF Drained
<1>29. CASE StopOld
  BY <1>29 DEF StopOld, StopColor, Retired, Idle, Other
<1>30. ASSUME NEW c \in Colors, McpStop(c) PROVE BuiltBehind'
  BY <1>30 DEF McpStop
<1>31. ASSUME NEW c \in Colors, McpStopFails(c) PROVE BuiltBehind'
  BY <1>31 DEF McpStopFails
<1>32. CASE Teardown
  BY <1>32 DEF Teardown
<1> QED
  BY <1>0, <1>1, <1>2, <1>3, <1>4, <1>5, <1>6, <1>7, <1>8, <1>9, <1>10, <1>11, <1>12, <1>13,
     <1>14, <1>15, <1>16, <1>17, <1>18, <1>19, <1>20, <1>21, <1>22, <1>23, <1>24, <1>25, <1>26,
     <1>27, <1>28, <1>29, <1>30, <1>31, <1>32
  DEF Next, Start, DrainRestarts, ShutdownStep, Terminated

\* An edit leaves an event, an event a dirty mark, and a pass clears the mark only of what
\* it renders, or finds applied already.
LEMMA NotedInductive ==
  ASSUME TypeOK, Control, Staging, Ordered, Noted, [Next]_vars
  PROVE  Noted'
<1> USE ConstantsAssumption
    DEF TypeOK, Control, Staging, Staged, Ordered, Noted, Excused, Reverted, Same, Versions, Sources, settled,
        fileVars, proxyVars, loopVars, downVars, Booting
<1>0. CASE UNCHANGED vars
  BY <1>0 DEF vars
<1>1. ASSUME NEW s \in Sources, Edit(s) PROVE Noted'
  BY <1>1 DEF Edit, Notify, MissedUnless, Yields
<1>2. ASSUME NEW s \in Sources, Tear(s) PROVE Noted'
  BY <1>2 DEF Tear, Notify, MissedUnless, Yields
<1>3. ASSUME NEW s \in Sources, Deliver(s) PROVE Noted'
  BY <1>3 DEF Deliver, Requested
<1>4. CASE StopSignal
  BY <1>4 DEF StopSignal, Settle, AlreadySettled
<1>5. CASE Exhausted
  BY <1>5 DEF Exhausted, Settle, AlreadySettled, Fatal
<1>6. CASE Crash
  BY <1>6 DEF Crash, Rewritten
<1>7. ASSUME NEW s \in McpServers, McpFails(s) PROVE Noted'
  BY <1>7 DEF McpFails, Settle, AlreadySettled, McpFatal
<1>8. CASE StartupRead
  BY <1>8 DEF StartupRead, StagedAtStartup
<1>9. CASE StartupReadFails
  BY <1>9 DEF StartupReadFails, Settle, AlreadySettled, Fatal
<1>10. CASE LoadPolicy
  BY <1>10 DEF LoadPolicy, RenderPolicy
<1>11. CASE LoadPolicyFails
  BY <1>11 DEF LoadPolicyFails, Settle, AlreadySettled, Fatal
<1>12. CASE LoadPolicySpawnFails
  BY <1>12 DEF LoadPolicySpawnFails, Settle, AlreadySettled, McpFatal, RenderPolicy
<1>13. CASE StartPorts
  BY <1>13 DEF StartPorts
<1>14. CASE StartUp
  BY <1>14 DEF StartUp, BroughtUp
<1>15. CASE StartUpFails
  BY <1>15 DEF StartUpFails, BringUpFailed, BroughtUp, Settle, AlreadySettled, Fatal
<1>16. CASE StartReady
  BY <1>16 DEF StartReady, Commit, Committed
<1>17. CASE StartNotReady
  BY <1>17 DEF StartNotReady, NotReady, Settle, AlreadySettled, Fatal
<1>18. CASE LoopEnd
  BY <1>18 DEF LoopEnd
<1>19. CASE Pass
  <2>1. ASSUME NEW s \in Sources \ (torn \cup missed \cup Excused'), watching
        PROVE  Same(s, disk'[s], file[s]) \/ s \in events
    <3>1. CASE s \notin dirty
      <4>1. s \notin Rewritten /\ disk'[s] = disk[s] /\ applying' = Rewritten
        BY <1>19, <3>1 DEF Pass, Rewritten
      <4>2. s \in Channels => pending'[s] = pending[s]
        BY <1>19, <4>1 DEF Pass
      <4>3. s \notin Excused
        BY <1>19, <2>1, <4>1, <4>2 DEF Pass
      <4> QED
        BY <2>1, <3>1, <4>1, <4>3
    <3>2. CASE s = Policy /\ s \in dirty
      BY <1>19, <2>1, <3>2 DEF Pass
    <3>3. CASE s \in Rewritten
      BY <1>19, <2>1, <3>3 DEF Pass, Rewritten
    <3>4. CASE s \in Channels /\ s \in dirty /\ s \notin Rewritten
      <4>1. Same(s, file[s], applied[s])
        BY <2>1, <3>4 DEF Rewritten
      <4>2. pending'[s] = pending[s] /\ disk'[s] = disk[s] /\ applying' = Rewritten
        BY <1>19, <3>4 DEF Pass
      <4>3. pending[s] = None
        BY <1>19, <2>1, <3>4, <4>1, <4>2 DEF Pass
      <4> QED
        BY <1>19, <3>4, <4>1, <4>2, <4>3 DEF Pass
    <3> QED
      BY <2>1, <3>1, <3>2, <3>3, <3>4
  <2>2. ~settled' => watching'
    BY <1>19 DEF Pass
  <2> QED
    BY <1>19, <2>1, <2>2 DEF Pass
<1>20. CASE PassFails
  BY <1>20 DEF PassFails, Settle, AlreadySettled, Fatal
<1>21. CASE Ports
  BY <1>21 DEF Ports
<1>22. CASE Up
  BY <1>22 DEF Up, BroughtUp, Idle, Other
<1>23. CASE UpFails
  BY <1>23 DEF UpFails, BringUpFailed, BroughtUp, Idle, Other
<1>24. CASE WaitReady
  BY <1>24 DEF WaitReady, AfterWait, Idle, Other
<1>25. CASE WaitFails
  BY <1>25 DEF WaitFails, AfterWait, NotReady, Idle, Other
<1>26. CASE StopIdle
  BY <1>26 DEF StopIdle, StopColor, Idle, Other
<1>27. CASE Flip
  BY <1>27 DEF Flip, Commit, Committed, Followed, Idle, Other
<1>28. CASE Drained
  BY <1>28 DEF Drained
<1>29. CASE StopOld
  BY <1>29 DEF StopOld, StopColor, Retired, Idle, Other
<1>30. ASSUME NEW c \in Colors, McpStop(c) PROVE Noted'
  BY <1>30 DEF McpStop
<1>31. ASSUME NEW c \in Colors, McpStopFails(c) PROVE Noted'
  BY <1>31 DEF McpStopFails
<1>32. CASE Teardown
  BY <1>32 DEF Teardown
<1> QED
  BY <1>0, <1>1, <1>2, <1>3, <1>4, <1>5, <1>6, <1>7, <1>8, <1>9, <1>10, <1>11, <1>12, <1>13,
     <1>14, <1>15, <1>16, <1>17, <1>18, <1>19, <1>20, <1>21, <1>22, <1>23, <1>24, <1>25, <1>26,
     <1>27, <1>28, <1>29, <1>30, <1>31, <1>32
  DEF Next, Start, DrainRestarts, ShutdownStep, Terminated

\* Once an MCP fatal has begun to stop the colors nothing starts, or turns the gateway to,
\* one that it has stopped.
LEMMA StoppedInductive ==
  ASSUME TypeOK, Control, Stopped, [Next]_vars
  PROVE  Stopped'
<1> USE ConstantsAssumption
    DEF TypeOK, Control, Stopped, Versions, Colors, Idle, Other, settled, fileVars, proxyVars,
        loopVars, downVars, Swapping, Booting
<1>0. CASE UNCHANGED vars
  BY <1>0 DEF vars
<1>1. ASSUME NEW s \in Sources, Edit(s) PROVE Stopped'
  BY <1>1 DEF Edit, Notify, Yields
<1>2. ASSUME NEW s \in Sources, Tear(s) PROVE Stopped'
  BY <1>2 DEF Tear, Notify, Yields
<1>3. ASSUME NEW s \in Sources, Deliver(s) PROVE Stopped'
  BY <1>3 DEF Deliver, Requested
<1>4. CASE StopSignal
  BY <1>4 DEF StopSignal, Settle, AlreadySettled
<1>5. CASE Exhausted
  BY <1>5 DEF Exhausted, Settle, AlreadySettled, Fatal
<1>6. CASE Crash
  BY <1>6 DEF Crash, Rewritten
<1>7. ASSUME NEW s \in McpServers, McpFails(s) PROVE Stopped'
  BY <1>7 DEF McpFails, Settle, AlreadySettled, McpFatal
<1>8. CASE StartupRead
  BY <1>8 DEF StartupRead, StagedAtStartup
<1>9. CASE StartupReadFails
  BY <1>9 DEF StartupReadFails, Settle, AlreadySettled, Fatal
<1>10. CASE LoadPolicy
  BY <1>10 DEF LoadPolicy, RenderPolicy
<1>11. CASE LoadPolicyFails
  BY <1>11 DEF LoadPolicyFails, Settle, AlreadySettled, Fatal
<1>12. CASE LoadPolicySpawnFails
  BY <1>12 DEF LoadPolicySpawnFails, Settle, AlreadySettled, McpFatal, RenderPolicy
<1>13. CASE StartPorts
  BY <1>13 DEF StartPorts
<1>14. CASE StartUp
  BY <1>14 DEF StartUp, BroughtUp
<1>15. CASE StartUpFails
  BY <1>15 DEF StartUpFails, BringUpFailed, BroughtUp, Settle, AlreadySettled, Fatal
<1>16. CASE StartReady
  BY <1>16 DEF StartReady, Commit, Committed
<1>17. CASE StartNotReady
  BY <1>17 DEF StartNotReady, NotReady, Settle, AlreadySettled, Fatal
<1>18. CASE LoopEnd
  BY <1>18 DEF LoopEnd
<1>19. CASE Pass
  BY <1>19 DEF Pass, Rewritten, RestartNeeded
<1>20. CASE PassFails
  BY <1>20 DEF PassFails, Settle, AlreadySettled, Fatal
<1>21. CASE Ports
  BY <1>21 DEF Ports
<1>22. CASE Up
  BY <1>22 DEF Up, BroughtUp, Idle, Other
<1>23. CASE UpFails
  BY <1>23 DEF UpFails, BringUpFailed, BroughtUp, Idle, Other
<1>24. CASE WaitReady
  BY <1>24 DEF WaitReady, AfterWait, Idle, Other
<1>25. CASE WaitFails
  BY <1>25 DEF WaitFails, AfterWait, NotReady, Idle, Other
<1>26. CASE StopIdle
  BY <1>26 DEF StopIdle, StopColor, Idle, Other
<1>27. CASE Flip
  BY <1>27 DEF Flip, Commit, Committed, Followed, Idle, Other
<1>28. CASE Drained
  BY <1>28 DEF Drained
<1>29. CASE StopOld
  BY <1>29 DEF StopOld, StopColor, Retired, Idle, Other
<1>30. ASSUME NEW c \in Colors, McpStop(c) PROVE Stopped'
  BY <1>30 DEF McpStop
<1>31. ASSUME NEW c \in Colors, McpStopFails(c) PROVE Stopped'
  BY <1>31 DEF McpStopFails
<1>32. CASE Teardown
  BY <1>32 DEF Teardown
<1> QED
  BY <1>0, <1>1, <1>2, <1>3, <1>4, <1>5, <1>6, <1>7, <1>8, <1>9, <1>10, <1>11, <1>12, <1>13,
     <1>14, <1>15, <1>16, <1>17, <1>18, <1>19, <1>20, <1>21, <1>22, <1>23, <1>24, <1>25, <1>26,
     <1>27, <1>28, <1>29, <1>30, <1>31, <1>32
  DEF Next, Start, DrainRestarts, ShutdownStep, Terminated

\* Only a pass renders, and every pass that rendered ends in a flip, a failure or a shutdown.
LEMMA CurrentInductive ==
  ASSUME TypeOK, Control, Staging, Current, [Next]_vars
  PROVE  Current'
<1> USE ConstantsAssumption
    DEF TypeOK, Control, Staging, Staged, Current, Versions, Colors, Idle, Other, settled, fileVars, proxyVars,
        loopVars, downVars, Swapping, Booting
<1>0. CASE UNCHANGED vars
  BY <1>0 DEF vars
<1>1. ASSUME NEW s \in Sources, Edit(s) PROVE Current'
  BY <1>1 DEF Edit, Notify, Yields
<1>2. ASSUME NEW s \in Sources, Tear(s) PROVE Current'
  BY <1>2 DEF Tear, Notify, Yields
<1>3. ASSUME NEW s \in Sources, Deliver(s) PROVE Current'
  BY <1>3 DEF Deliver, Requested
<1>4. CASE StopSignal
  BY <1>4 DEF StopSignal, Settle, AlreadySettled
<1>5. CASE Exhausted
  BY <1>5 DEF Exhausted, Settle, AlreadySettled, Fatal
<1>6. CASE Crash
  BY <1>6 DEF Crash, Rewritten
<1>7. ASSUME NEW s \in McpServers, McpFails(s) PROVE Current'
  BY <1>7 DEF McpFails, Settle, AlreadySettled, McpFatal
<1>8. CASE StartupRead
  BY <1>8 DEF StartupRead, StagedAtStartup
<1>9. CASE StartupReadFails
  BY <1>9 DEF StartupReadFails, Settle, AlreadySettled, Fatal
<1>10. CASE LoadPolicy
  BY <1>10 DEF LoadPolicy, RenderPolicy
<1>11. CASE LoadPolicyFails
  BY <1>11 DEF LoadPolicyFails, Settle, AlreadySettled, Fatal
<1>12. CASE LoadPolicySpawnFails
  BY <1>12 DEF LoadPolicySpawnFails, Settle, AlreadySettled, McpFatal, RenderPolicy
<1>13. CASE StartPorts
  BY <1>13 DEF StartPorts
<1>14. CASE StartUp
  BY <1>14 DEF StartUp, BroughtUp
<1>15. CASE StartUpFails
  BY <1>15 DEF StartUpFails, BringUpFailed, BroughtUp, Settle, AlreadySettled, Fatal
<1>16. CASE StartReady
  BY <1>16 DEF StartReady, Commit, Committed
<1>17. CASE StartNotReady
  BY <1>17 DEF StartNotReady, NotReady, Settle, AlreadySettled, Fatal
<1>18. CASE LoopEnd
  BY <1>18 DEF LoopEnd
<1>19. CASE Pass
  BY <1>19 DEF Pass, Rewritten, RestartNeeded
<1>20. CASE PassFails
  BY <1>20 DEF PassFails, Settle, AlreadySettled, Fatal
<1>21. CASE Ports
  BY <1>21 DEF Ports
<1>22. CASE Up
  BY <1>22 DEF Up, BroughtUp, Idle, Other
<1>23. CASE UpFails
  BY <1>23 DEF UpFails, BringUpFailed, BroughtUp, Idle, Other
<1>24. CASE WaitReady
  BY <1>24 DEF WaitReady, AfterWait, Idle, Other
<1>25. CASE WaitFails
  BY <1>25 DEF WaitFails, AfterWait, NotReady, Idle, Other
<1>26. CASE StopIdle
  BY <1>26 DEF StopIdle, StopColor, Idle, Other
<1>27. CASE Flip
  BY <1>27 DEF Flip, Commit, Committed, Followed, Idle, Other
<1>28. CASE Drained
  BY <1>28 DEF Drained
<1>29. CASE StopOld
  BY <1>29 DEF StopOld, StopColor, Retired, Idle, Other
<1>30. ASSUME NEW c \in Colors, McpStop(c) PROVE Current'
  BY <1>30 DEF McpStop
<1>31. ASSUME NEW c \in Colors, McpStopFails(c) PROVE Current'
  BY <1>31 DEF McpStopFails
<1>32. CASE Teardown
  BY <1>32 DEF Teardown
<1> QED
  BY <1>0, <1>1, <1>2, <1>3, <1>4, <1>5, <1>6, <1>7, <1>8, <1>9, <1>10, <1>11, <1>12, <1>13,
     <1>14, <1>15, <1>16, <1>17, <1>18, <1>19, <1>20, <1>21, <1>22, <1>23, <1>24, <1>25, <1>26,
     <1>27, <1>28, <1>29, <1>30, <1>31, <1>32
  DEF Next, Start, DrainRestarts, ShutdownStep, Terminated

-----------------------------------------------------------------------------
\* The theorems.

\* The strengthened invariant holds when the process starts.
LEMMA InitIInv == Init => IInv
<1> SUFFICES ASSUME Init PROVE IInv
  OBVIOUS
<1> USE ConstantsAssumption DEF Init, Colors
<1>1. TypeOK
  BY DEF TypeOK, Versions, Sources
<1>2. Control
  BY DEF Control, Booting, Swapping, Staged
<1>3. Serving /\ Retiring /\ NoOrphanMcp
  BY DEF Serving, ServingColorIsReady, LogFollowsActive, Retiring, NoOrphanMcp, Booting
<1>4. Staging /\ Ordered /\ BuiltBehind /\ Noted
  BY DEF Staging, Ordered, BuiltBehind, Noted, Staged, Sources, settled
<1>5. Stopped /\ Current
  BY DEF Stopped, Current
<1> QED
  BY <1>1, <1>2, <1>3, <1>4, <1>5 DEF IInv

\* ... and every step preserves it.
LEMMA NextIInv == IInv /\ [Next]_vars => IInv'
BY TypeOKInductive, ControlInductive, ServingInductive, RetiringInductive, NoOrphanMcpInductive,
   StagingInductive, OrderedInductive, BuiltBehindInductive, NotedInductive, StoppedInductive,
   CurrentInductive
DEF IInv

\* IInv holds of every reachable state of the loop (runHostingLoop.ts:100-467).
THEOREM Invariance == Spec => []IInv
BY InitIInv, NextIInv, PTL DEF Spec

\* Type correctness: every variable of the loop keeps its type, and once the startup is
\* over every channel has an applied token (commit, credentialChannel.ts:119-126).
THEOREM TypeCorrectness == Spec => []TypeOK
<1>1. IInv => TypeOK
  BY DEF IInv
<1> QED
  BY <1>1, Invariance, PTL

\* The color the gateway points at stays ready until an MCP fatal or a crash
\* (bringUpColor, stopColor and setActiveBackend in drainRestarts, runHostingLoop.ts:279-331).
THEOREM ServesReadyColor == Spec => []ServingColorIsReady
<1>1. IInv => ServingColorIsReady
  BY DEF IInv, Serving
<1> QED
  BY <1>1, Invariance, PTL

\* The log followed is the serving color's (stopLogStream and startLogStream around the flip,
\* runHostingLoop.ts:313-320).
THEOREM FollowsServingLog == Spec => []LogFollowsActive
<1>1. IInv => LogFollowsActive
  BY DEF IInv, Serving
<1> QED
  BY <1>1, Invariance, PTL

\* No MCP server outlives a run that was torn down (shutdown, runHostingLoop.ts:122-134).
THEOREM McpServersDie == Spec => []NoOrphanMcp
<1>1. IInv => NoOrphanMcp
  BY DEF IInv
<1> QED
  BY <1>1, Invariance, PTL

\* Between swaps the color that does not serve is not running, unless docker failed
\* (stopColor of the idle and of the old color, runHostingLoop.ts:311, 323).
THEOREM RetiresIdleColor == Spec => []IdleColorRetired
<1>1. IInv => IdleColorRetired
  BY DEF IInv, Retiring, IdleColorRetired
<1> QED
  BY <1>1, Invariance, PTL

\* A quiet loop has rendered the newest version of every readable file that was not edited
\* in the startup gap (requestRestart and the pending sets, runHostingLoop.ts:223-244).
THEOREM LosesNoUpdate == Spec => []NoLostUpdate
<1>1. IInv => NoLostUpdate
  BY DEF IInv, Noted, NoLostUpdate, Excused, Quiet, settled
<1> QED
  BY <1>1, Invariance, PTL

\* The commit records what serves, action by action: only the end of the startup and the
\* flip change `applied`, and both make active a color brought up with what is committed.
LEMMA StepCommits ==
  ASSUME IInv, [Next]_vars, NEW c \in Channels, applied'[c] # applied[c]
  PROVE  active' # None /\ conf'[active'] # None /\ applied'[c] = conf'[active'][c]
<1> USE ConstantsAssumption
    DEF IInv, TypeOK, Control, Staging, Staged, Swapping, Versions, Sources, Colors
<1>1. CASE StartReady
  <2>1. active' = "blue" /\ applied'[c] = pending[c]
    BY <1>1 DEF StartReady, Commit, Committed
  <2>2. conf' = conf /\ conf["blue"] = disk /\ disk # None /\ pending[c] = disk[c]
    BY <1>1 DEF StartReady
  <2> QED
    BY <2>1, <2>2, ColorsType
<1>2. CASE Flip
  <2>1. c \in applying /\ applied'[c] = pending[c]
    BY <1>2 DEF Flip, Commit, Committed
  <2>2. active' = Idle /\ conf' = conf /\ conf[Idle] = disk /\ disk # None /\ pending[c] = disk[c]
    BY <1>2, <2>1 DEF Flip
  <2> QED
    BY <2>1, <2>2, ColorsType
<1>3. CASE applied' = applied
  BY <1>3
<1> QED
  BY <1>1, <1>2, <1>3
  DEF Next, vars, loopVars, proxyVars, downVars, fileVars, Edit, Tear, Deliver, StopSignal, Exhausted,
      Crash, McpFails, Start, StartupRead, StartupReadFails, LoadPolicy, LoadPolicyFails,
      LoadPolicySpawnFails, StartPorts, StartUp, StartUpFails, StartNotReady, DrainRestarts,
      LoopEnd, Pass, PassFails, Ports, Up, UpFails, WaitReady, WaitFails, StopIdle, Drained,
      StopOld, ShutdownStep, McpStop, McpStopFails, Teardown, Terminated

\* What commit() records is what the color just made active was brought up with, however
\* the credential file moved during the swap (commit after setActiveBackend,
\* runHostingLoop.ts:313-318).
THEOREM CommitsWhatServes == Spec => CommitMatchesServing
<1>1. IInv /\ [Next]_vars =>
        [\A c \in Channels : applied'[c] # applied[c] =>
           active' # None /\ conf'[active'] # None /\ applied'[c] = conf'[active'][c]]_vars
  BY StepCommits
<1> QED
  BY <1>1, Invariance, PTL DEF Spec, CommitMatchesServing

\* While nothing failed, a quiet loop serves all it has rendered: no pass leaves a render
\* behind without a swap (drainRestarts, runHostingLoop.ts:246-331).
THEOREM ServesWhatIsRendered == Spec => []ServedIsRendered
<1>1. IInv => ServedIsRendered
  BY DEF IInv, Current, ServedIsRendered, Quiet
<1> QED
  BY <1>1, Invariance, PTL

\* An MCP fatal leaves the color the gateway points at stopped, wherever it met the pipeline
\* (mcpFatal's beforeTeardown, runHostingLoop.ts:136-152).
THEOREM McpFatalStops == Spec => []McpFatalStopsServing
<1>1. IInv => McpFatalStopsServing
  BY DEF IInv, Stopped, McpFatalStopsServing
<1> QED
  BY <1>1, Invariance, PTL

\* No handler overrides what settled the loop; only an unhandled rejection does (the
\* `settled` check of shutdown, runHostingLoop.ts:122-134).
LEMMA StepKeepsCause ==
  ASSUME [Next]_vars, settled
  PROVE  cause' \in {cause, "crash"}
<1> USE DEF settled, downVars, Settle, AlreadySettled, Fatal, McpFatal
<1>1. CASE Crash
  BY <1>1 DEF Crash
<1>2. ASSUME NEW s \in Sources, Edit(s) \/ Tear(s) \/ Deliver(s)
      PROVE  cause' = cause
  BY <1>2 DEF Edit, Tear, Deliver
<1>3. CASE StopSignal \/ Exhausted \/ \E s \in McpServers : McpFails(s)
  BY <1>3 DEF StopSignal, Exhausted, McpFails
<1>4. CASE Start
  BY <1>4 DEF Start, StartupRead, StartupReadFails, LoadPolicy, LoadPolicyFails,
     LoadPolicySpawnFails, StartPorts, StartUp, StartUpFails, StartReady, StartNotReady
<1>5. CASE DrainRestarts
  BY <1>5 DEF DrainRestarts, LoopEnd, Pass, PassFails, Ports, Up, UpFails, WaitReady, WaitFails,
     StopIdle, Flip, Drained, StopOld
<1>6. CASE ShutdownStep
  BY <1>6 DEF ShutdownStep, McpStop, McpStopFails, Teardown
<1>7. CASE UNCHANGED vars
  BY <1>7 DEF vars
<1> QED
  BY <1>1, <1>2, <1>3, <1>4, <1>5, <1>6, <1>7 DEF Next, Terminated

\* What settles the loop first decides the exit code, whatever comes while it shuts down.
THEOREM FirstCauseDecides == Spec => FirstCauseWins
<1>1. [Next]_vars => [settled => cause' \in {cause, "crash"}]_vars
  BY StepKeepsCause
<1> QED
  BY <1>1, PTL DEF Spec, FirstCauseWins

-----------------------------------------------------------------------------
\* The loop implements the front door.

OpenDoor ==
  /\ Door = IF active = None THEN "closed" ELSE "open"
  /\ active # None => conf[active] \in Versions /\ \A s \in Sources : conf[active][s] <= file[s]

\* While the loop runs the door is open from the moment a color is active, never broken, and
\* in front of nothing newer than what is published.
LEMMA DoorIsOpen == IInv /\ ~settled => OpenDoor
<1> SUFFICES ASSUME IInv, ~settled PROVE OpenDoor
  OBVIOUS
<1> USE ConstantsAssumption DEF IInv, TypeOK, settled
<1>1. Door = IF active = None THEN "closed" ELSE "open"
  BY DEF Door, Serving, ServingColorIsReady, BuiltBehind
<1>2. ASSUME active # None
      PROVE  conf[active] \in Versions /\ \A s \in Sources : conf[active][s] <= file[s]
  <2>1. conf[active] \in Versions
    BY <1>2 DEF BuiltBehind
  <2>2. ASSUME NEW s \in Sources
        PROVE  conf[active][s] <= file[s]
    <3>1. conf[active][s] <= disk[s] /\ disk[s] <= file[s]
      BY <1>2, <2>2 DEF BuiltBehind, Ordered
    <3>2. conf[active][s] \in Nat /\ disk[s] \in Nat /\ file[s] \in Nat
      BY <2>1, <2>2 DEF Versions
    <3> QED
      BY <3>1, <3>2
  <2> QED
    BY <2>1, <2>2
<1> QED
  BY <1>1, <1>2 DEF OpenDoor

\* Only the end of the startup and the flip change what is served, only edits what is
\* published, and only a loop that has not settled does either.
LEMMA StepsBehindTheDoor ==
  ASSUME IInv, [Next]_vars,
         settled \/ \A s \in Sources : ~Edit(s),
         settled \/ (~StartReady /\ ~Flip)
  PROVE  /\ file' = file
         /\ settled => settled'
         /\ ~settled => active' = active /\ (active # None => conf'[active] = conf[active])
<1> USE ConstantsAssumption
    DEF settled, IInv, TypeOK, Control, Booting, Swapping, Versions, Sources, Colors, Idle, Other,
        fileVars, proxyVars, loopVars, downVars
<1>1. CASE StartUp \/ StartUpFails
  BY <1>1 DEF StartUp, StartUpFails, BringUpFailed, BroughtUp, Settle, AlreadySettled, Fatal
<1>2. CASE Up \/ UpFails
  BY <1>2 DEF Up, UpFails, BringUpFailed, BroughtUp
<1>3. CASE settled /\ (StartReady \/ Flip)
  BY <1>3 DEF StartReady, Flip
<1>4. ASSUME NEW s \in Sources, Edit(s) \/ Tear(s) \/ Deliver(s)
      PROVE  file' = file /\ cause' = cause /\ active' = active /\ conf' = conf
  BY <1>4 DEF Edit, Tear, Deliver
<1>5. CASE StopSignal \/ Exhausted \/ Crash \/ \E s \in McpServers : McpFails(s)
  BY <1>5 DEF StopSignal, Exhausted, Crash, McpFails, Settle, AlreadySettled, Fatal, McpFatal
<1>6. CASE StartupRead \/ StartupReadFails \/ LoadPolicy \/ LoadPolicyFails \/ LoadPolicySpawnFails
           \/ StartPorts \/ StartNotReady
  BY <1>6 DEF StartupRead, StartupReadFails, LoadPolicy, LoadPolicyFails, LoadPolicySpawnFails,
     StartPorts, StartNotReady, Settle, AlreadySettled, Fatal, McpFatal
<1>7. CASE LoopEnd \/ Pass \/ PassFails \/ Ports \/ WaitReady \/ WaitFails
  BY <1>7 DEF LoopEnd, Pass, PassFails, Ports, WaitReady, WaitFails, Settle, AlreadySettled, Fatal
<1>8. CASE StopIdle \/ Drained \/ StopOld \/ ShutdownStep
  BY <1>8 DEF StopIdle, Drained, StopOld, ShutdownStep, McpStop, McpStopFails, Teardown
<1>9. CASE UNCHANGED vars
  BY <1>9 DEF vars
<1> QED
  BY <1>1, <1>2, <1>3, <1>4, <1>5, <1>6, <1>7, <1>8, <1>9 DEF Next, Start, DrainRestarts, Terminated

\* Every step of the loop is a step of the front door, or none: an edit publishes, the end of
\* the startup opens, a flip flips, whatever settles the loop shuts.
LEMMA StepFrontDoor ==
  ASSUME IInv, IInv', [Next]_vars
  PROVE  [FD!Next]_(FD!doorVars)
<1>0. (IInv /\ ~settled => OpenDoor) /\ (IInv /\ ~settled => OpenDoor)'
  BY DoorIsOpen, PTL
<1> DEFINE served == IF Door = "open" THEN conf[active] ELSE [s \in Sources |-> 0]
<1>1. CASE settled
  <2>1. file' = file /\ settled'
    BY <1>1, StepsBehindTheDoor
  <2> QED
    BY <1>1, <2>1 DEF Door, FD!doorVars
<1>2. CASE ~settled /\ settled'
  <2>1. Door' = "down" /\ Door # "down"
    BY <1>2 DEF Door
  <2>2. file' = file
    <3>1. \A s \in Sources : ~Edit(s)
      BY <1>2 DEF Edit, settled, downVars
    <3>2. ~StartReady /\ ~Flip
      BY <1>2 DEF StartReady, Flip, settled, downVars
    <3> QED
      BY <3>1, <3>2, StepsBehindTheDoor
  <2>3. FD!Shut
    BY <2>1, <2>2 DEF FD!Shut, FD!Nothing
  <2> QED
    BY <2>3 DEF FD!Next
<1>3. ASSUME ~settled, ~settled', NEW s \in Sources, Edit(s)
      PROVE  FD!Publish(s)
  <2>1. UNCHANGED <<active, conf, status, cause>>
    BY <1>3 DEF Edit, proxyVars, downVars
  <2>2. Door' = Door
    BY <2>1 DEF Door, settled
  <2>3. PICK v \in file[s] + 1 .. MaxVersion[s] : file' = [file EXCEPT ![s] = v]
    BY <1>3 DEF Edit
  <2>4. file \in Versions /\ MaxVersion[s] \in Nat
    BY ConstantsAssumption DEF IInv, TypeOK, Sources
  <2>5. file' \in [Sources -> Nat] /\ file'[s] > file[s]
    BY <2>3, <2>4 DEF Versions
  <2>6. \A x \in Sources \ {s} : file'[x] = file[x]
    BY <2>3, <2>4 DEF Versions
  <2>7. served' = served
    BY <2>1, <2>2
  <2> QED
    BY <2>2, <2>5, <2>6, <2>7 DEF FD!Publish
<1>4. ASSUME ~settled, ~settled', StartReady \/ Flip
      PROVE  FD!Open \/ FD!Flip
  <2>1. active' # None /\ file' = file
    BY <1>4, ConstantsAssumption, ColorsType DEF StartReady, Flip, fileVars
  <2>2. /\ Door' = "open"
        /\ (conf[active])' \in Versions
        /\ \A s \in Sources : (conf[active])'[s] <= file[s]
    BY <1>4, <2>1, <1>0 DEF OpenDoor
  <2>3. served' = (conf[active])'
    BY <2>2
  <2>4. FD!Serve
    BY <2>1, <2>2, <2>3 DEF FD!Serve, FD!Behind, Versions
  <2>5. CASE StartReady
    <3>1. Door = "closed"
      BY <1>4, <2>5, <1>0 DEF OpenDoor, StartReady, IInv, Control, Booting
    <3> QED
      BY <2>4, <3>1 DEF FD!Open
  <2>6. CASE Flip
    <3>1. Door = "open" /\ served = conf[active]
      BY <1>4, <2>6, <1>0 DEF OpenDoor, Flip, IInv, Control, Swapping
    <3>2. (conf[active])' = disk
      BY <2>6 DEF Flip, IInv, Staging
    <3>3. \A s \in Sources : conf[active][s] <= disk[s]
      BY <2>6, ConstantsAssumption DEF Flip, IInv, TypeOK, Control, Swapping, BuiltBehind
    <3> QED
      BY <2>3, <2>4, <3>1, <3>2, <3>3 DEF FD!Flip, FD!Behind
  <2> QED
    BY <1>4, <2>5, <2>6
<1>5. ASSUME ~settled, ~settled', \A s \in Sources : ~Edit(s), ~StartReady, ~Flip
      PROVE  UNCHANGED FD!doorVars
  <2>1. file' = file /\ active' = active /\ (active # None => conf'[active] = conf[active])
    BY <1>5, StepsBehindTheDoor
  <2>2. Door' = Door
    BY <1>5, <2>1, <1>0 DEF OpenDoor
  <2>3. Door = "open" => active # None
    BY DEF Door
  <2> QED
    BY <2>1, <2>2, <2>3 DEF FD!doorVars
<1> QED
  BY <1>1, <1>2, <1>3, <1>4, <1>5 DEF FD!Next

\* The loop implements the abstract front door: one door, never in front of a dead proxy, never
\* back to an older policy or credential, whatever fails behind it (runHostingLoop.ts:285-323).
THEOREM ImplementsFrontDoor == Spec => FrontDoorSpec
<1>1. Init => FD!Init
  BY DEF Init, FD!Init, FD!Nothing, Door, settled, Sources
<1>2. IInv /\ IInv' /\ [Next]_vars => [FD!Next]_(FD!doorVars)
  BY StepFrontDoor
<1> QED
  BY <1>1, <1>2, Invariance, PTL DEF Spec, FrontDoorSpec, FD!Spec

-----------------------------------------------------------------------------
\* The loop implements the path of each channel's credential.


\* A step that changes nothing a credential passes through: at most the phase of the loop,
\* and no further than to the end of a swap or of the loop.
StaysOnPath(c) ==
  /\ active' = active /\ (active # None => conf'[active] = conf[active])
  /\ disk'[c] = disk[c] /\ pending'[c] = pending[c] /\ applied'[c] = applied[c]
  /\ \/ Phase' = Phase /\ (Phase \in {"swap", "drain"} => applying' = applying)
     \/ Phase' = "done"
     \/ Phase \in {"swap", "drain"} /\ Phase' = "idle"

\* Such a step leaves c's path where it is, or ends the swap or the path.
LEMMA StayingSteps ==
  ASSUME NEW c \in Channels, StaysOnPath(c)
  PROVE  [Path(c)!Next]_(Path(c)!pathVars)
<1>1. Secret(c)' = Secret(c) /\ Live(c)' = Live(c)
  BY DEF StaysOnPath, Secret, Live
<1>2. pending'[c] = pending[c] /\ applied'[c] = applied[c]
  BY DEF StaysOnPath
<1>3. CASE Phase' = Phase /\ (Phase \in {"swap", "drain"} => applying' = applying)
  <2>1. Mine(c)' = Mine(c)
    BY <1>3 DEF Mine
  <2> QED
    BY <1>1, <1>2, <1>3, <2>1 DEF Path!pathVars
<1>4. CASE Phase' = "done"
  <2>1. Mine(c)' = FALSE
    BY <1>4 DEF Mine
  <2> QED
    BY <1>1, <1>2, <1>4, <2>1 DEF Path!Stop, Path!Next
<1>5. CASE Phase \in {"swap", "drain"} /\ Phase' = "idle"
  <2>1. Mine(c)' = FALSE
    BY <1>5 DEF Mine
  <2> QED
    BY <1>1, <1>2, <1>5, <2>1 DEF Path!End, Path!Next
<1> QED
  BY <1>3, <1>4, <1>5 DEF StaysOnPath

\* Only five actions do more than that to a credential.
LEMMA MostStepsStayOnPath ==
  ASSUME IInv, [Next]_vars, NEW c \in Channels,
         ~StartupRead, ~StartupReadFails, ~StartReady, ~Pass, ~Flip
  PROVE  StaysOnPath(c)
<1> USE ConstantsAssumption
    DEF StaysOnPath, Phase, settled, IInv, TypeOK, Control, Booting, Swapping, Versions, Sources,
        Colors, Idle, Other, fileVars, proxyVars, loopVars, downVars
<1>1. CASE StartUp \/ StartUpFails
  BY <1>1 DEF StartUp, StartUpFails, BringUpFailed, BroughtUp, Settle, AlreadySettled, Fatal
<1>2. CASE Up \/ UpFails
  BY <1>2 DEF Up, UpFails, BringUpFailed, BroughtUp
<1>3. ASSUME NEW s \in Sources, Edit(s) \/ Tear(s) \/ Deliver(s)
      PROVE  StaysOnPath(c)
  BY <1>3 DEF Edit, Tear, Deliver
<1>4. CASE StopSignal \/ Exhausted \/ Crash \/ \E s \in McpServers : McpFails(s)
  BY <1>4 DEF StopSignal, Exhausted, Crash, McpFails, Settle, AlreadySettled, Fatal, McpFatal
<1>5. CASE LoadPolicy \/ LoadPolicyFails \/ LoadPolicySpawnFails
  BY <1>5 DEF LoadPolicy, LoadPolicyFails, LoadPolicySpawnFails, RenderPolicy, Settle,
     AlreadySettled, Fatal, McpFatal
<1>6. CASE StartPorts \/ StartNotReady
  BY <1>6 DEF StartPorts, StartNotReady, Settle, AlreadySettled, Fatal
<1>7. CASE LoopEnd \/ PassFails \/ Ports
  BY <1>7 DEF LoopEnd, PassFails, Ports, Settle, AlreadySettled, Fatal
<1>8. CASE WaitReady \/ WaitFails
  BY <1>8 DEF WaitReady, WaitFails, AfterWait
<1>9. CASE StopIdle \/ Drained \/ StopOld
  BY <1>9 DEF StopIdle, Drained, StopOld
<1>10. CASE ShutdownStep
  BY <1>10 DEF ShutdownStep, McpStop, McpStopFails, Teardown
<1>11. CASE UNCHANGED vars
  BY <1>11 DEF vars
<1> QED
  BY <1>1, <1>2, <1>3, <1>4, <1>5, <1>6, <1>7, <1>8, <1>9, <1>10, <1>11
  DEF Next, Start, DrainRestarts, Terminated

\* The five: read or abandoned at startup, opened by the first color, staged or joined by a
\* pass, served by a flip.
LEMMA StepPath ==
  ASSUME IInv, [Next]_vars, NEW c \in Channels
  PROVE  [Path(c)!Next]_(Path(c)!pathVars)
<1> USE ConstantsAssumption
    DEF IInv, TypeOK, Control, Booting, Swapping, Staged, Versions, Sources, Colors
<1>1. CASE StartupRead
  <2>1. Phase = "boot" /\ Phase' = "starting"
    BY <1>1 DEF StartupRead, Phase
  <2>2. Mine(c)' = Mine(c)
    BY <2>1 DEF Mine
  <2>3. pending'[c] = file[c] /\ disk'[c] = file[c] /\ file[c] \in Nat
    BY <1>1 DEF StartupRead, StagedAtStartup
  <2>4. Secret(c)' = file[c]
    BY <2>3 DEF Secret
  <2>5. Live(c)' = Live(c) /\ applied'[c] = applied[c]
    BY <1>1 DEF StartupRead, Live
  <2> QED
    BY <2>1, <2>2, <2>3, <2>4, <2>5 DEF Path!Read, Path!Write, Path!Next
<1>2. CASE StartupReadFails
  <2>1. Phase = "boot" /\ Phase' = "done"
    BY <1>2 DEF StartupReadFails, Phase
  <2>2. Mine(c)' = Mine(c)
    BY <2>1 DEF Mine
  <2>3. active' = active /\ Live(c)' = Live(c) /\ applied'[c] = applied[c]
    BY <1>2 DEF StartupReadFails, Live
  <2>4. \/ pending'[c] = file[c] /\ disk'[c] = file[c]
        \/ pending'[c] = pending[c] /\ disk'[c] = disk[c]
    BY <1>2 DEF StartupReadFails
  <2>5. file[c] \in Nat
    OBVIOUS
  <2>6. \/ Secret(c)' = file[c] /\ pending'[c] = file[c]
        \/ Secret(c)' = Secret(c) /\ pending'[c] = pending[c]
    BY <2>3, <2>4, <2>5 DEF Secret
  <2> QED
    BY <2>1, <2>2, <2>3, <2>5, <2>6 DEF Path!Abandon, Path!Write, Path!Next
<1>3. CASE StartReady /\ settled
  <2>1. StaysOnPath(c)
    BY <1>3 DEF StartReady, StaysOnPath, Phase
  <2> QED
    BY <2>1, StayingSteps
<1>4. CASE StartReady /\ ~settled
  <2>1. Phase = "starting" /\ Phase' = "idle"
    BY <1>4 DEF StartReady, Phase
  <2>2. Mine(c)' = Mine(c)
    BY <2>1 DEF Mine
  <2>3. applied'[c] = pending[c] /\ pending'[c] = None
    BY <1>4 DEF StartReady, Commit, Committed
  <2>4. disk' = disk /\ conf' = conf /\ active' = "blue" /\ conf["blue"] = disk
    BY <1>4 DEF StartReady, Staging
  <2>5. Live(c)' = disk[c]
    BY <2>4, ColorsType DEF Live
  <2>6. Secret(c) = disk[c] /\ Secret(c)' = disk[c]
    BY <1>4, <2>4, ColorsType DEF StartReady, Secret
  <2> QED
    BY <2>1, <2>2, <2>3, <2>5, <2>6 DEF Path!Open, Path!Record, Path!Next
<1>5. CASE Pass
  <2>1. Phase = "idle" /\ ~Mine(c) /\ active # None /\ active' = active /\ conf' = conf
    BY <1>5 DEF Pass, Phase, Mine
  <2>2. Live(c)' = Live(c) /\ applied'[c] = applied[c]
    BY <1>5, <2>1 DEF Pass, Live
  <2>3. CASE c \in Rewritten
    <3>1. Phase' = "swap" /\ Mine(c)'
      BY <1>5, <2>3 DEF Pass, RestartNeeded, Phase, Mine
    <3>2. pending'[c] = file[c] /\ disk'[c] = file[c] /\ file[c] # applied[c] /\ file[c] \in Nat
      BY <1>5, <2>3 DEF Pass, Rewritten, Same
    <3>3. Secret(c)' = file[c]
      BY <3>2 DEF Secret
    <3> QED
      BY <2>1, <2>2, <3>1, <3>2, <3>3 DEF Path!Stage, Path!Write, Path!Next
  <2>4. CASE c \notin Rewritten
    <3>1. pending'[c] = pending[c] /\ disk'[c] = disk[c] /\ c \notin applying'
      BY <1>5, <2>4 DEF Pass
    <3>2. Secret(c)' = Secret(c) /\ ~Mine(c)'
      BY <2>1, <3>1 DEF Secret, Mine
    <3>3. Phase' \in {"idle", "swap"}
      BY <1>5 DEF Pass, Phase
    <3> QED
      BY <2>1, <2>2, <3>1, <3>2, <3>3 DEF Path!Join, Path!Next, Path!pathVars, Mine
  <2> QED
    BY <2>3, <2>4
<1>6. CASE Flip
  <2>1. Phase = "swap" /\ Phase' = "drain"
    BY <1>6 DEF Flip, Phase
  <2>2. Mine(c)' = Mine(c) /\ (Mine(c) <=> c \in applying)
    BY <1>6, <2>1 DEF Flip, Mine
  <2>3. disk' = disk /\ conf' = conf /\ active' = Idle /\ conf[Idle] = disk
    BY <1>6 DEF Flip, Staging
  <2>4. Live(c)' = disk[c]
    BY <2>3, ColorsType DEF Live
  <2>5. active # None
    BY <1>6 DEF Flip
  <2>6. Secret(c) = disk[c] /\ Secret(c)' = disk[c]
    BY <2>3, <2>5, ColorsType DEF Secret
  <2>7. CASE c \in applying
    <3>1. pending[c] = disk[c] /\ disk[c] \in Nat
      BY <1>6, <2>7 DEF Flip, Staging
    <3>2. applied'[c] = pending[c] /\ pending'[c] = None
      BY <1>6, <2>7, <3>1 DEF Flip, Commit, Committed
    <3> QED
      BY <2>1, <2>2, <2>4, <2>6, <2>7, <3>2 DEF Path!Serve, Path!Record, Path!Next
  <2>8. CASE c \notin applying
    <3>1. applied'[c] = applied[c] /\ pending'[c] = pending[c]
      BY <1>6, <2>8 DEF Flip, Commit, Committed
    <3> QED
      BY <2>1, <2>2, <2>4, <2>6, <2>8, <3>1 DEF Path!Serve, Path!Next
  <2> QED
    BY <2>7, <2>8
<1>7. CASE ~StartupRead /\ ~StartupReadFails /\ ~StartReady /\ ~Pass /\ ~Flip
  BY <1>7, MostStepsStayOnPath, StayingSteps
<1> QED
  BY <1>1, <1>2, <1>3, <1>4, <1>5, <1>6, <1>7

\* The loop takes every channel's credential along the path: what commit() records is what was
\* staged for that swap and what the new color was brought up with, whatever the other
\* sources do to the swap (commit, credentialChannel.ts:119-126; runHostingLoop.ts:285-331).
THEOREM ImplementsPath == Spec => PathSpec
<1>1. Init => \A c \in Channels : Path(c)!Init
  BY ConstantsAssumption DEF Init, Path!Init, Phase, Mine, Secret, Live
<1>2. IInv /\ [Next]_vars => [\A c \in Channels : [Path(c)!Next]_(Path(c)!pathVars)]_vars
  BY StepPath
<1> QED
  BY <1>1, <1>2, Invariance, PTL DEF Spec, PathSpec

\* The same, channel by channel, as the abstract specification itself.
COROLLARY EachCredentialTakesItsPath == Spec => \A c \in Channels : Path(c)!Spec
<1>1. ASSUME NEW c \in Channels
      PROVE  Spec => Path(c)!Spec
  <2>1. Init => Path(c)!Init
    BY ConstantsAssumption DEF Init, Path!Init, Phase, Mine, Secret, Live
  <2>2. IInv /\ [Next]_vars => [Path(c)!Next]_(Path(c)!pathVars)
    BY StepPath
  <2> QED
    BY <2>1, <2>2, Invariance, PTL DEF Spec, Path!Spec
<1> QED
  BY <1>1
=============================================================================
