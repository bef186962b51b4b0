---------------------------- MODULE WindowsSetup ----------------------------
(***************************************************************************)
(* setup-guest-windows: the phase machine of setupFlow.ts with the virtual *)
(* machine it moves between two switches (vmReconcile.ts), the guest       *)
(* scripts it starts (guestExecutor.ts, stepRunner.ts), the credentials    *)
(* for the share it leaves in the guest (shareCredential.ts), and Ctrl+C   *)
(* (interruptHandler.ts), which may fall anywhere.                         *)
(*                                                                         *)
(* `pc` is the phase whose await the flow is suspended at.  Ctrl+C makes   *)
(* it leave that await at once; what it awaited goes on without it: the    *)
(* guest script as `behind`, the move of the machine as `job`.  A guest    *)
(* script is what it still has to do, and the bridge that supervises it on *)
(* the host is outstanding until the script ends or the bridge is killed.  *)
(*                                                                         *)
(* Nobody else touches the machine or the guest's credentials meanwhile.   *)
(* The runner in the guest ends a script at its deadline, before the       *)
(* bridge's own; only a bridge killed sooner may leave one that goes on.   *)
(* Probes of G2, G10 and G11 that fail and are sent again change nothing   *)
(* and are left out, as are the trust operations of G5 (WindowsTrust).     *)
(***************************************************************************)
EXTENDS Naturals, Sequences

CONSTANTS
  PreSteps, PostSteps,  \* steps in the generated share's two directories
  DrainTimeout,         \* SHARE_DRAIN_TIMEOUT_MS
  CleanupBudget,        \* SHARE_CLEANUP_BUDGET_MS
  DisposeTimeout,       \* EXECUTOR_DISPOSE_TIMEOUT_MS
  ExitDeadline,         \* CLEANUP_DEADLINE_MS
  MaxTime,              \* bound: how long a bridge that hangs holds up an ending
  None

Switches == {"default", "internal"}     \* also: the host's address on each of them

ASSUME WindowsSetupAssumption ==
  /\ PreSteps \in Nat \ {0} /\ PostSteps \in Nat
  /\ DrainTimeout \in Nat /\ CleanupBudget \in Nat /\ DisposeTimeout \in Nat
  /\ DrainTimeout < CleanupBudget
  /\ CleanupBudget + DisposeTimeout < ExitDeadline /\ ExitDeadline \in Nat
  /\ MaxTime \in Nat
  /\ None \notin Nat \cup {"good", "bad", "success", "failure", "cancelled", "killed", "forced"}
  /\ None \notin Seq([do: {"lost", "close", "delete", "write", "open", "step", "drop"},
                      at: Switches])

VARIABLES
  \* -- the flow
  pc,
  steps,                \* steps that have succeeded, per phase
  secret,               \* the share account and password last entered: right, wrong, none
  outcome,
  \* -- VmShareCredentials: its ledger, and the connections it may have left open
  ledger, open,
  \* -- the executor: the script awaited, one Ctrl+C left behind, whether that goes on without
  \*    its bridge, whether a killed bridge has not closed yet, and (history) whether one did
  \*    not close at once
  script, behind, stray, hung, held,
  cleaned,              \* addresses the cleanup script reports as done
  \* -- time since the flow's outcome, when this stage of the ending began, the first Ctrl+C
  t, since, interrupted,
  \* -- the move of the machine: how far it is, and where to
  job, to,
  \* -- the machine and its guest
  power, switch, pending, cred, conn

flowVars == <<pc, steps, secret, outcome, ledger, open>>
execVars == <<script, behind, stray, hung, held, cleaned>>
timeVars == <<t, since, interrupted>>
vmVars == <<job, to, power, switch>>
guestVars == <<pending, cred, conn>>
\* what the flow leaves alone when it goes from one phase to the next
asideVars == <<behind, stray, hung, held, cleaned, timeVars, power, switch, guestVars>>
vars == <<flowVars, execVars, timeVars, vmVars, guestVars>>

-----------------------------------------------------------------------------
\* The phases.

Prompts == {"H1", "H3", "G4"}
HostChecks == {"H2", "G4host", "G7host"}
VmMoves == {"G1", "G9"}
Steps == {"G6", "G13"}
Writes == {"G4write", "G8"}
Verifies == {"G4verify", "G12"}
Closes == {"G6close", "G13close"}
GuestWork == {"G2", "G3", "G5", "G7", "G10", "G11"} \cup Steps \cup Writes \cup Verifies \cup Closes

Phases == Prompts \cup HostChecks \cup VmMoves \cup GuestWork

\* mutant: an await that is not raced against Ctrl+C.
GuardedButVm == Phases \ VmMoves

Guarded == Phases
Ending == {"drain", "cleaning", "dispose"}

\* What follows a phase that went well.
Flow ==
  [H1 |-> "H2", H2 |-> "H3", H3 |-> "G1", G1 |-> "G2", G2 |-> "G3", G3 |-> "G4", G4 |-> "G4host",
   G4host |-> "G4write", G4write |-> "G4verify", G4verify |-> "G5", G5 |-> "G6", G6 |-> "G6close",
   G6close |-> "G7", G7 |-> "G7host", G7host |-> "G8", G8 |-> "G9", G9 |-> "G10", G10 |-> "G11",
   G11 |-> "G12", G12 |-> IF PostSteps > 0 THEN "G13" ELSE "G13close", G13 |-> "G13close"]

After(p) == Flow[p]

StepsOf(p) == IF p = "G6" THEN PreSteps ELSE PostSteps

\* The address a guest script works on.
Address(p) ==
  IF p \in {"G4write", "G4verify", "G6", "G6close"} THEN "default" ELSE "internal"

Doing(d, a) == [do |-> d, at |-> a]

ScriptOf(p) ==
  LET a == Address(p) IN
  IF p \in Writes THEN <<Doing("close", a), Doing("delete", a), Doing("write", a)>>
  ELSE IF p \in Verifies THEN <<Doing("open", a)>>
  ELSE IF p \in Steps THEN <<Doing("step", a)>>
  ELSE IF p \in Closes THEN <<Doing("close", a)>>
  ELSE <<>>

\* A script sent to a machine that is off, or that goes off under it, has no result.
Lost == <<Doing("lost", "default")>>

Sent(s) == IF power = "Off" THEN Lost ELSE s

\* The flow goes on to phase p, with l and o for the ledger.  The ledger is marked before the
\* script is sent: the script may get half way.
Enter(p, l, o) ==
  /\ pc' = p
  /\ ledger' = IF p \in Writes THEN [l EXCEPT ![Address(p)] = "written"] ELSE l
  /\ open' = IF p \in Verifies THEN o \cup {Address(p)} ELSE o
  /\ script' = IF p \in GuestWork THEN Sent(ScriptOf(p)) ELSE None
  /\ IF p \in VmMoves
     THEN job' = "query" /\ to' = IF p = "G1" THEN "default" ELSE "internal"
     ELSE UNCHANGED <<job, to>>

-----------------------------------------------------------------------------
\* Every ending goes through cleanup() and dispose().

Unverified(l) == {a \in Switches : l[a] = "written"}
Items(l, o) == o \cup Unverified(l)

\* The flow's outcome is x.
EndsWith(x, l, o) ==
  /\ outcome' = x
  /\ pc' = IF Items(l, o) = {} THEN "dispose" ELSE "drain"
  /\ ledger' = l /\ open' = o
  /\ script' = None
  /\ t' = 0 /\ since' = 0
  /\ UNCHANGED <<steps, secret, stray, hung, held, cleaned, power, switch, guestVars>>

Fail == EndsWith("failure", ledger, open) /\ UNCHANGED <<behind, interrupted, job, to>>

GoesOn(l, o) ==
  /\ Enter(After(pc), l, o)
  /\ UNCHANGED <<secret, outcome, asideVars>>

-----------------------------------------------------------------------------
\* Prompts and checks of the host.

\* G1 is entered once: with a new guest credential the machine is where it should be.
Answer ==
  /\ pc \in Prompts
  /\ IF pc = "H3" /\ job = "done"
     THEN Enter("G2", ledger, open)
     ELSE Enter(After(pc), ledger, open)
  /\ IF pc = "G4" THEN secret' \in {"good", "bad"} ELSE UNCHANGED secret
  /\ UNCHANGED <<steps, outcome, asideVars>>

\* The input ends, or the prompt itself reads Ctrl+C: no signal is raised.
PromptEnds ==
  /\ pc \in Prompts
  /\ EndsWith("cancelled", ledger, open)
  /\ UNCHANGED <<behind, interrupted, job, to>>

HostCheck ==
  /\ pc \in HostChecks
  /\ GoesOn(ledger, open) /\ UNCHANGED steps

HostCheckFails == pc \in HostChecks /\ Fail

-----------------------------------------------------------------------------
\* reconcileVmToSwitch (G1) and isolateVmToSwitch (G9).  The move goes on when Ctrl+C has made
\* the flow leave it, until the process exits.

Moving(stage) == job = stage /\ pc # "ended"

\* planVmReconciliation: a machine that runs on the right switch is left alone, but only by G1.
\* One that is shutting down may still be reported as running; if it is not, MoveFails.
Plan ==
  LET there == to = "default" /\ switch = to IN
  IF power = "Off" THEN IF there THEN "start" ELSE "connect"
  ELSE IF there THEN "done" ELSE "stop"

Query ==
  /\ Moving("query")
  /\ job' = Plan
  /\ UNCHANGED <<flowVars, execVars, timeVars, to, power, switch, guestVars>>

\* Stop-VM's own result is not looked at.
StopVm ==
  /\ Moving("stop")
  /\ job' = "confirm"
  /\ power' \in {power, "Stopping"}
  /\ UNCHANGED <<flowVars, execVars, timeVars, to, switch, guestVars>>

\* mutant: the adapter is moved without asking whether the machine is off.
ConfirmedAnyhow == TRUE

Confirmed == power = "Off"

ConfirmOff ==
  /\ Moving("confirm") /\ Confirmed
  /\ job' = "connect"
  /\ UNCHANGED <<flowVars, execVars, timeVars, to, power, switch, guestVars>>

Connect ==
  /\ Moving("connect")
  /\ job' = "start" /\ switch' = to
  /\ UNCHANGED <<flowVars, execVars, timeVars, to, power, guestVars>>

StartVm ==
  /\ Moving("start")
  /\ job' = "done" /\ power' = "Running"
  /\ pending' = FALSE
  /\ UNCHANGED <<flowVars, execVars, timeVars, to, switch, cred, conn>>

\* The machine is not found or in no state to be moved, Off is not confirmed in time, or
\* Connect-VMNetworkAdapter or Start-VM fails.
MoveFails ==
  /\ \E stage \in {"query", "confirm", "connect", "start"} : Moving(stage)
  /\ job' = "failed"
  /\ UNCHANGED <<flowVars, execVars, timeVars, to, power, switch, guestVars>>

Moved ==
  /\ pc \in VmMoves /\ job = "done"
  /\ GoesOn(ledger, open) /\ UNCHANGED steps

MoveFailed == pc \in VmMoves /\ job = "failed" /\ Fail

\* The guest has shut down, sooner or later.  Scripts and connections die with it.
GoesOff ==
  /\ power = "Stopping"
  /\ power' = "Off"
  /\ script' = IF script = None THEN None ELSE Lost
  /\ behind' = IF behind = None \/ stray THEN None ELSE Lost
  /\ conn' = {}
  /\ UNCHANGED <<flowVars, stray, hung, held, cleaned, timeVars, job, to, switch, pending, cred>>

-----------------------------------------------------------------------------
\* In the guest: a script does the next thing it has to do.

Does(e) ==
  /\ e.do # "lost"
  /\ conn' = IF e.do \in {"open", "step"} THEN conn \cup {e.at}
             ELSE IF e.do \in {"close", "drop"} THEN conn \ {e.at} ELSE conn
  /\ cred' = IF e.do \in {"delete", "drop"} THEN [cred EXCEPT ![e.at] = "none"]
             ELSE IF e.do = "write" THEN [cred EXCEPT ![e.at] = secret] ELSE cred
  /\ pending' \in IF e.do = "step" THEN {pending, TRUE} ELSE {pending}

ScriptRuns ==
  /\ script \notin {None, <<>>}
  /\ Does(Head(script))
  /\ script' = Tail(script)
  /\ cleaned' = IF pc \in Ending THEN cleaned \cup {Head(script).at} ELSE cleaned
  /\ UNCHANGED <<flowVars, behind, stray, hung, held, timeVars, vmVars>>

BehindRuns ==
  /\ behind \notin {None, <<>>}
  /\ Does(Head(behind))
  /\ behind' = IF stray /\ Len(behind) = 1 THEN None ELSE Tail(behind)
  /\ UNCHANGED <<flowVars, script, stray, hung, held, cleaned, timeVars, vmVars>>

\* The bridge of the script left behind closes by itself: done, failed or timed out.
BehindEnds ==
  /\ behind # None /\ ~stray /\ ~hung
  /\ behind' = None
  /\ UNCHANGED <<flowVars, script, stray, hung, held, cleaned, timeVars, vmVars, guestVars>>

-----------------------------------------------------------------------------
\* What the flow makes of the result of the script it awaits.

HasResult(p) == pc = p /\ script = <<>>

\* checkNoPendingReboot, in G3 and again in G7.
Passes == pc \in {"G3", "G7"} => ~pending

WorkDone ==
  /\ pc \in GuestWork \ (Steps \cup Verifies \cup Closes) /\ HasResult(pc)
  /\ Passes
  /\ GoesOn(ledger, open) /\ UNCHANGED steps

\* The guest refuses its user's password: both are asked for again.
GuestRejects ==
  /\ HasResult("G2")
  /\ Enter("H3", ledger, open)
  /\ UNCHANGED <<steps, secret, outcome, asideVars>>

\* mutant: the last step of a directory is left out.
MoreStepsButLast(n, p) == n + 1 < StepsOf(p)

MoreSteps(n, p) == n < StepsOf(p)

StepDone ==
  /\ pc \in Steps /\ HasResult(pc)
  /\ steps' = [steps EXCEPT ![pc] = @ + 1]
  /\ IF MoreSteps(steps[pc] + 1, pc)
     THEN /\ Enter(pc, ledger, open)
          /\ UNCHANGED <<secret, outcome, asideVars>>
     ELSE GoesOn(ledger, open)

Verified ==
  /\ pc \in Verifies /\ HasResult(pc)
  /\ cred[Address(pc)] = "good"
  /\ GoesOn([ledger EXCEPT ![Address(pc)] = "verified"], open) /\ UNCHANGED steps

\* The host refuses the share's password: both are asked for again, at the default address only.
WrongPassword ==
  /\ HasResult("G4verify")
  /\ cred["default"] = "bad"
  /\ Enter("G4", ledger, open)
  /\ UNCHANGED <<steps, secret, outcome, asideVars>>

Closed ==
  /\ pc \in Closes /\ HasResult(pc)
  /\ IF pc = "G13close"
     THEN EndsWith("success", ledger, open \ {"internal"}) /\ UNCHANGED <<behind, interrupted, job, to>>
     ELSE GoesOn(ledger, open \ {"default"}) /\ UNCHANGED steps

\* Any script may fail or time out, at any point of its work; so may any check it makes.
WorkFails == pc \in GuestWork /\ Fail

-----------------------------------------------------------------------------
\* Ctrl+C, and the ending it shares with every other outcome.

\* In a guarded await the flow leaves at once.  Anywhere else the signal is only noted, with
\* the time from which the exit deadline counts.
CtrlC ==
  /\ pc \notin {"report", "ended"} /\ interrupted = None
  /\ IF pc \in Guarded
     THEN /\ EndsWith("cancelled", ledger, open)
          /\ behind' = script /\ interrupted' = 0
          /\ UNCHANGED <<job, to>>
     ELSE /\ interrupted' = t
          /\ UNCHANGED <<flowVars, execVars, t, since, vmVars, guestVars>>

Exits(x) ==
  /\ pc' = "ended" /\ outcome' = x
  /\ UNCHANGED <<steps, secret, ledger, open, execVars, timeVars, vmVars, guestVars>>

SecondCtrlC == pc \notin {"report", "ended"} /\ interrupted # None /\ Exits("killed")

ExitDue == interrupted # None /\ t - interrupted >= ExitDeadline

\* mutant: cleanup does not wait for the script Ctrl+C has left behind.
NeverBehind == FALSE

BridgeBehind == behind # None /\ ~stray

\* mutant: dispose() only marks the executor as disposed.
NothingOutstanding == FALSE

Outstanding == script # None \/ BridgeBehind

\* The timer finds the flow still waiting.
ExitForced == pc \in Ending /\ Outstanding /\ ExitDue /\ Exits("forced")

\* mutant: the executor is made without the shorter limit, and has dispose()'s own 30 seconds.
DefaultDisposeLimit == ExitDeadline

DisposeLimit == DisposeTimeout

\* A killed bridge closes.  That may or may not end the script in the guest.
BridgeDies ==
  /\ hung' = FALSE /\ UNCHANGED held
  /\ \E goesOn \in BOOLEAN :
       /\ stray' = (stray \/ goesOn)
       /\ behind' = IF goesOn THEN IF script = None THEN behind ELSE script
                    ELSE IF stray THEN behind ELSE None
  /\ script' = None

\* drainCancelled() then waits for it without a limit.
Kill == BridgeDies \/ (hung' = TRUE /\ held' = TRUE /\ UNCHANGED <<script, behind, stray>>)

DrainExpires ==
  /\ pc = "drain" /\ BridgeBehind /\ ~hung
  /\ t - since >= DrainTimeout
  /\ Kill
  /\ UNCHANGED <<flowVars, cleaned, timeVars, vmVars, guestVars>>

HungCloses ==
  /\ hung /\ pc # "ended"
  /\ BridgeDies
  /\ UNCHANGED <<flowVars, cleaned, timeVars, vmVars, guestVars>>

CleanupScript ==
  LET Item(a) == IF a \notin Items(ledger, open) THEN <<>>
                 ELSE <<Doing(IF ledger[a] = "written" THEN "drop" ELSE "close", a)>>
  IN Item("default") \o Item("internal")

Drained ==
  /\ pc = "drain" /\ ~BridgeBehind
  /\ pc' = "cleaning"
  /\ script' = Sent(CleanupScript)
  /\ UNCHANGED <<steps, secret, outcome, ledger, open, behind, stray, hung, held, cleaned, timeVars,
                 vmVars, guestVars>>

\* One address fails; the script goes on with the next.
ItemFails ==
  /\ pc \in {"cleaning", "dispose"} /\ script \notin {None, <<>>, Lost}
  /\ script' = Tail(script)
  /\ UNCHANGED <<flowVars, behind, stray, hung, held, cleaned, timeVars, vmVars, guestVars>>

\* The ledger when only the addresses in s could be cleaned up.
Accounted(s) ==
  [a \in Switches |-> IF ledger[a] # "written" THEN ledger[a]
                      ELSE IF a \in s THEN "removed" ELSE "removal-failed"]

ToDispose(s) ==
  /\ pc' = "dispose" /\ since' = t
  /\ ledger' = Accounted(s) /\ open' = open \ s
  /\ UNCHANGED <<steps, secret, outcome, behind, stray, hung, held, cleaned, t, interrupted, vmVars,
                 guestVars>>

CleanupDone == HasResult("cleaning") /\ ToDispose(cleaned) /\ script' = None
CleanupFails == pc = "cleaning" /\ ToDispose({}) /\ script' = None

\* What was under way goes on, but its result is not looked at any more.
BudgetExpires == pc \in {"drain", "cleaning"} /\ t >= CleanupBudget /\ ToDispose({}) /\ UNCHANGED script

\* The bridge of an expired cleanup closes by itself.
CleanupEnds ==
  /\ pc = "dispose" /\ script # None /\ ~hung
  /\ script' = None
  /\ UNCHANGED <<flowVars, behind, stray, hung, held, cleaned, timeVars, vmVars, guestVars>>

DisposeExpires ==
  /\ pc = "dispose" /\ Outstanding /\ ~hung
  /\ t - since >= DisposeLimit
  /\ Kill
  /\ UNCHANGED <<flowVars, cleaned, timeVars, vmVars, guestVars>>

Disposed ==
  /\ pc = "dispose" /\ ~Outstanding
  /\ pc' = IF outcome = "success" THEN "ended" ELSE "report"
  /\ UNCHANGED <<steps, secret, outcome, ledger, open, execVars, timeVars, vmVars, guestVars>>

\* Hyper-V has answered, or failed, two queries that have no limit, and the footer is printed.
Report ==
  /\ pc = "report"
  /\ pc' = "ended"
  /\ UNCHANGED <<steps, secret, outcome, ledger, open, execVars, timeVars, vmVars, guestVars>>

\* Nobody listens to Ctrl+C by then: it ends the process, and nothing is printed.
CtrlCInReport == pc = "report" /\ Exits("killed")

\* A second passes, but not past a timer, nor past what is ready to go on.
Tick ==
  /\ \/ pc = "drain" /\ BridgeBehind /\ (hung \/ t - since < DrainTimeout) /\ t < CleanupBudget
     \/ pc = "cleaning" /\ t < CleanupBudget
     \/ pc = "dispose" /\ Outstanding /\ 
          IF hung THEN interrupted # None \/ t < MaxTime ELSE t - since < DisposeLimit
  /\ ~ExitDue
  /\ t' = t + 1
  /\ UNCHANGED <<flowVars, execVars, since, interrupted, vmVars, guestVars>>

-----------------------------------------------------------------------------
Init ==
  /\ pc = "H1" /\ steps = [p \in Steps |-> 0] /\ secret = None /\ outcome = None
  /\ ledger = [a \in Switches |-> "none"] /\ open = {}
  /\ script = None /\ behind = None /\ stray = FALSE /\ hung = FALSE /\ held = FALSE
  /\ cleaned = {}
  /\ t = 0 /\ since = 0 /\ interrupted = None
  /\ job = "none" /\ to = "default"
  \* What an earlier run may have left.
  /\ power \in {"Running", "Stopping", "Off"} /\ switch \in Switches
  /\ pending \in BOOLEAN /\ cred \in [Switches -> {"none", "old"}] /\ conn = {}

FlowNext ==
  \/ Answer \/ PromptEnds \/ HostCheck \/ HostCheckFails \/ Moved \/ MoveFailed
  \/ WorkDone \/ GuestRejects \/ StepDone \/ Verified \/ WrongPassword \/ Closed \/ WorkFails

\* What goes on by itself: timers, and what the flow does when nothing holds it up.
EndNext ==
  \/ Drained \/ DrainExpires \/ BudgetExpires \/ DisposeExpires \/ Disposed
  \/ ExitForced \/ Tick

WorldNext ==
  \/ Query \/ StopVm \/ ConfirmOff \/ Connect \/ StartVm \/ MoveFails \/ GoesOff
  \/ ScriptRuns \/ BehindRuns \/ BehindEnds \/ ItemFails \/ CleanupDone \/ CleanupFails
  \/ CleanupEnds \/ HungCloses \/ Report

Next == FlowNext \/ EndNext \/ WorldNext \/ CtrlC \/ SecondCtrlC \/ CtrlCInReport

\* Nothing is assumed of the guest, of Hyper-V, of prompts or of scripts: they may hang.
Spec == Init /\ [][Next]_vars /\ WF_vars(EndNext)

-----------------------------------------------------------------------------
Effect == [do: {"lost", "close", "delete", "write", "open", "step", "drop"}, at: Switches]

\* The types.
TypeOK ==
  /\ pc \in Phases \cup Ending \cup {"report", "ended"}
  /\ steps \in [Steps -> Nat]
  /\ secret \in {None, "good", "bad"}
  /\ outcome \in {None, "success", "failure", "cancelled", "killed", "forced"}
  /\ ledger \in [Switches -> {"none", "written", "verified", "removed", "removal-failed"}]
  /\ open \subseteq Switches /\ cleaned \subseteq Switches
  /\ script \in {None} \cup Seq(Effect) /\ behind \in {None} \cup Seq(Effect)
  /\ stray \in BOOLEAN /\ hung \in BOOLEAN /\ held \in BOOLEAN
  /\ t \in Nat /\ since \in 0 .. t
  /\ interrupted \in {None} \cup 0 .. t
  /\ job \in {"none", "query", "stop", "confirm", "connect", "start", "done", "failed"}
  /\ to \in Switches /\ switch \in Switches
  /\ power \in {"Running", "Stopping", "Off"}
  /\ pending \in BOOLEAN
  /\ cred \in [Switches -> {"none", "old", "good", "bad"}]
  /\ conn \subseteq Switches

\* Nothing is left to do but to tell the user, or it has been told.
AtFooter == pc = "report" \/ (pc = "ended" /\ outcome \notin {"killed", "forced"})

\* What the footer says of the share credentials is so in the guest: what was verified is
\* there and works, what was removed is gone, and nothing this run wrote stays behind without
\* a word of it.  The scripts that write and delete run in the guest beside the flow, and Ctrl+C
\* leaves one behind (shareCredential.ts:713, guestExecutor.ts:234).  A bridge that had to be
\* killed is excepted: its script may go on in the guest and write after the delete.
LedgerIsTrue ==
  AtFooter /\ ~stray =>
    \A a \in Switches :
      /\ ledger[a] # "written"
      /\ ledger[a] = "none" => cred[a] \in {"none", "old"}
      /\ ledger[a] = "verified" => cred[a] = "good"
      /\ ledger[a] = "removed" => cred[a] = "none"

\* The adapter is moved only while the machine is off, and to the Internal switch only when
\* every pre-isolation step has succeeded, no reboot is owed, the share was verified and the
\* credential for the Internal switch sent (setupFlow.ts:444, vmReconcile.ts:111), whether or
\* not the flow still waits for the move.
IsolationIsGated ==
  [][switch' # switch =>
       /\ power = "Off"
       /\ switch' = "internal" =>
            /\ steps["G6"] = PreSteps
            /\ ~pending
            /\ ledger["default"] = "verified" /\ ledger["internal"] # "none"]_vars

\* A run that reports success leaves the machine running on the Internal switch, every step of
\* both directories done, both credentials verified and working, and no connection to the share
\* (setupFlow.ts:545).
SuccessIsComplete ==
  outcome = "success" =>
    /\ power = "Running" /\ switch = "internal"
    /\ steps = [p \in Steps |-> StepsOf(p)]
    /\ \A a \in Switches : ledger[a] = "verified" /\ cred[a] = "good"
    /\ conn = {} /\ open = {}

\* When the footer is printed no bridge of this run is outstanding: a guest script goes on only
\* if its bridge was killed (guestExecutor.ts:301, setupFlow.ts:571).
NothingLeftRunning == AtFooter => script = None /\ (behind # None => stray)

\* The three limits fit together: an ending nobody interrupts takes no longer than the cleanup's
\* budget and dispose()'s limit, unless a bridge did not close when it was killed: that one is
\* awaited for ever.  After Ctrl+C the exit deadline, counted from that Ctrl+C, cuts an ending
\* short only while such a bridge is awaited (guestExecutor.ts:283-294, setupGuestWindows.ts:214,
\* shareCredential.ts:9, interruptHandler.ts:4).
EndingFits ==
  /\ interrupted = None /\ ~held => t <= CleanupBudget + DisposeTimeout
  /\ outcome = "forced" => hung

\* Ctrl+C, wherever it falls before the footer's turn, leads to it whatever the guest, Hyper-V
\* or a prompt do, unless a second one asks for less; the exit deadline gets there first only
\* when a killed bridge does not close (interruptHandler.ts:4, shareCredential.ts:9).  That the
\* footer is then printed is not said: it waits for Hyper-V, without a limit
\* (residualStateFooter.ts:27-30).
CtrlCIsAnswered ==
  interrupted # None ~> (AtFooter \/ outcome = "killed" \/ (outcome = "forced" /\ hung))

=============================================================================
