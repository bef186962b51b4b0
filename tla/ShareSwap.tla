------------------------------ MODULE ShareSwap ------------------------------
(***************************************************************************)
(* update-shares (src/commands/updateShares.ts): the script folders of the *)
(* guests' shares are built aside and swapped in one after the other       *)
(* (executePlans of src/weaveShares.ts), with the swaps undone when one of *)
(* them fails.  Any call of the file system may fail, and the process may  *)
(* be cut off between two of them or in the middle of a removal.           *)
(*                                                                         *)
(* What a folder holds is a number: Gone, Torn (removed in part), or the   *)
(* update that built it.  A backup is named with the id of the process     *)
(* that made it, and process ids come back.  What is staged is read by     *)
(* nobody but its own process, which removes it first: no state of its own.*)
(***************************************************************************)
EXTENDS Naturals

CONSTANTS
  Folders,              \* folders to swap, in this order: 1 .. Folders
  Pids                  \* process ids

ASSUME ShareSwapAssumption == Folders \in Nat \ {0}

VARIABLES
  live,                 \* the folders the guests see
  backup,               \* the folders moved aside, by process id
  updates,              \* update-shares given so far
  update                \* the last one, finished or not

swapVars == <<live, backup, updates, update>>

Gone == 0
Torn == 1
Whole(x) == x > Torn
New == updates + 2      \* what the current update builds; init built Whole number 2

Swapping == {"stage", "clear", "aside", "move"}
Undoing == {"undo", "restore"}
Over == {"ok", "error", "cut off"}

\* at: the folder being worked at; had: the folders that were there when it was their turn;
\* swapped: folders the undoing looks at; before (history): the folders as the update found
\* them; stuck (history): the undoing failed; again (history): some update so far has found
\* a backup under its own process id.
Update == [step: Swapping \cup Undoing \cup {"drop"} \cup Over, at: 1..Folders, pid: Pids,
           had: SUBSET (1..Folders), swapped: 0..Folders, before: [1..Folders -> Nat],
           stuck: BOOLEAN, again: BOOLEAN]

SwapTypeOK ==
  /\ live \in [1..Folders -> Nat]
  /\ backup \in [1..Folders -> [Pids -> Nat]]
  /\ updates \in Nat
  /\ update \in Update

SwapInit ==
  /\ live = [f \in 1..Folders |-> 2]
  /\ backup = [f \in 1..Folders |-> [p \in Pids |-> Gone]]
  /\ updates = 0
  /\ \E p \in Pids :
       update = [step |-> "ok", at |-> 1, pid |-> p, had |-> {}, swapped |-> 0,
                 before |-> live, stuck |-> FALSE, again |-> FALSE]

-----------------------------------------------------------------------------
Updated == update.step \in Over
Swap(step) == update.step = step
SwapTo(step, f) == update' = [update EXCEPT !.step = step, !.at = f]
SetLive(f, x) == live' = [live EXCEPT ![f] = x]

\* mutant: backups are not named with the process id.
OneName == CHOOSE p \in Pids : TRUE

Own == update.pid
SetBackup(f, x) == backup' = [backup EXCEPT ![f][Own] = x]

StartUpdate ==
  /\ Updated
  /\ updates' = updates + 1
  /\ \E p \in Pids :
       update' = [step |-> "stage", at |-> 1, pid |-> p, had |-> {}, swapped |-> 0,
                  before |-> live, stuck |-> FALSE,
                  again |-> update.again \/ \E f \in 1..Folders : backup[f][p] # Gone]
  /\ UNCHANGED <<live, backup>>

\* The preview, planAllPhases and the staging of every folder: no folder is touched.
Stage ==
  /\ Swap("stage")
  /\ SwapTo("clear", 1) \/ SwapTo("error", 1)
  /\ UNCHANGED <<live, backup, updates>>

\* The swap fails; the first n folders are put back, as far as they have been swapped.
Undoes(n) ==
  update' = [update EXCEPT !.step = IF n = 0 THEN "error" ELSE "undo", !.at = 1, !.swapped = n]

\* A backup that bears the process's id is in the way.
Clear ==
  LET f == update.at IN
  /\ Swap("clear")
  /\ \/ SetBackup(f, Gone) /\ SwapTo("aside", f)
     \/ /\ backup[f][Own] # Gone
        /\ SetBackup(f, backup[f][Own]) \/ SetBackup(f, Torn)
        /\ Undoes(f - 1)
  /\ UNCHANGED <<live, updates>>

MoveAside ==
  LET f == update.at IN
  /\ Swap("aside")
  /\ \/ /\ live[f] = Gone
        /\ SwapTo("move", f)
        /\ UNCHANGED <<live, backup>>
     \/ /\ live[f] # Gone
        /\ SetBackup(f, live[f]) /\ SetLive(f, Gone)
        /\ update' = [update EXCEPT !.step = "move", !.had = @ \cup {f}]
     \/ /\ live[f] # Gone
        /\ Undoes(f - 1)
        /\ UNCHANGED <<live, backup>>
  /\ UNCHANGED updates

\* The folder is noted as swapped before what was staged takes its place.
MoveIn ==
  LET f == update.at IN
  /\ Swap("move")
  /\ \/ /\ SetLive(f, New)
        /\ IF f < Folders THEN SwapTo("clear", f + 1) ELSE SwapTo("drop", 1)
     \/ Undoes(f) /\ UNCHANGED live
  /\ UNCHANGED <<backup, updates>>

NextUndo(f) == IF f < update.swapped THEN SwapTo("undo", f + 1) ELSE SwapTo("error", f)
Stuck == update' = [update EXCEPT !.step = "error", !.stuck = TRUE]

\* What has been moved in is removed.  An error in here ends the undoing.
UndoMoveIn ==
  LET f == update.at IN
  /\ Swap("undo")
  /\ \/ /\ SetLive(f, Gone)
        /\ IF f \in update.had THEN SwapTo("restore", f) ELSE NextUndo(f)
     \/ live[f] # Gone /\ Stuck /\ (UNCHANGED live \/ SetLive(f, Torn))
  /\ UNCHANGED <<backup, updates>>

\* What had been moved aside is moved back.
Restore ==
  LET f == update.at IN
  /\ Swap("restore")
  /\ \/ SetLive(f, backup[f][Own]) /\ SetBackup(f, Gone) /\ NextUndo(f)
     \/ Stuck /\ UNCHANGED <<live, backup>>
  /\ UNCHANGED updates

\* Every folder is swapped: the backups go.
Drop ==
  LET f == update.at IN
  /\ Swap("drop")
  /\ \/ /\ SetBackup(f, Gone)
        /\ IF f < Folders THEN SwapTo("drop", f + 1) ELSE SwapTo("ok", f)
     \/ /\ backup[f][Own] # Gone
        /\ UNCHANGED backup \/ SetBackup(f, Torn)
        /\ SwapTo("error", f)
  /\ UNCHANGED <<live, updates>>

\* The process is killed, between two calls or in the middle of a removal.
UpdateCutOff ==
  LET f == update.at IN
  /\ ~Updated
  /\ SwapTo("cut off", f)
  /\ \/ UNCHANGED <<live, backup>>
     \/ Swap("undo") /\ live[f] # Gone /\ SetLive(f, Torn) /\ UNCHANGED backup
     \/ /\ update.step \in {"clear", "drop"} /\ backup[f][Own] # Gone
        /\ SetBackup(f, Torn) /\ UNCHANGED live
  /\ UNCHANGED updates

SwapNext ==
  \/ StartUpdate \/ Stage \/ Clear \/ MoveAside \/ MoveIn \/ UndoMoveIn \/ Restore \/ Drop
  \/ UpdateCutOff

SwapSpec == SwapInit /\ [][SwapNext]_swapVars

-----------------------------------------------------------------------------
\* No folder of scripts is ever lost: the guests see a whole one, or one is still there among
\* the backups, however updates were cut off or got stuck, and were given again.  Excepted
\* are updates that got the process id of one that had left a backup (weaveShares.ts:196).
FoldersSurvive ==
  ~update.again =>
    \A f \in 1..Folders : Whole(live[f]) \/ \E p \in Pids : Whole(backup[f][p])

\* All folders are swapped or none is: an update that succeeds has swapped them all, one that
\* fails has put every folder back, unless the undoing failed too or only the removal of the
\* backups was left to do (weaveShares.ts:192-210).
UpdateIsAllOrNothing ==
  LET all == \A f \in 1..Folders : live[f] = New IN
  /\ Swap("ok") /\ updates > 0 => all
  /\ Swap("error") /\ ~update.stuck => live = update.before \/ all

\* How an update-shares looks to the guests and to the operator.
Showing(folders) == [f \in 1..Folders |-> IF Whole(folders[f]) THEN folders[f] - 1 ELSE 0]

Progress ==
  CASE update.step \in Swapping \cup {"drop"} -> "forward"
    [] update.step \in Undoing -> "back"
    [] update.step = "cut off" \/ (Swap("error") /\ update.stuck) -> "broken"
    [] OTHER -> update.step

Published == INSTANCE AtomicUpdates WITH
               Places <- 1..Folders, seen <- Showing(live), before <- Showing(update.before),
               state <- Progress, given <- updates, collided <- update.again,
               whole <- \A f \in 1..Folders :
                          Whole(live[f]) \/ \E p \in Pids : Whole(backup[f][p])

\* The updates keep the promises of AtomicUpdates: a guest never sees a folder that is neither
\* the old nor the new one, all are swapped or all are put back, and none is ever lost, wherever
\* calls fail, the undoing fails too, or the process is cut off, and however often it is given
\* again; but for updates that got the process id of one that had left a backup
\* (weaveShares.ts:189-213).
UpdatesSpec == Published!Spec

=============================================================================
