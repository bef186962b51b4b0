---------------------------- MODULE AtomicUpdates ----------------------------
(***************************************************************************)
(* What updates of several folders promise whoever uses the folders while  *)
(* they are updated, and whoever gave the update, however it is carried    *)
(* out.  A folder shows what it showed before, or what the update built,   *)
(* or is not whole for the moment; it goes over to the new while the       *)
(* update goes forward, and back to the old once it has turned back, and   *)
(* it turns back but once.  An update that ends well has put every folder  *)
(* over; one that ends with an error has put back every one, or nothing    *)
(* was left to do but to tidy up; one that breaks off leaves each folder   *)
(* as it happens to be.  In all of this every folder exists whole, in its  *)
(* place or aside, until two updates collide.                              *)
(*                                                                         *)
(* ShareSwap implements it (its UpdatesSpec).                              *)
(***************************************************************************)
EXTENDS Naturals

CONSTANT Places         \* where the folders are

VARIABLES
  seen,                 \* what is whole in each place, by the update that built it
  before,               \* the same, when the last update began
  state,                \* "forward", "back"; "ok", "error", "broken"
  given,                \* updates so far
  whole,                \* every folder exists whole, in its place or aside
  collided              \* an update has worked on what another had put aside

updateVars == <<seen, before, state, given, whole, collided>>

NotWhole == 0
Built == given + 1
AllBuilt == [p \in Places |-> Built]

Init ==
  /\ given = 0
  /\ seen = AllBuilt /\ before = seen /\ state = "ok"
  /\ whole = TRUE /\ collided = FALSE

Begin ==
  /\ state \notin {"forward", "back"} /\ state' = "forward"
  /\ given' = given + 1
  /\ before' = seen
  /\ collided => collided'
  /\ UNCHANGED seen

\* One place at most shows something else.
Shows(p, v) == seen' = [seen EXCEPT ![p] = v]

Advance(p) ==
  /\ state = "forward" /\ state' = "forward"
  /\ \E v \in {seen[p], NotWhole, Built} : Shows(p, v)

TurnBack ==
  /\ state = "forward" /\ state' = "back"
  /\ UNCHANGED seen

Return(p) ==
  /\ state = "back" /\ state' = "back"
  /\ \E v \in {seen[p], NotWhole, before[p]} : Shows(p, v)

Succeed ==
  /\ state = "forward" /\ state' = "ok"
  /\ seen = AllBuilt /\ UNCHANGED seen

\* Everything is as it was, or everything is new and only the tidying up has failed.
Fail ==
  /\ state' = "error"
  /\ \/ state = "forward" /\ seen \in {before, AllBuilt} /\ UNCHANGED seen
     \/ state = "back" /\ seen' = before

BreakOff(p) ==
  /\ state' = "broken"
  /\ UNCHANGED seen \/ (state = "back" /\ Shows(p, NotWhole))

GoOn ==
  /\ state \in {"forward", "back"}
  /\ \/ \E p \in Places : Advance(p) \/ Return(p) \/ BreakOff(p)
     \/ TurnBack \/ Succeed \/ Fail
  /\ UNCHANGED <<before, given, collided>>

Next ==
  /\ Begin \/ GoOn
  /\ whole' \/ collided'

Spec == Init /\ [][Next]_updateVars
==============================================================================
