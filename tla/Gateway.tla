------------------------------- MODULE Gateway -------------------------------
(***************************************************************************)
(* The gateway (src/runHosting/gateway.ts): the listeners guests connect   *)
(* to, which pipe each connection to the color active when it is accepted, *)
(* and the drain with which a swap waits for the old color's connections   *)
(* before that color is stopped.                                           *)
(*                                                                         *)
(* The loop (RunHosting) is reduced to its swap: ports are allocated, a    *)
(* color comes up on them, setTarget, drain of the old ports, stopColor.   *)
(* A connection is known by the port it was piped to, as in the code; the  *)
(* swap it was accepted under is history, for the properties.              *)
(***************************************************************************)
EXTENDS Naturals, FiniteSets

CONSTANTS
  Ports,                \* loopback ports the allocator may hand out
  Clients,              \* connections open at one time, at most
  None,
  MaxSwaps              \* bound: swaps

ASSUME GatewayAssumption ==
  /\ MaxSwaps \in Nat
  /\ None \notin Ports
  /\ None \notin [https: Ports, http: Ports] /\ None \notin [port: Ports, swap: Nat]

Targets == {t \in [https: Ports, http: Ports] : t.https # t.http}

VARIABLES
  target,               \* where new connections go, None before the first setTarget
  conns,                \* the gateway's open connections: port, and swap of their accept
  up,                   \* targets whose color's container is up
  old,                  \* the target being drained
  pc,                   \* the loop: "idle", "ready", "drain", "force", "stop"
  swaps,                \* swaps so far
  expired,              \* the drain's deadline has passed
  aborted,              \* shutdownAbort
  closed                \* close() was called

vars == <<target, conns, up, old, pc, swaps, expired, aborted, closed>>

PortsOf(t) == {t.https, t.http}
PortsUp == UNION {PortsOf(t) : t \in up}
Open == {c \in Clients : conns[c] # None}

\* mutant: only the https listener's connections are found.
OnHttpsOnly(t) == {c \in Open : conns[c].port = t.https}

\* The connections piped to a target.
OnTarget(t) == {c \in Open : conns[c].port \in PortsOf(t)}

Without(cs) == [c \in Clients |-> IF c \in cs THEN None ELSE conns[c]]

-----------------------------------------------------------------------------
\* Guests.

\* onClient: piped to the current target; before there is one the client is dropped.
Accept(c) ==
  /\ ~closed /\ c \notin Open /\ target # None
  /\ \E p \in PortsOf(target) : conns' = [conns EXCEPT ![c] = [port |-> p, swap |-> swaps]]
  /\ UNCHANGED <<target, up, old, pc, swaps, expired, aborted, closed>>

\* Either end closes or fails: teardown.
Hangup(c) ==
  /\ c \in Open
  /\ conns' = Without({c})
  /\ UNCHANGED <<target, up, old, pc, swaps, expired, aborted, closed>>

-----------------------------------------------------------------------------
\* The swap.

\* allocateColorPorts: ports that nothing is bound to.
FreeTargets == {t \in Targets : PortsOf(t) \cap PortsUp = {}}

\* The idle color came up on fresh ports and is ready; if an earlier container of it could
\* not be stopped, it has been recreated.
BringUp ==
  /\ pc = "idle" /\ ~aborted /\ swaps < MaxSwaps
  /\ \E t \in FreeTargets : up' = (up \cap {target}) \cup {t}
  /\ pc' = "ready"
  /\ UNCHANGED <<target, conns, old, swaps, expired, aborted, closed>>

\* The new color did not become ready, and is stopped if it can be; or the shutdown came
\* first, and leaves it.  No flip.
GiveUp ==
  /\ pc = "ready"
  /\ up' \in {up, up \cap {target}}
  /\ pc' = "idle"
  /\ UNCHANGED <<target, conns, old, swaps, expired, aborted, closed>>

\* mutant: the ports to drain are read after the flip.
DrainsTheNew(new) == new

\* oldPorts, read before the flip.
ToDrain(new) == target

\* setTarget, then drain what the old target still carries; at startup there is none.
SetTarget ==
  /\ pc = "ready"
  /\ \E new \in up \ {target} :
       /\ target' = new
       /\ old' = ToDrain(new)
  /\ swaps' = swaps + 1
  /\ pc' = IF target = None THEN "idle" ELSE "drain"
  /\ expired' = FALSE
  /\ UNCHANGED <<conns, up, aborted, closed>>

Expire ==
  /\ pc = "drain" /\ ~expired
  /\ expired' = TRUE
  /\ UNCHANGED <<target, conns, up, old, pc, swaps, aborted, closed>>

\* mutant: the deadline is not looked at.
OverWhenEmpty == OnTarget(old) = {}

\* The condition that ends drain's polling.
PollOver == OnTarget(old) = {} \/ expired

\* A poll of drain: wait on, give up because of the shutdown, or force-close what is left.
Drain ==
  /\ pc = "drain"
  /\ PollOver \/ aborted
  /\ IF aborted
     THEN pc' = "stop" /\ UNCHANGED conns
     ELSE /\ pc' = "force"
          /\ conns' = Without(OnTarget(old))
  /\ UNCHANGED <<target, up, old, swaps, expired, aborted, closed>>

\* The force-closed clients have emitted 'close'.
Forced ==
  /\ pc = "force"
  /\ pc' = "stop"
  /\ UNCHANGED <<target, conns, up, old, swaps, expired, aborted, closed>>

\* stopColor of the color that was drained; a failure is swallowed.
StopOld ==
  /\ pc = "stop"
  /\ up' \in {up, up \ {old}}
  /\ old' = None
  /\ pc' = "idle"
  /\ UNCHANGED <<target, conns, swaps, expired, aborted, closed>>

-----------------------------------------------------------------------------
\* Shutdown: the loop aborts the drain, then the service stack closes the gateway.

Abort ==
  /\ ~aborted
  /\ aborted' = TRUE
  /\ UNCHANGED <<target, conns, up, old, pc, swaps, expired, closed>>

Close ==
  /\ aborted /\ ~closed
  /\ closed' = TRUE
  /\ conns' = Without(Open)
  /\ UNCHANGED <<target, up, old, pc, swaps, expired, aborted>>

-----------------------------------------------------------------------------
Init ==
  /\ target = None
  /\ conns = [c \in Clients |-> None]
  /\ up = {} /\ old = None /\ pc = "idle" /\ swaps = 0
  /\ expired = FALSE /\ aborted = FALSE /\ closed = FALSE

Swap == BringUp \/ GiveUp \/ SetTarget \/ Drain \/ Forced \/ StopOld

Done == closed /\ pc = "idle" /\ UNCHANGED vars

Next ==
  \/ \E c \in Clients : Accept(c) \/ Hangup(c)
  \/ Swap \/ Expire \/ Abort \/ Close
  \/ Done

\* The loop's awaits end and the drain's deadline comes; guests owe nothing.
Spec == Init /\ [][Next]_vars /\ WF_vars(Swap) /\ WF_vars(Expire)

-----------------------------------------------------------------------------
\* Properties.

\* The type invariant: the target is always a color that is up, and no two colors that
\* are up share a port.
TypeOK ==
  /\ target \in Targets \cup {None} /\ old \in Targets \cup {None}
  /\ conns \in [Clients -> [port: Ports, swap: 0 .. MaxSwaps] \cup {None}]
  /\ up \subseteq Targets /\ Cardinality(up) <= 2
  /\ pc \in {"idle", "ready", "drain", "force", "stop"}
  /\ swaps \in 0 .. MaxSwaps
  /\ expired \in BOOLEAN /\ aborted \in BOOLEAN /\ closed \in BOOLEAN
  /\ target # None => target \in up
  /\ \A s, t \in up : s # t => PortsOf(s) \cap PortsOf(t) = {}

\* Zero downtime: no open connection loses its color under it, unless a shutdown aborted
\* the drain, so the old color is stopped only when nothing is piped to it any more
\* (gateway.ts:35-38 with the drain and stopColor of runHostingLoop.ts:321-323).
NothingCutByStop == ~aborted => \A c \in Open : conns[c].port \in PortsUp

\* The gateway keeps the promises of Connections: a connection keeps the color it was
\* accepted for, is force-closed only when a newer one serves, although connections are told
\* apart by port number alone and ports are reused, and never lives through a second flip
\* (onTarget and drain, gateway.ts:78-114; runHostingLoop.ts:313-323).
Connected == INSTANCE Connections WITH
               conn <- [c \in Clients |-> IF c \in Open THEN conns[c].swap ELSE 0],
               lost <- {c \in Open : conns[c].port \notin PortsUp},
               gen <- swaps, stopping <- aborted, shut <- closed

ConnectionsSpec == Connected!Spec

\* Clients that keep their connections open cannot hold a swap up for ever.
SwapEnds == pc \in {"drain", "force", "stop"} ~> pc = "idle"
==============================================================================
