---------------------------- MODULE Gateway_proofs ----------------------------
(***************************************************************************)
(* That a swap cuts no connection, and that the gateway keeps the promises *)
(* of Connections, for any ports, guests and number of swaps, proved by    *)
(* TLAPS.                                                                  *)
(***************************************************************************)
EXTENDS Gateway, FiniteSetTheorems, TLAPS

-----------------------------------------------------------------------------
\* The inductive invariant.

\* Which colors are up in each phase of a swap: between swaps the one that serves, and one
\* more if it could not be stopped.
Serving == {target} \ {None}
Standing ==
  /\ Serving \subseteq up
  /\ target = None <=> swaps = 0
  /\ \/ pc = "idle" /\ old = None /\ \E stale : up \subseteq Serving \cup {stale}
     \/ pc = "ready" /\ old = None /\ \E new \in Targets : new # target /\ up = Serving \cup {new}
     \/ pc \in {"drain", "force", "stop"} /\ old \in Targets /\ target \in Targets
        /\ old # target /\ up = {target, old}

Apart == \A s, t \in up : s # t => PortsOf(s) \cap PortsOf(t) = {}

\* Where the connections are piped to, while no shutdown has cut a drain short.
Piped ==
  /\ target = None => Open = {}
  /\ ~aborted => \A c \in Open : \/ conns[c].port \in PortsOf(target)
                                 \/ pc = "drain" /\ conns[c].port \in PortsOf(old)

\* A connection accepted since the last flip is on the target's ports, and until a shutdown
\* those ports carry no other.
Aged ==
  \A c \in Open :
    /\ conns[c].swap \in 1 .. swaps
    /\ conns[c].swap = swaps => conns[c].port \in PortsOf(target)
    /\ ~aborted /\ conns[c].port \in PortsOf(target) => conns[c].swap = swaps

Shapes ==
  /\ target \in Targets \cup {None} /\ old \in Targets \cup {None}
  /\ conns \in [Clients -> [port: Ports, swap: 0 .. MaxSwaps] \cup {None}]
  /\ up \subseteq Targets
  /\ pc \in {"idle", "ready", "drain", "force", "stop"}
  /\ swaps \in 0 .. MaxSwaps /\ (pc = "ready" => swaps < MaxSwaps)
  /\ expired \in BOOLEAN /\ aborted \in BOOLEAN /\ closed \in BOOLEAN

GInv == Shapes /\ Standing /\ Apart /\ Piped /\ Aged

-----------------------------------------------------------------------------
LEMMA NoneIsNoTarget == None \notin Targets
BY GatewayAssumption DEF Targets

LEMMA RecordIsNotNone ==
  ASSUME NEW p \in Ports, NEW n \in Nat
  PROVE  [port |-> p, swap |-> n] # None
BY GatewayAssumption

LEMMA PortsOfTargets == \A t \in Targets : PortsOf(t) \subseteq Ports
BY DEF Targets, PortsOf

LEMMA AtMostTwo ==
  ASSUME NEW a, NEW b, NEW S, S \subseteq {a, b}
  PROVE  Cardinality(S) <= 2
<1>1. IsFiniteSet({}) /\ Cardinality({}) = 0
  BY FS_EmptySet
<1>2. IsFiniteSet({a}) /\ Cardinality({a}) = 1
  BY FS_Singleton
<1>3. {a} \cup {b} = {a, b}
  OBVIOUS
<1>4. IsFiniteSet({a, b}) /\ Cardinality({a, b}) <= 2
  <2>1. IsFiniteSet({a} \cup {b})
        /\ Cardinality({a} \cup {b}) = IF b \in {a} THEN Cardinality({a}) ELSE Cardinality({a}) + 1
    BY <1>2, FS_AddElement
  <2> QED BY <1>2, <1>3, <2>1
<1>5. Cardinality(S) <= Cardinality({a, b}) /\ Cardinality(S) \in Nat
  BY <1>4, FS_Subset, FS_CardinalityType
<1>6. Cardinality({a, b}) \in Nat
  BY <1>4, FS_CardinalityType
<1> QED BY <1>4, <1>5, <1>6

\* Some connections go: nothing that was true of the others changes.
LEMMA Fewer ==
  ASSUME GInv, NEW cs, conns' = Without(cs)
  PROVE  /\ conns' \in [Clients -> [port: Ports, swap: 0 .. MaxSwaps] \cup {None}]
         /\ Open' = Open \ cs
         /\ \A c \in Open' : conns'[c] = conns[c]
<1>1. conns \in [Clients -> [port: Ports, swap: 0 .. MaxSwaps] \cup {None}]
  BY DEF GInv, Shapes
<1>2. \A c \in Clients : conns'[c] = IF c \in cs THEN None ELSE conns[c]
  BY DEF Without
<1>3. conns' \in [Clients -> [port: Ports, swap: 0 .. MaxSwaps] \cup {None}]
  BY <1>1 DEF Without
<1> QED BY <1>2, <1>3 DEF Open

LEMMA GatewayInitial == Init => GInv
<1> SUFFICES ASSUME Init PROVE GInv
  OBVIOUS
<1>1. Open = {} /\ up = {} /\ target = None /\ old = None /\ pc = "idle" /\ swaps = 0
  BY DEF Init, Open
<1>2. 0 \in 0 .. MaxSwaps
  BY GatewayAssumption
<1>3. Shapes
  <2>1. conns \in [Clients -> [port: Ports, swap: 0 .. MaxSwaps] \cup {None}]
    BY DEF Init
  <2> QED BY <1>1, <1>2, <2>1 DEF Init, Shapes
<1> QED BY <1>1, <1>3 DEF GInv, Standing, Serving, Apart, Piped, Aged

LEMMA AcceptKeeps ==
  ASSUME GInv, NEW c \in Clients, Accept(c)
  PROVE  GInv'
<1>1. target # None /\ UNCHANGED <<target, up, old, pc, swaps, expired, aborted, closed>>
  BY DEF Accept
<1>2. PICK p \in PortsOf(target) : conns' = [conns EXCEPT ![c] = [port |-> p, swap |-> swaps]]
  BY DEF Accept
<1>3. target \in Targets /\ p \in Ports /\ swaps \in 0 .. MaxSwaps
  BY <1>1, PortsOfTargets DEF GInv, Shapes
<1> DEFINE n == [port |-> p, swap |-> swaps]
<1>4. n \in [port: Ports, swap: 0 .. MaxSwaps] /\ n.port = p /\ n.swap = swaps
  BY <1>3
<1> HIDE DEF n
<1>5. conns \in [Clients -> [port: Ports, swap: 0 .. MaxSwaps] \cup {None}]
  BY DEF GInv, Shapes
<1>6. conns' \in [Clients -> [port: Ports, swap: 0 .. MaxSwaps] \cup {None}]
  BY <1>2, <1>4, <1>5 DEF n
<1>7. \A d \in Open' : d \in Clients /\ ((d = c /\ conns'[d] = n) \/ (d \in Open /\ conns'[d] = conns[d]))
  BY <1>2, <1>5 DEF Open, n
<1>8. Shapes'
  BY <1>1, <1>6 DEF GInv, Shapes
<1>9. Standing' /\ Apart'
  BY <1>1 DEF GInv, Standing, Serving, Apart
<1>10. Piped'
  BY <1>1, <1>4, <1>7 DEF GInv, Piped
<1>11. Aged'
  <2>1. swaps \in 1 .. swaps
    BY <1>1, <1>3, GatewayAssumption DEF GInv, Standing
  <2> QED BY <1>1, <1>4, <1>7, <2>1 DEF GInv, Aged
<1> QED BY <1>8, <1>9, <1>10, <1>11 DEF GInv

LEMMA HangupKeeps ==
  ASSUME GInv, NEW cs, conns' = Without(cs),
         UNCHANGED <<target, up, old, pc, swaps, expired>>,
         aborted' \in BOOLEAN, closed' \in BOOLEAN, ~aborted' => ~aborted
  PROVE  GInv'
<1>1. /\ conns' \in [Clients -> [port: Ports, swap: 0 .. MaxSwaps] \cup {None}]
      /\ Open' \subseteq Open /\ \A c \in Open' : conns'[c] = conns[c]
  BY Fewer
<1>2. Shapes'
  BY <1>1 DEF GInv, Shapes
<1>3. Standing' /\ Apart'
  BY DEF GInv, Standing, Serving, Apart
<1>4. Piped'
  BY <1>1 DEF GInv, Piped
<1>5. Aged'
  BY <1>1 DEF GInv, Aged
<1> QED BY <1>2, <1>3, <1>4, <1>5 DEF GInv

LEMMA BringUpKeeps == GInv /\ BringUp => GInv'
<1> SUFFICES ASSUME GInv, BringUp PROVE GInv'
  OBVIOUS
<1>1. /\ pc = "idle" /\ swaps < MaxSwaps /\ pc' = "ready"
      /\ UNCHANGED <<target, conns, old, swaps, expired, aborted, closed>>
  BY DEF BringUp
<1>2. PICK t \in Targets : PortsOf(t) \cap PortsUp = {} /\ up' = (up \cap {target}) \cup {t}
  BY DEF BringUp, FreeTargets
<1>3. old = None /\ Serving \subseteq up /\ up \subseteq Targets /\ (target = None <=> swaps = 0)
  BY <1>1 DEF GInv, Standing, Shapes
<1>4. up \cap {target} = Serving
  BY <1>3, NoneIsNoTarget DEF Serving
<1>5. t \notin up
  <2>1. t.https \in PortsOf(t)
    BY DEF PortsOf
  <2> QED BY <1>2, <2>1 DEF PortsUp
<1>6. t # target
  BY <1>3, <1>5, NoneIsNoTarget DEF Serving
<1>7. Standing'
  BY <1>1, <1>2, <1>3, <1>4, <1>6 DEF Standing, Serving
<1>8. \A s \in up : PortsOf(t) \cap PortsOf(s) = {}
  BY <1>2 DEF PortsUp
<1>9. Apart'
  BY <1>2, <1>8 DEF GInv, Apart
<1>10. Shapes'
  BY <1>1, <1>2, <1>3 DEF GInv, Shapes
<1>11. Open' = Open
  BY <1>1 DEF Open
<1>12. Piped' /\ Aged'
  BY <1>1, <1>11 DEF GInv, Piped, Aged
<1> QED BY <1>7, <1>9, <1>10, <1>12 DEF GInv

\* The new color, or an old one, is stopped or survives; the one that serves is not touched.
LEMMA StopKeeps ==
  ASSUME GInv, pc \in {"ready", "stop"}, pc' = "idle", old' = None,
         up' \subseteq up, Serving \subseteq up',
         UNCHANGED <<target, conns, swaps, expired, aborted, closed>>
  PROVE  GInv'
<1>1. \E stale : up \subseteq Serving \cup {stale}
  BY NoneIsNoTarget DEF GInv, Standing, Serving
<1>2. Standing' /\ Apart' /\ Shapes'
  BY <1>1 DEF GInv, Standing, Serving, Apart, Shapes
<1>3. Open' = Open
  BY DEF Open
<1>4. Piped' /\ Aged'
  BY <1>3 DEF GInv, Piped, Aged
<1> QED BY <1>2, <1>4 DEF GInv

LEMMA GiveUpKeeps == GInv /\ GiveUp => GInv'
<1> SUFFICES ASSUME GInv, GiveUp PROVE GInv'
  OBVIOUS
<1>1. old = None /\ Serving \subseteq up
  BY DEF GInv, Standing, GiveUp
<1>2. up' \subseteq up /\ Serving \subseteq up'
  BY <1>1 DEF GiveUp, Serving
<1> QED BY <1>1, <1>2, StopKeeps DEF GiveUp

LEMMA StopOldKeeps == GInv /\ StopOld => GInv'
<1> SUFFICES ASSUME GInv, StopOld PROVE GInv'
  OBVIOUS
<1>1. old # target /\ Serving \subseteq up
  BY DEF GInv, Standing, StopOld
<1>2. up' \subseteq up /\ Serving \subseteq up'
  BY <1>1 DEF StopOld, Serving
<1> QED BY <1>2, StopKeeps DEF StopOld

\* The ports of a color that came up while nothing was aborted carry no connection.
LEMMA FreshPorts ==
  ASSUME GInv, pc = "ready", ~aborted, NEW new \in up \ {target}, NEW c \in Open
  PROVE  conns[c].port \notin PortsOf(new)
<1>1. target # None /\ conns[c].port \in PortsOf(target)
  BY DEF GInv, Piped
<1>2. target \in up
  BY <1>1 DEF GInv, Standing, Serving
<1> QED BY <1>1, <1>2 DEF GInv, Apart

LEMMA SetTargetKeeps == GInv /\ SetTarget => GInv'
<1> SUFFICES ASSUME GInv, SetTarget PROVE GInv'
  OBVIOUS
<1>1. /\ pc = "ready" /\ swaps' = swaps + 1 /\ expired' = FALSE
      /\ pc' = (IF target = None THEN "idle" ELSE "drain")
      /\ UNCHANGED <<conns, up, aborted, closed>>
  BY DEF SetTarget
<1>2. PICK new \in up \ {target} : target' = new /\ old' = target
  BY DEF SetTarget, ToDrain
<1>3. new \in Targets /\ target \in Targets \cup {None} /\ up \subseteq Targets /\ swaps \in Nat /\ swaps < MaxSwaps
  BY <1>1, GatewayAssumption DEF GInv, Shapes
<1>4. PICK x \in Targets : old = None /\ x # target /\ up = Serving \cup {x}
  BY <1>1 DEF GInv, Standing
<1>5. up = Serving \cup {new}
  BY <1>2, <1>4 DEF Serving
<1>6. Standing'
  <2>0. target' # None /\ swaps' # 0 /\ Serving' \subseteq up'
    BY <1>1, <1>2, <1>3, NoneIsNoTarget DEF Serving
  <2>1. CASE target = None
    BY <1>1, <1>2, <1>3, <1>5, <2>0, <2>1, NoneIsNoTarget DEF Standing, Serving
  <2>2. CASE target # None
    <3>1. up = {target, new} /\ target \in Targets
      BY <1>3, <1>5, <2>2 DEF Serving
    <3> QED BY <1>1, <1>2, <1>3, <2>0, <2>2, <3>1 DEF Standing
  <2> QED BY <2>1, <2>2
<1>7. swaps' \in 0 .. MaxSwaps /\ 0 .. MaxSwaps \subseteq Nat
  BY <1>1, <1>3, GatewayAssumption
<1>8. Shapes'
  <2>1. pc' \in {"idle", "drain"} /\ pc' # "ready"
    BY <1>1
  <2> QED BY <1>1, <1>2, <1>3, <1>7, <2>1 DEF GInv, Shapes
<1>9. Apart'
  BY <1>1 DEF GInv, Apart
<1>10. Open' = Open
  BY <1>1 DEF Open
<1>11. Piped'
  BY <1>1, <1>2, <1>3, <1>10, NoneIsNoTarget DEF GInv, Piped
<1>12. Aged'
  <2> SUFFICES ASSUME NEW c \in Open
               PROVE  /\ conns[c].swap \in 1 .. swaps + 1 /\ conns[c].swap # swaps + 1
                      /\ ~aborted => conns[c].port \notin PortsOf(new)
    BY <1>1, <1>2, <1>10 DEF Aged
  <2>1. conns[c].swap \in 1 .. swaps
    BY DEF GInv, Aged
  <2> QED BY <1>1, <1>2, <1>3, <2>1, FreshPorts
<1> QED BY <1>6, <1>8, <1>9, <1>11, <1>12 DEF GInv

LEMMA DrainKeeps == GInv /\ Drain => GInv'
<1> SUFFICES ASSUME GInv, Drain PROVE GInv'
  OBVIOUS
<1>1. pc = "drain" /\ UNCHANGED <<target, up, old, swaps, expired, aborted, closed>>
  BY DEF Drain
<1>2. old \in Targets /\ target \in Targets /\ old # target /\ up = {target, old} /\ Serving \subseteq up
      /\ (target = None <=> swaps = 0)
  BY <1>1 DEF GInv, Standing
<1>3. pc' \in {"stop", "force"}
  BY DEF Drain
<1>4. Shapes' /\ Standing' /\ Apart'
  <2>1. conns' \in [Clients -> [port: Ports, swap: 0 .. MaxSwaps] \cup {None}]
    BY Fewer DEF Drain, GInv, Shapes
  <2> QED BY <1>1, <1>2, <1>3, <2>1 DEF GInv, Shapes, Standing, Serving, Apart
<1>5. CASE aborted
  <2>1. conns' = conns
    BY <1>5 DEF Drain
  <2>2. Open' = Open
    BY <2>1 DEF Open
  <2>3. Piped' /\ Aged'
    BY <1>1, <1>5, <2>1, <2>2 DEF GInv, Piped, Aged
  <2> QED BY <1>4, <2>3 DEF GInv
<1>6. CASE ~aborted
  <2>1. conns' = Without(OnTarget(old))
    BY <1>6 DEF Drain
  <2>2. Open' = Open \ OnTarget(old) /\ \A c \in Open' : conns'[c] = conns[c]
    BY <2>1, Fewer
  <2>3. Piped' /\ Aged'
    BY <1>1, <2>2 DEF GInv, Piped, Aged, OnTarget
  <2> QED BY <1>4, <2>3 DEF GInv
<1> QED BY <1>5, <1>6

LEMMA GatewayStep == GInv /\ [Next]_vars => GInv'
<1> SUFFICES ASSUME GInv, [Next]_vars PROVE GInv'
  OBVIOUS
<1>1. CASE \E c \in Clients : Accept(c)
  BY <1>1, AcceptKeeps
<1>2. CASE \E c \in Clients : Hangup(c)
  <2>1. PICK c \in Clients : Hangup(c)
    BY <1>2
  <2> QED BY <2>1, HangupKeeps DEF Hangup, GInv, Shapes
<1>3. CASE Swap
  <2>1. CASE Forced
    <3>1. /\ pc = "force" /\ pc' = "stop"
          /\ UNCHANGED <<target, conns, up, old, swaps, expired, aborted, closed>>
      BY <2>1 DEF Forced
    <3>2. Open' = Open
      BY <3>1 DEF Open
    <3> QED BY <3>1, <3>2 DEF GInv, Shapes, Standing, Serving, Apart, Piped, Aged
  <2> QED BY <1>3, <2>1, BringUpKeeps, GiveUpKeeps, SetTargetKeeps, DrainKeeps, StopOldKeeps DEF Swap
<1>4. CASE Expire
  <2>1. expired' = TRUE /\ UNCHANGED <<target, conns, up, old, pc, swaps, aborted, closed>>
    BY <1>4 DEF Expire
  <2>2. Open' = Open
    BY <2>1 DEF Open
  <2> QED BY <2>1, <2>2 DEF GInv, Shapes, Standing, Serving, Apart, Piped, Aged
<1>5. CASE Abort
  <2>1. aborted' = TRUE /\ UNCHANGED <<target, conns, up, old, pc, swaps, expired, closed>>
    BY <1>5 DEF Abort
  <2>2. Open' = Open
    BY <2>1 DEF Open
  <2> QED BY <2>1, <2>2 DEF GInv, Shapes, Standing, Serving, Apart, Piped, Aged
<1>6. CASE Close
  BY <1>6, HangupKeeps DEF Close, GInv, Shapes
<1>7. CASE UNCHANGED vars
  <2>1. Open' = Open
    BY <1>7 DEF vars, Open
  <2> QED BY <1>7, <2>1 DEF vars, GInv, Shapes, Standing, Serving, Apart, Piped, Aged
<1> QED BY <1>1, <1>2, <1>3, <1>4, <1>5, <1>6, <1>7 DEF Next, Done

THEOREM GatewayInvariant == Spec => []GInv
BY GatewayInitial, GatewayStep, PTL DEF Spec

\* The target is always a color that is up, and at most two colors are, on different ports
\* (Gateway with allocateColorPorts).
THEOREM GatewayTypes == Spec => []TypeOK
<1>1. GInv => TypeOK
  <2> SUFFICES ASSUME GInv PROVE TypeOK
    OBVIOUS
  <2>1. target # None => target \in up
    BY DEF GInv, Standing, Serving
  <2>2. \E a, b : up \subseteq {a, b}
    <3>1. up \subseteq {target, old} \/ \E new : up \subseteq {target, new}
      BY DEF GInv, Standing, Serving
    <3> QED BY <3>1
  <2>3. Cardinality(up) <= 2
    BY <2>2, AtMostTwo
  <2> QED BY <2>1, <2>3 DEF GInv, Shapes, Apart, TypeOK
<1> QED BY <1>1, GatewayInvariant, PTL

\* No open connection loses its color under it, unless a shutdown aborted the drain
\* (drain and stopColor, runHostingLoop.ts:321-323).
THEOREM ZeroDowntime == Spec => []NothingCutByStop
<1>1. GInv => NothingCutByStop
  <2> SUFFICES ASSUME GInv, ~aborted, NEW c \in Open PROVE conns[c].port \in PortsUp
    BY DEF NothingCutByStop
  <2>1. target \in up
    BY DEF GInv, Piped, Standing, Serving
  <2>2. CASE conns[c].port \in PortsOf(target)
    BY <2>1, <2>2 DEF PortsUp
  <2>3. CASE pc = "drain" /\ conns[c].port \in PortsOf(old)
    <3>1. old \in up
      BY <2>3 DEF GInv, Standing
    <3> QED BY <2>3, <3>1 DEF PortsUp
  <2> QED BY <2>2, <2>3 DEF GInv, Piped
<1> QED BY <1>1, GatewayInvariant, PTL

-----------------------------------------------------------------------------
\* The gateway implements Connections.

Conn == [c \in Clients |-> IF c \in Open THEN conns[c].swap ELSE 0]
Lost == {c \in Open : conns[c].port \notin PortsUp}

\* Until a shutdown, no connection has lost its color.
LEMMA NoneLost == GInv /\ ~aborted => Lost = {}
<1> SUFFICES ASSUME GInv, ~aborted, NEW c \in Open PROVE conns[c].port \in PortsUp
  BY DEF Lost
<1>1. target \in up
  BY DEF GInv, Piped, Standing, Serving
<1>2. CASE conns[c].port \in PortsOf(target)
  BY <1>1, <1>2 DEF PortsUp
<1>3. CASE pc = "drain" /\ conns[c].port \in PortsOf(old)
  <2>1. old \in up
    BY <1>3 DEF GInv, Standing
  <2> QED BY <1>3, <2>1 DEF PortsUp
<1> QED BY <1>2, <1>3 DEF GInv, Piped

\* A step that keeps the connections and stops colors at most: to a guest it is nothing, or
\* the loss of connections in a shutdown.
LEMMA StoppingLoses ==
  ASSUME GInv, GInv', up' \subseteq up \/ ~aborted, UNCHANGED <<conns, swaps, aborted, closed>>
  PROVE  [Connected!Next]_(Connected!connVars)
<1>1. Open' = Open /\ Conn' = Conn
  BY DEF Open, Conn
<1>2. CASE ~aborted
  <2>0. (GInv /\ ~aborted => Lost = {}) /\ (GInv /\ ~aborted => Lost = {})'
    BY NoneLost, PTL
  <2>1. Lost = {} /\ Lost' = {}
    BY <1>2, <2>0
  <2> QED BY <1>1, <2>1 DEF Connected!connVars, Conn, Lost
<1>3. CASE aborted
  <2>1. PortsUp' \subseteq PortsUp
    BY <1>3 DEF PortsUp
  <2>2. Lost \subseteq Lost'
    BY <1>1, <2>1 DEF Lost
  <2>3. \A c \in Lost' : Conn[c] > 0
    BY <1>1, GatewayAssumption DEF Lost, Conn, Open, GInv, Shapes, Aged
  <2>4. Connected!Lose
    BY <1>1, <1>3, <2>2, <2>3 DEF Connected!Lose, Conn, Lost
  <2> QED BY <2>4 DEF Connected!Next
<1> QED BY <1>2, <1>3

\* Connections that go, by a hang-up, by the end of a drain or by the shutdown.
LEMMA OthersStay ==
  ASSUME GInv, NEW cs \in SUBSET Clients, conns' = Without(cs), UNCHANGED up
  PROVE  /\ Conn' = [c \in Clients |-> IF c \in cs THEN 0 ELSE Conn[c]]
         /\ Lost' = Lost \ cs
<1>1. Open' = Open \ cs /\ \A c \in Open' : conns'[c] = conns[c]
  BY Fewer
<1>2. PortsUp' = PortsUp
  BY DEF PortsUp
<1> QED BY <1>1, <1>2 DEF Conn, Lost

\* Every step of the gateway and the swap is a step of Connections, or none: the flip is a
\* flip, the end of a drain retires the earlier generation, and all of it.
LEMMA StepConnections ==
  ASSUME GInv, GInv', [Next]_vars
  PROVE  [Connected!Next]_(Connected!connVars)
<1> USE DEF Connected!Next
<1>1. ASSUME NEW c \in Clients, Accept(c)
      PROVE  Connected!Connect(c)
  <2>1. target # None /\ ~closed /\ c \notin Open /\ UNCHANGED <<up, swaps, aborted, closed, target>>
    BY <1>1 DEF Accept
  <2>2. PICK p \in PortsOf(target) : conns' = [conns EXCEPT ![c] = [port |-> p, swap |-> swaps]]
    BY <1>1 DEF Accept
  <2>3. swaps > 0 /\ target \in up
    BY <2>1, GatewayAssumption DEF GInv, Shapes, Standing, Serving
  <2>4. /\ Open' = Open \cup {c}
        /\ conns'[c] = [port |-> p, swap |-> swaps]
        /\ \A d \in Open : conns'[d] = conns[d]
    <3>1. conns \in [Clients -> [port: Ports, swap: 0 .. MaxSwaps] \cup {None}]
      BY DEF GInv, Shapes
    <3>2. [port |-> p, swap |-> swaps] # None
      <4>1. p \in Ports /\ swaps \in 0 .. MaxSwaps
        BY <2>1, <2>2, PortsOfTargets DEF GInv, Shapes
      <4> QED BY <4>1, RecordIsNotNone
    <3> QED BY <2>1, <2>2, <3>1, <3>2 DEF Open
  <2>5. Conn[c] = 0 /\ Conn' = [Conn EXCEPT ![c] = swaps]
    <3>1. conns'[c].swap = swaps
      BY <2>4
    <3>2. \A d \in Clients : Conn'[d] = IF d = c THEN swaps ELSE Conn[d]
      BY <2>1, <2>4, <3>1 DEF Conn
    <3> QED BY <2>1, <3>2 DEF Conn
  <2>6. PortsUp' = PortsUp /\ p \in PortsUp
    BY <2>1, <2>2, <2>3 DEF PortsUp
  <2>7. Lost' = Lost
    BY <2>1, <2>4, <2>6 DEF Lost
  <2> QED BY <2>1, <2>3, <2>5, <2>7 DEF Connected!Connect, Conn, Lost
<1>2. ASSUME NEW c \in Clients, Hangup(c)
      PROVE  Connected!Disconnect(c)
  <2>1. c \in Open /\ conns' = Without({c}) /\ UNCHANGED <<up, swaps, aborted, closed>>
    BY <1>2 DEF Hangup
  <2>2. Conn[c] > 0
    BY <2>1, GatewayAssumption DEF Conn, Open, GInv, Shapes, Aged
  <2>3. Conn' = [d \in Clients |-> IF d \in {c} THEN 0 ELSE Conn[d]] /\ Lost' = Lost \ {c}
    BY <2>1, OthersStay
  <2>4. Conn' = [Conn EXCEPT ![c] = 0]
    BY <2>3 DEF Conn
  <2> QED BY <2>1, <2>2, <2>3, <2>4 DEF Connected!Disconnect, Conn, Lost
<1>3. CASE SetTarget
  <2>1. pc = "ready" /\ swaps' = swaps + 1 /\ UNCHANGED <<conns, up, aborted, closed>>
    BY <1>3 DEF SetTarget
  <2>2. Conn' = Conn /\ Lost' = Lost
    BY <2>1 DEF Conn, Lost, Open, PortsUp
  <2>3. aborted \/ \A c \in Clients : Conn[c] \in {0, swaps}
    BY <2>1 DEF Conn, GInv, Piped, Aged
  <2> QED BY <2>1, <2>2, <2>3 DEF Connected!Flip, Conn, Lost
<1>4. CASE Drain /\ ~aborted
  <2>1. pc = "drain" /\ conns' = Without(OnTarget(old)) /\ UNCHANGED <<target, up, swaps, aborted, closed>>
    BY <1>4 DEF Drain
  <2>2. \A c \in Open : conns[c].swap = swaps <=> c \notin OnTarget(old)
    <3>1. old # target /\ old \in up /\ target \in up
      BY <2>1 DEF GInv, Standing
    <3>2. PortsOf(old) \cap PortsOf(target) = {}
      BY <3>1 DEF GInv, Apart
    <3> QED BY <1>4, <3>2 DEF GInv, Piped, Aged, OnTarget
  <2>3. Conn' = [c \in Clients |-> IF c \in OnTarget(old) THEN 0 ELSE Conn[c]] /\ Lost' = Lost \ OnTarget(old)
    BY <2>1, OthersStay DEF OnTarget, Open
  <2>4. \A c \in Clients : (IF c \in OnTarget(old) THEN 0 ELSE Conn[c]) = (IF Conn[c] = swaps THEN swaps ELSE 0)
    <3> SUFFICES ASSUME NEW c \in Clients
                 PROVE  (IF c \in OnTarget(old) THEN 0 ELSE Conn[c]) = (IF Conn[c] = swaps THEN swaps ELSE 0)
      OBVIOUS
    <3>1. CASE c \in Open
      BY <2>2, <3>1 DEF Conn
    <3>2. CASE c \notin Open
      BY <3>2 DEF Conn, OnTarget
    <3> QED BY <3>1, <3>2
  <2>5. Conn' = [c \in Clients |-> IF Conn[c] = swaps THEN swaps ELSE 0]
    BY <2>3, <2>4
  <2>6. Lost = {}
    BY <1>4, NoneLost
  <2>7. Connected!Retire
    BY <1>4, <2>1, <2>3, <2>5, <2>6 DEF Connected!Retire, Conn, Lost
  <2> QED BY <2>7
<1>5. CASE Abort
  <2>1. Conn' = Conn /\ Lost' = Lost
    BY <1>5 DEF Abort, Conn, Lost, Open, PortsUp
  <2> QED BY <1>5, <2>1 DEF Abort, Connected!Stop, Conn, Lost
<1>6. CASE Close
  <2>1. aborted /\ closed' = TRUE /\ conns' = Without(Open) /\ UNCHANGED <<up, swaps, aborted>>
    BY <1>6 DEF Close
  <2>2. Conn' = [c \in Clients |-> IF c \in Open THEN 0 ELSE Conn[c]] /\ Lost' = Lost \ Open
    BY <2>1, OthersStay DEF Open
  <2>3. Conn' = [c \in Clients |-> 0] /\ Lost' = {}
    BY <2>2 DEF Conn, Lost
  <2> QED BY <2>1, <2>3 DEF Connected!Shut, Connected!Nobody, Conn, Lost
<1>7. CASE BringUp \/ GiveUp \/ StopOld
  <2>1. (up' \subseteq up \/ ~aborted) /\ UNCHANGED <<conns, swaps, aborted, closed>>
    BY <1>7 DEF BringUp, GiveUp, StopOld
  <2> QED BY <2>1, StoppingLoses
<1>8. CASE (Drain /\ aborted) \/ Forced \/ Expire \/ UNCHANGED vars
  <2>1. up' = up /\ UNCHANGED <<conns, swaps, aborted, closed>>
    BY <1>8 DEF Drain, Forced, Expire, vars
  <2> QED BY <2>1, StoppingLoses
<1> QED BY <1>1, <1>2, <1>3, <1>4, <1>5, <1>6, <1>7, <1>8 DEF Next, Swap, Done

\* The gateway keeps its promises to every guest connection: it keeps its color, it is cut by a
\* drain only when a newer color serves, and none outlives a second flip (onTarget and drain,
\* gateway.ts:78-114; runHostingLoop.ts:313-323).
THEOREM ImplementsConnections == Spec => ConnectionsSpec
<1>1. Init => Connected!Init
  BY DEF Init, Connected!Init, Connected!Nobody, Open
<1>2. GInv /\ GInv' /\ [Next]_vars => [Connected!Next]_(Connected!connVars)
  BY StepConnections
<1> QED
  BY <1>1, <1>2, GatewayInvariant, PTL DEF Spec, ConnectionsSpec, Connected!Spec
=============================================================================
