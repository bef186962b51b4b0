----------------------------- MODULE Connections -----------------------------
(***************************************************************************)
(* What the gateway promises each guest connection, whatever proxies come  *)
(* and go behind it.  A connection belongs to the generation of the proxy  *)
(* it was accepted for and keeps it to its end.  It ends because one of    *)
(* its ends hangs up; or, once a newer generation serves and before the    *)
(* one after that does, because its own is retired; or because run-hosting *)
(* shuts down.  Only a shutdown may take the proxy away from under it.     *)
(* Gateway implements this specification (its ConnectionsSpec).            *)
(***************************************************************************)
EXTENDS Naturals

CONSTANT Clients

VARIABLES
  conn,                 \* the generation each client is connected to, 0 when it is not
  lost,                 \* the clients whose proxy is gone although they are connected
  gen,                  \* the generation that serves, 0 before the first
  stopping,             \* a shutdown has begun
  shut                  \* the gateway is closed

connVars == <<conn, lost, gen, stopping, shut>>

Nobody == [c \in Clients |-> 0]

Init ==
  /\ conn = Nobody /\ lost = {} /\ gen = 0
  /\ stopping = FALSE /\ shut = FALSE

Connect(c) ==
  /\ ~shut /\ gen > 0 /\ conn[c] = 0
  /\ conn' = [conn EXCEPT ![c] = gen]
  /\ UNCHANGED <<lost, gen, stopping, shut>>

\* Either end hangs up.
Disconnect(c) ==
  /\ conn[c] > 0
  /\ conn' = [conn EXCEPT ![c] = 0]
  /\ lost' = lost \ {c}
  /\ UNCHANGED <<gen, stopping, shut>>

\* A new generation serves; until a shutdown, no connection has outlived two of them.
Flip ==
  /\ stopping \/ \A c \in Clients : conn[c] \in {0, gen}
  /\ gen' = gen + 1
  /\ UNCHANGED <<conn, lost, stopping, shut>>

\* The connections to an earlier generation are closed, and no others.
Retire ==
  /\ ~stopping
  /\ conn' = [c \in Clients |-> IF conn[c] = gen THEN gen ELSE 0]
  /\ UNCHANGED <<lost, gen, stopping, shut>>

Stop ==
  /\ stopping' = TRUE
  /\ UNCHANGED <<conn, lost, gen, shut>>

\* The shutdown does not wait for connections when it stops a proxy.
Lose ==
  /\ stopping
  /\ \A c \in lost' : conn[c] > 0
  /\ lost \subseteq lost'
  /\ UNCHANGED <<conn, gen, stopping, shut>>

Shut ==
  /\ stopping
  /\ shut' = TRUE
  /\ conn' = Nobody /\ lost' = {}
  /\ UNCHANGED <<gen, stopping>>

Next ==
  \/ \E c \in Clients : Connect(c) \/ Disconnect(c)
  \/ Flip \/ Retire
  \/ Stop \/ Lose \/ Shut

Spec == Init /\ [][Next]_connVars
==============================================================================
