------------------------------ MODULE FrontDoor ------------------------------
(***************************************************************************)
(* What the proxy stack promises to a guest, whatever run-hosting does     *)
(* behind it: there is one front door; once it is open every new           *)
(* connection reaches a proxy that has passed its health check; what that  *)
(* proxy was built from only ever moves forward, never back to an older    *)
(* policy or credential; and nothing is served that nobody published.      *)
(* RunHosting implements this specification (its FrontDoorSpec).           *)
(***************************************************************************)
EXTENDS Naturals

CONSTANT Sources        \* the watched files: the policy, one per credential

VARIABLES
  door,                 \* "closed" until startup is done, then "open", then "down"
  served,               \* the version of each source the open door serves
  published             \* the newest version of each source

doorVars == <<door, served, published>>

Nothing == [s \in Sources |-> 0]

Behind(f, g) == \A s \in Sources : f[s] <= g[s]

Init ==
  /\ door = "closed"
  /\ served = Nothing
  /\ published = Nothing

\* The user, or a provider's CLI, publishes a newer version of one source.
Publish(s) ==
  /\ published' \in [Sources -> Nat]
  /\ published'[s] > published[s]
  /\ \A r \in Sources \ {s} : published'[r] = published[r]
  /\ UNCHANGED <<door, served>>

\* New connections reach a proxy built from `served'`.
Serve ==
  /\ served' \in [Sources -> Nat]
  /\ Behind(served', published)
  /\ door' = "open"
  /\ UNCHANGED published

Open == door = "closed" /\ Serve

\* One atomic flip, to something at least as new in every source.
Flip == door = "open" /\ Behind(served, served') /\ Serve

Shut ==
  /\ door' = "down"
  /\ served' = Nothing
  /\ UNCHANGED published

Next ==
  \/ \E s \in Sources : Publish(s)
  \/ Open
  \/ Flip
  \/ Shut

Spec == Init /\ [][Next]_doorVars
==============================================================================
