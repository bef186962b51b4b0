----------------------------- MODULE GuestTrust -----------------------------
(***************************************************************************)
(* What a guest that is brought to trust what its host trusts is promised, *)
(* whatever brings it there.  A run only adds to the guest's store and to  *)
(* the files until what it publishes is trusted already, contains all that *)
(* is on file, and is named to those who read it; only then is anything    *)
(* taken out of the store again, and never what somebody else put there,   *)
(* what is on file, or what is published.  A run may fail at any moment;   *)
(* one that ends well has published all it was to, and all of that is      *)
(* trusted.                                                                *)
(*                                                                         *)
(* WindowsTrust implements it (its GuestTrustSpec).                        *)
(***************************************************************************)
CONSTANTS Certs, None

VARIABLES
  wanted,               \* what the guest is to trust
  store,                \* what it trusts
  foreign,              \* what somebody else has put there
  filed,                \* what is on file to be trusted
  published,            \* what those who do not read the store trust, or None
  named,                \* whether they know where it is
  state                 \* "new", "running", "ok", "failed"

trustVars == <<wanted, store, foreign, filed, published, named, state>>

Init ==
  /\ wanted \in SUBSET Certs
  /\ store \in SUBSET Certs /\ foreign = store
  /\ filed = {} /\ published = None /\ named = FALSE
  /\ state = "new"

-----------------------------------------------------------------------------
\* Between runs.

Change ==
  /\ wanted' \in SUBSET Certs
  /\ UNCHANGED <<store, foreign, filed, published, named>>

OthersAdd(c) ==
  /\ store' = store \cup {c} /\ foreign' = foreign \cup {c}
  /\ UNCHANGED <<wanted, filed, published, named>>

Lose ==
  /\ filed' \in SUBSET filed
  /\ UNCHANGED <<wanted, store, foreign, published, named>>

Between ==
  /\ state # "running" /\ state' = state
  /\ Change \/ (\E c \in Certs : OthersAdd(c)) \/ Lose

Begin ==
  /\ state # "running" /\ state' = "running"
  /\ UNCHANGED <<wanted, store, foreign, filed, published, named>>

-----------------------------------------------------------------------------
\* In a run.

File ==
  /\ filed' \in SUBSET Certs /\ filed \subseteq filed'
  /\ UNCHANGED <<store, published, named>>

Import ==
  /\ store' \in SUBSET Certs /\ store \subseteq store'
  /\ UNCHANGED <<filed, published, named>>

Publish ==
  /\ published' \in SUBSET store
  /\ wanted \cup filed \subseteq published'
  /\ UNCHANGED <<store, filed, named>>

Name ==
  /\ published \in SUBSET store
  /\ named' = TRUE
  /\ UNCHANGED <<store, filed, published>>

Remove ==
  /\ named /\ published \in SUBSET store
  /\ wanted \cup filed \subseteq published
  /\ store' \in SUBSET store
  /\ foreign \cup published \subseteq store'
  /\ UNCHANGED <<filed, published, named>>

Rest == UNCHANGED <<store, filed, published, named>>

\* All there is to trust is published, where it is looked for, and trusted.
Converged ==
  /\ named /\ published \in SUBSET store
  /\ wanted \cup filed \subseteq published

Within ==
  /\ state = "running" /\ state' \in {"running", "ok", "failed"}
  /\ File \/ Import \/ Publish \/ Name \/ Remove \/ Rest
  /\ state' = "ok" => Converged'
  /\ UNCHANGED <<wanted, foreign>>

Next == Between \/ Begin \/ Within

Spec == Init /\ [][Next]_trustVars
=============================================================================
