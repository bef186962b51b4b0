---------------------------- MODULE CredentialPath ----------------------------
(***************************************************************************)
(* What becomes of one credential between its file and the proxy that      *)
(* serves it, whatever drives it there.  A value that was read is staged   *)
(* and written as a secret in one step; a swap either carries it through,  *)
(* and then what is recorded as applied is what was staged for that swap   *)
(* and what is served is what was written, or leaves both records as they  *)
(* were.  Nothing but the two serving steps changes what is served.        *)
(*                                                                         *)
(* Two modules implement it: RunHosting, once per channel (the loop that   *)
(* makes the calls), and CredentialChannel (the channel that is called).   *)
(* It is the interface on which the two models of the loop agree.          *)
(***************************************************************************)

CONSTANT None

VARIABLES
  phase,                \* "boot", "starting", "idle", "swap", "drain", "done"
  mine,                 \* the swap under way was begun for this credential
  staged,               \* read, and waiting to be committed
  applied,              \* recorded as what the proxy carries
  secret,               \* written where the next proxy will look for it
  live                  \* what the serving proxy was brought up with

pathVars == <<phase, mine, staged, applied, secret, live>>

Init ==
  /\ phase = "boot" /\ mine = FALSE
  /\ staged = None /\ applied = None /\ secret = None /\ live = None

\* A value other than None is read, written and staged.
Write ==
  /\ secret' # None
  /\ staged' = secret'

\* What was staged, if anything was, becomes what is recorded.
Record ==
  /\ applied' = staged
  /\ staged' = None

Read ==
  /\ phase = "boot" /\ phase' = "starting"
  /\ Write
  /\ UNCHANGED <<mine, applied, live>>

\* It is not to be: another credential is unreadable, or this one is.
Abandon ==
  /\ phase = "boot" /\ phase' = "done"
  /\ Write \/ UNCHANGED <<secret, staged>>
  /\ UNCHANGED <<mine, applied, live>>

\* The first proxy serves.
Open ==
  /\ phase = "starting" /\ phase' = "idle"
  /\ live' = secret
  /\ Record
  /\ UNCHANGED <<mine, secret>>

\* A value that differs from what is recorded begins a swap.
Stage ==
  /\ phase = "idle" /\ phase' = "swap"
  /\ Write
  /\ staged' # applied
  /\ mine' = TRUE
  /\ UNCHANGED <<applied, live>>

\* A swap begins for the sake of something else.
Join ==
  /\ phase = "idle" /\ phase' = "swap"
  /\ UNCHANGED <<mine, staged, applied, secret, live>>

\* A swap that took no notice of this credential: it serves whatever is written.
OthersServe ==
  /\ phase = "idle"
  /\ live' = secret
  /\ UNCHANGED <<phase, mine, staged, applied, secret>>

\* The swap's proxy serves.
Serve ==
  /\ phase = "swap" /\ phase' = "drain"
  /\ live' = secret
  /\ IF mine THEN Record ELSE UNCHANGED <<staged, applied>>
  /\ UNCHANGED <<mine, secret>>

\* The swap has failed, or has drained.
End ==
  /\ phase \in {"swap", "drain"} /\ phase' = "idle"
  /\ mine' = FALSE
  /\ UNCHANGED <<staged, applied, secret, live>>

Stop ==
  /\ phase' = "done"
  /\ mine' = FALSE
  /\ UNCHANGED <<staged, applied, secret, live>>

Next ==
  \/ Read \/ Abandon \/ Open
  \/ Stage \/ Join \/ OthersServe \/ Serve \/ End
  \/ Stop

Spec == Init /\ [][Next]_pathVars
===============================================================================
