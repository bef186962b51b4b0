---------------------------- MODULE MCRunHosting ----------------------------
\* RunHosting for TLC: a credential is edited twice, so that an edit in the startup gap can
\* be followed by one that is noticed, and the second edit may bring back what the first
\* replaced (version 2 holds what version 0 did); the policy, which has no gap, once.
EXTENDS RunHosting, FiniteSets

MCMaxVersion == [s \in Sources |-> IF s = Policy THEN 1 ELSE 3]
MCIdentity(s, v) == IF v = 2 THEN 0 ELSE v

\* Bound: the credential goes from 0 to 1, and from there to 2 or to 3.
TwoEdits == \A c \in Channels : <<file[c], file'[c]>> \notin {<<0, 2>>, <<0, 3>>, <<2, 3>>}

\* Bound: two kinds of trouble at once, of the files half written and the docker failures so
\* far; one once the credential has been edited twice.
MaxTrouble == IF \E c \in Channels : file'[c] > 1 THEN 1 ELSE 2
Bounded == TwoEdits /\ Cardinality(torn') + Cardinality(faults') <= MaxTrouble

\* Bound: an earlier run has left both colors running, or none.
MCInit == Init /\ status["blue"] = status["green"]

\* No fair step needs trouble: each that can fail can also succeed.
MCSpec == MCInit /\ [][Next /\ Bounded]_vars /\ Fairness
=============================================================================
