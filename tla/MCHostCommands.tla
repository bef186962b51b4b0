--------------------------- MODULE MCHostCommands ---------------------------
\* Bounded instance of the operator's commands: those of HostCommands and update-shares, which
\* shares no state with them.  Two subnets, which nothing but their names tells apart, as are
\* the process ids.
EXTENDS HostCommands, ShareSwap, TLC

\* Bounds: the operator gives at most MaxCommands commands, of HostCommands or update-shares.
\* generate-ca and the network's commands share no state: where both are given, generate-ca
\* has succeeded before, and one command is left for run-hosting, which reads what both have
\* made; an environment without a terminated host, which tells only generate-ca anything, is
\* given that command alone.  One subnet of the host's at most is taken.
AnyInit == HostInit /\ SwapInit /\ Cardinality(taken) <= 1
AnyNext ==
  \/ /\ HostNext /\ UNCHANGED swapVars /\ updates = 0
     /\ count' * issued' > 0 => gca'.step = "ok" /\ count' + issued' < MaxCommands
     /\ ~files.terminates => count' + starts' = 0
  \/ SwapNext /\ UNCHANGED hostVars /\ updates' <= MaxCommands /\ count + issued + starts = 0
AnySpec == AnyInit /\ [][AnyNext]_<<hostVars, swapVars>>

Symmetric == Permutations(Subnets) \cup Permutations(Pids)

=============================================================================
