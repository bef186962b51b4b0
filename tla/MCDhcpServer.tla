--------------------------- MODULE MCDhcpServer ---------------------------
\* DhcpServer for TLC: guests whose identities hash to the same slot, so that nothing tells
\* one from the other, and a pool with the host's own address in it.
EXTENDS DhcpServer, TLC

SameHash == [c \in Clients |-> 1]
ClientSymmetry == Permutations(Clients)
=============================================================================
