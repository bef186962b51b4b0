--------------------------- MODULE MCWindowsTrust ---------------------------
\* WindowsTrust for TLC; nothing tells one certificate from another.
EXTENDS WindowsTrust, TLC

CertSymmetry == Permutations(Certs)
=============================================================================
