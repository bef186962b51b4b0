------------------------ MODULE MCCredentialChannel ------------------------
\* CredentialChannel for TLC: two accounts, so that an account can change and change back;
\* nothing tells one from the other.
EXTENDS CredentialChannel, TLC

AccountSymmetry == Permutations(Accounts)

\* Bound: two nudges at a time that have not returned, one late and one awaited.
MaxInflight == 2
MCSpec == Init /\ [][Next /\ Cardinality(inflight') <= MaxInflight]_vars
=============================================================================
